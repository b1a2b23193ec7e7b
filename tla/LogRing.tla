-------------------------------- MODULE LogRing --------------------------------
(***************************************************************************)
(* ace-server's log: stderr goes through a pipe to a thread that puts the  *)
(* lines into a ring, and GET /logs streams them.  A handler releases the  *)
(* mutex for every line it sends, so the ring turns under it while a slow  *)
(* client keeps it waiting.  Lines are numbered as they are written.       *)
(***************************************************************************)
EXTENDS Naturals, Sequences

CONSTANTS RingSize,   \* LOG_RING_SIZE
          Lines,      \* lines written in all
          Clients

ASSUME RingAssumption == RingSize \in Nat \ {0} /\ Lines \in Nat

VARIABLES log_ring, log_seq, sse
ringVars == <<log_ring, log_seq, sse>>

\* A client's stream: where its handler is, its cursor, what it has been sent,
\* whether the ring has ever lapped it.
NoStream == [pc |-> "none", cursor |-> 0, sent |-> <<>>, first |-> 0, lapped |-> FALSE]

RingInit ==
    /\ log_ring = [i \in 0 .. RingSize - 1 |-> 0]
    /\ log_seq = 0
    /\ sse = [c \in Clients |-> NoStream]

RingSlot(n) == log_ring[n % RingSize]

\* Sends the line under the cursor, and comes back for the mutex.
Delivered(s) ==
    [s EXCEPT !.sent = Append(@, RingSlot(s.cursor)), !.cursor = @ + 1,
              !.lapped = @ \/ log_seq > s.cursor + RingSize]

\* log_reader_main: one line, under the mutex, and whoever waits is woken.
LogPush ==
    /\ log_seq < Lines
    /\ log_ring' = [log_ring EXCEPT ![log_seq % RingSize] = log_seq + 1]
    /\ log_seq' = log_seq + 1
    /\ sse' = [c \in Clients |-> IF sse[c].pc = "waiting" THEN [sse[c] EXCEPT !.pc = "drain"]
                                                          ELSE sse[c]]

\* The first call of the content provider starts with what the ring still holds.
LogOpen(c) ==
    /\ sse[c].pc = "none"
    /\ LET avail == IF log_seq < RingSize THEN log_seq ELSE RingSize
       IN  sse' = [sse EXCEPT ![c] = [NoStream EXCEPT !.pc = "backlog", !.cursor = log_seq - avail,
                                                      !.first = log_seq - avail]]
    /\ UNCHANGED <<log_ring, log_seq>>

\* One line of the backlog, or on to the wait, the mutex never released between.
LogBacklog(c) ==
    /\ sse[c].pc = "backlog"
    /\ sse' = [sse EXCEPT ![c] = IF @.cursor < log_seq THEN Delivered(@) ELSE [@ EXCEPT !.pc = "waiting"]]
    /\ UNCHANGED <<log_ring, log_seq>>

\* Every later call waits first: a line pushed since the last one was sent wakes
\* nobody, and is found when the two seconds are over.
LogWait(c) ==
    /\ sse[c].pc = "again"
    /\ sse' = [sse EXCEPT ![c].pc = "waiting"]
    /\ UNCHANGED <<log_ring, log_seq>>

\* (A mutant: the timeout without a notification is taken for a spurious wakeup.)
LogTimeoutIgnoredBug(c) ==
    /\ sse[c].pc = "waiting"
    /\ UNCHANGED <<log_ring, log_seq, sse>>

LogTimeout(c) ==
    /\ sse[c].pc = "waiting"
    /\ sse' = [sse EXCEPT ![c].pc = "drain"]
    /\ UNCHANGED <<log_ring, log_seq>>

\* (A mutant: the stream goes on with what is new, not with what it has not sent.)
LogDrainSkipsBug(c) ==
    /\ sse[c].pc = "drain"
    /\ sse' = [sse EXCEPT ![c] = IF @.cursor < log_seq THEN [Delivered(@) EXCEPT !.cursor = log_seq]
                                                       ELSE [@ EXCEPT !.pc = "again"]]
    /\ UNCHANGED <<log_ring, log_seq>>

LogDrain(c) ==
    /\ sse[c].pc = "drain"
    /\ sse' = [sse EXCEPT ![c] = IF @.cursor < log_seq THEN Delivered(@) ELSE [@ EXCEPT !.pc = "again"]]
    /\ UNCHANGED <<log_ring, log_seq>>

\* A write that fails ends the stream.
LogClose(c) ==
    /\ sse[c].pc \in {"backlog", "drain"} /\ sse[c].cursor < log_seq
    /\ sse' = [sse EXCEPT ![c].pc = "closed"]
    /\ UNCHANGED <<log_ring, log_seq>>

LogStream(c) == LogBacklog(c) \/ LogWait(c) \/ LogTimeout(c) \/ LogDrain(c)

RingNext == LogPush \/ \E c \in Clients : LogOpen(c) \/ LogStream(c) \/ LogClose(c)

RingSpec == RingInit /\ [][RingNext]_ringVars

RingFairness == \A c \in Clients : WF_ringVars(LogStream(c))

-----------------------------------------------------------------------------
\* A client the ring has not lapped gets each line once and in order, from the
\* oldest that was left when it came; across backlog, waits and timeouts.
StreamInOrder ==
    \A c \in Clients : ~sse[c].lapped =>
        /\ sse[c].cursor = sse[c].first + Len(sse[c].sent)
        /\ \A i \in 1 .. Len(sse[c].sent) : sse[c].sent[i] = sse[c].first + i

\* A line pushed while nobody was waiting is found by the timeout: an open stream
\* catches up.
StreamCatchesUp ==
    \A c \in Clients : []<>(sse[c].pc \in {"none", "closed"} \/ sse[c].cursor = log_seq)
=============================================================================
