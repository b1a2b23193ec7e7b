----------------------------- MODULE RenderRequests -----------------------------
(***************************************************************************)
(* What the handlers of songgen-server.cpp and sa3-server.cpp make of a    *)
(* request before anything is rendered: whether it is refused, which       *)
(* uploads are on disk by then, and what the job will have to unlink.      *)
(* A form is a record of what the client sent: for a field, whether it is  *)
(* there or whether it is acceptable.                                      *)
(***************************************************************************)
EXTENDS FiniteSets

\* An answer: `named` if the gpu field was read, `files` on disk when the handler
\* is done with the form, `cleanup` what the job is told to unlink, `pre` if stems
\* are separated first, `main` if something is rendered.
Refuse(named, files) ==
    [ok |-> FALSE, named |-> named, sync |-> FALSE, pre |-> FALSE, main |-> FALSE,
     files |-> files, cleanup |-> {}]

Accept(named, sync, pre, files, cleanup) ==
    [ok |-> TRUE, named |-> named, sync |-> sync, pre |-> pre, main |-> TRUE,
     files |-> files, cleanup |-> cleanup]

NotYet == Refuse(FALSE, {})

\* Where the render puts its audio, and what each subprocess writes.
Output(r) == IF r.main THEN {"out"} ELSE {"vocal_out", "bgm_out"}
Written(r, stage) ==
    IF stage = "pre" /\ r.main THEN {"vocal", "bgm"} ELSE Output(r)

Present(f, fields) == {x \in fields : f[x]}

\* songgen-server /generate.  The gpu field counts even if the rest is refused.
SonggenForms == [object : BOOLEAN, lyric : BOOLEAN, description : BOOLEAN,
                 gen_type : BOOLEAN, model : BOOLEAN, duration : BOOLEAN, wait : BOOLEAN]
songgen_generate(f) ==
    IF ~f.object THEN Refuse(FALSE, {})
    ELSE IF f.lyric /\ f.description /\ f.gen_type /\ f.model /\ f.duration
    THEN Accept(TRUE, f.wait, FALSE, {}, {})
    ELSE Refuse(TRUE, {})

\* /clone and /continue: two stems, or a mix to be separated into two new files.
\* full_mix is looked for first, mix only if there was none; a stem without its
\* partner is given up.
StemForms == [lyric : BOOLEAN, vocal : BOOLEAN, bgm : BOOLEAN, full_mix : BOOLEAN, mix : BOOLEAN,
              duration : BOOLEAN, wait : BOOLEAN]
run_stem_job(f) ==
    LET mix   == IF f.full_mix \/ f.mix THEN {"mix"} ELSE {}
        both  == f.vocal /\ f.bgm
        stems == Present(f, {"vocal", "bgm"})
        auto  == ~both /\ mix # {}
        saved == (IF auto THEN {} ELSE stems) \cup mix
    IN  IF ~f.lyric THEN Refuse(FALSE, {})
        ELSE IF ~both /\ ~auto THEN Refuse(FALSE, (stems \cup mix) \ {"vocal", "bgm", "mix"})
        ELSE IF ~f.duration THEN Refuse(FALSE, saved \ {"vocal", "bgm", "mix"})
        ELSE Accept(FALSE, f.wait, auto, saved, {"vocal", "bgm"} \cup mix)

\* /separate always waits, and renders nothing after the separation.
SeparateForms == [mix : BOOLEAN]
handle_separate(f) ==
    IF ~f.mix THEN Refuse(FALSE, {})
    ELSE [Accept(FALSE, TRUE, TRUE, {"mix"}, {"mix"}) EXCEPT !.main = FALSE]

\* sa3-server /generate.
Sa3Forms == [object : BOOLEAN, prompt : BOOLEAN, model : BOOLEAN, sampler : BOOLEAN,
             seconds : BOOLEAN, steps : BOOLEAN, wait : BOOLEAN]
sa3_generate(f) ==
    IF ~f.object THEN Refuse(FALSE, {})
    ELSE IF f.prompt /\ f.model /\ f.sampler /\ f.seconds /\ f.steps
    THEN Accept(TRUE, f.wait, FALSE, {}, {})
    ELSE Refuse(TRUE, {})

\* sa3-server /edit: the upload is saved once mode and prompt are accepted, and
\* unlinked by each refusal that follows.
EditForms == [mode : {"a2a", "inpaint", "continuation", "other"}, prompt : BOOLEAN,
              input : BOOLEAN, mask : BOOLEAN, seconds : {"none", "good", "bad"}, wait : BOOLEAN]
handle_edit(f) ==
    LET refused == \/ f.mode = "inpaint" /\ ~f.mask
                   \/ f.mode = "continuation" /\ f.seconds # "good"
    IN  IF f.mode = "other" \/ ~f.prompt \/ ~f.input THEN Refuse(FALSE, {})
        ELSE IF refused THEN Refuse(FALSE, {})
        ELSE Accept(FALSE, f.wait, FALSE, {"input"}, {"input"})

\* Everything a client can bring about.
Answers ==
    UNION {{songgen_generate(f) : f \in SonggenForms}, {run_stem_job(f) : f \in StemForms},
           {handle_separate(f) : f \in SeparateForms}, {sa3_generate(f) : f \in Sa3Forms},
           {handle_edit(f) : f \in EditForms}}
=============================================================================
