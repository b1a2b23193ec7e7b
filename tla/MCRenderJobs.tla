------------------------------ MODULE MCRenderJobs ------------------------------
(***************************************************************************)
(* RenderJobs for TLC: one form of each kind that takes a path of its own. *)
(***************************************************************************)
EXTENDS RenderJobs

MCForms ==
    {songgen_generate([x \in {"object", "lyric", "description", "gen_type", "model",
                              "duration", "wait"} |-> TRUE]),
     handle_separate([mix |-> TRUE]),
     run_stem_job([lyric |-> TRUE, vocal |-> FALSE, bgm |-> TRUE, full_mix |-> TRUE,
                   mix |-> FALSE, duration |-> TRUE, wait |-> FALSE])}
=============================================================================
