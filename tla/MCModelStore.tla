---------------------------- MODULE MCModelStore ----------------------------
(***************************************************************************)
(* The model store on a small set of keys.  Two of them differ only in a   *)
(* field their kind ignores (max_seq of a VAE), two only in a field their  *)
(* kind uses (max_seq of an LM).                                           *)
(***************************************************************************)
EXTENDS ModelStore

Key(kind, seq) ==
    [kind |-> kind, path |-> "p", max_seq |-> seq, n_kv_sets |-> 2,
     adapter_path |-> "", adapter_scale |-> 1]

SmallKeys == {Key("LM", 1), Key("LM", 2), Key("VAE_ENC", 1), Key("VAE_ENC", 2)}
=============================================================================
