---------------------------- MODULE OrderedDict -----------------------------
(***************************************************************************)
(* External: what lucent/access.py and lucent/hosted.py use of Python's    *)
(* OrderedDict, its order, as the sequence of its keys, oldest first.      *)
(***************************************************************************)
EXTENDS Integers, Sequences

(* pop(), for every key of K.                                              *)
Without(s, K) ==
    LET kept[n \in 0..Len(s)] == IF n = 0 THEN <<>>
                                 ELSE IF s[n] \in K THEN kept[n - 1]
                                 ELSE Append(kept[n - 1], s[n])
    IN  kept[Len(s)]

(* move_to_end(), or the insertion of a key.                               *)
ToEnd(s, k) == Append(Without(s, {k}), k)
=============================================================================
