----------------------------- MODULE Selection ------------------------------
(***************************************************************************)
(* The comprehension [x for x in s if x in S] of the Python sources: what  *)
(* SelectSeq of the standard module does, for a set in the place of a      *)
(* test, so that lemmas can be stated of it (DataTheorems).                *)
(***************************************************************************)
LOCAL INSTANCE Integers
LOCAL INSTANCE Sequences

\* The selection of the first n elements of s, for each n.
SelectedUpTo(s, S) ==
    LET f[n \in 0 .. Len(s)] ==
            IF n = 0 THEN << >>
            ELSE IF s[n] \in S THEN Append(f[n - 1], s[n]) ELSE f[n - 1]
    IN f

\* The elements of s that are in S, in their order.
Selected(s, S) == SelectedUpTo(s, S)[Len(s)]
=============================================================================
