--------------------------- MODULE MCCtapRequest ---------------------------
(* A small instance of CtapRequest for TLC. *)
EXTENDS CtapRequest

\* 2^31 and more is beyond TLC: the two longest forms are scaled down.
MCTop == <<23, 255, 65535, 65536, 65537>>

Canonical(majors, args) ==
    {[major |-> m, form |-> Written(a), arg |-> a] : m \in majors, a \in args}

\* The bounds of the forms, in the right form and in the next longer one.
Boundary ==
    UNION {{[major |-> 0, form |-> f, arg |-> MCTop[f - 1]],
            [major |-> 0, form |-> f, arg |-> MCTop[f - 1] + 1]} : f \in 2 .. 5}

MCHeads ==
    Canonical({0}, {0, 1, 2, 3, 4, 5, 7, 8, 33})
      \cup Canonical({1}, {6, 7, 65537})
      \cup Canonical({2}, {0, 32, 2049})
      \cup Canonical({3}, {0, 4, 2049})
      \cup Canonical({4}, {0, 1, 2, 33})
      \cup Canonical({5}, {0, 1, 2, 3, 4, 5, 33})
      \cup Canonical({6}, {0})
      \cup Canonical({7}, {20, 21, 22})
      \cup Boundary
      \cup {[major |-> 0, form |-> 6, arg |-> 0]}
=============================================================================
