--------------------------- MODULE MCHttpSession ---------------------------
\* One client of the HTTP file server: every script of up to two requests of twelve kinds.
EXTENDS HttpSession

Plain(what) == [what |-> what, from |-> -1, to |-> -1]
Ranged(a, b) == [what |-> "GET", from |-> a, to |-> b]

MCRequests ==
    {Plain(w): w \in {"GET", "HEAD", "POST", "upgrade", "refused", "badws", "old",
                     "junk"}} \cup
    {Ranged(1, 2), Ranged(0, 1), Ranged(2, 1), Ranged(-2, 1)}

=============================================================================
