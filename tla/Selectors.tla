------------------------------ MODULE Selectors ------------------------------
(***************************************************************************)
(* Where a credential is read: Selector (adapters/authenticators.py).  A   *)
(* header's value is a scheme and what follows it, or a bare text, whose   *)
(* scheme is None; a header that is missing is None.                       *)
(***************************************************************************)
CONSTANTS
    None,
    Garbled  \* a scheme and a token taken together for one bare credential

\* Selector.extract and _token_from: another scheme reads as absent, and a
\* selector without one takes the whole value.
Extract(selector, headers) ==
    LET value == headers[selector.header] IN
    IF value = None THEN None
    ELSE IF selector.scheme = None
         THEN IF value.scheme = None THEN value.token ELSE Garbled
    ELSE IF value.scheme = selector.scheme THEN value.token ELSE None

\* Whether one header could satisfy both.
Overlaps(s, t) ==
    /\ s.header = t.header
    /\ s.scheme = None \/ t.scheme = None \/ s.scheme = t.scheme
=============================================================================
