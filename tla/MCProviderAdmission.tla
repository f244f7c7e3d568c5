------------------------ MODULE MCProviderAdmission ------------------------
(* Small instances of ProviderAdmission: a busy scope with a request of      *)
(* every class, and a second scope whose releases pump it too.               *)
EXTENDS ProviderAdmission

CONSTANTS sA, sB, chat, worker, title, other

TwoScopes     == {sA, sB}
FourRequests  == {chat, worker, title, other}

ScopeOfRequest == [r \in Request |-> IF r = other THEN sB ELSE sA]
ClassOfRequest == [r \in Request |-> IF r = chat THEN "interactive"
                                     ELSE IF r = title THEN "title" ELSE "background"]

DefaultClasses == <<"interactive", "background", "title">>
SomeHints      == {1, 3, NoHint}
=============================================================================
