----------------------------- MODULE MCAtService -----------------------------
(* Instances of AtService for TLC. *)
EXTENDS AtService

Line(text) == [keys |-> Append(text, "cr"), means |-> text]

\* Lines ended by CR, LF or both, typed with a mistake, with control characters, too long.
EditScripts ==
    {[keys |-> <<"AT", "cr", "lf">>, means |-> <<"AT">>],
     [keys |-> <<"lf", "ALIAS", "x", "bs", "=?", "lf">>, means |-> <<"ALIAS", "=?">>],
     [keys |-> <<"bs", "ctl", "AT", "lf">>, means |-> <<"AT">>],
     [keys |-> <<"x", "y", "z", "bs", "cr">>, means |-> Overflow]}

\* Every command that changes something, and one of each kind of the others.
CommandScripts ==
    {Line(<<name>>) : name \in {"ATE", "ATZ", "ATR", "BOOT", "FACTORY", "LOCK", "ATM"}}
    \cup {Line(<<name, "1">>) : name \in {"ALIAS", "PWORD", "BAUD", "SLEEP", "LPM", "LPMLVL"}}
    \cup {Line(<<name, "=?">>) : name \in {"SN", "VER"}}
    \cup {Line(<<name, "?">>) : name \in {"VER", "AT", "ATR"}} \cup {Line(<<"x">>)}

AllScripts == EditScripts \cup CommandScripts
=============================================================================
