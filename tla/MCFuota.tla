------------------------------- MODULE MCFuota -------------------------------
(* Model values for the threads of Fuota, and its scenarios. *)
EXTENDS Fuota
CONSTANTS a1, a2

\* An installation with every way to learn the size, and the automatic one, ...
Sizing == [img_manager |-> TRUE, auto_apply |-> TRUE, keepalive |-> FALSE, sets_size |-> TRUE,
           sessions |-> 1, joins |-> 1, resets |-> 0, events |-> 1]
\* ... beside the keepalive and a rejoin, ...
Rejoining == [Sizing EXCEPT !.auto_apply = FALSE, !.keepalive = TRUE, !.sets_size = FALSE, !.joins = 2]
\* ... or beside a second session; ...
Overwriting == [Sizing EXCEPT !.auto_apply = FALSE, !.sets_size = FALSE, !.sessions = 2]
\* ... and leaving, rejoining and a reset on a build that cannot install.
Resetting == [img_manager |-> FALSE, auto_apply |-> FALSE, keepalive |-> TRUE, sets_size |-> FALSE,
              sessions |-> 1, joins |-> 2, resets |-> 1, events |-> 2]
Updates == {Sizing, Rejoining, Overwriting, Resetting}

\* What the open properties of fuota_open.cfg take: a second session, a rejoin, a reset or
\* an override of the size, each after the first join.
OpenOnce(manager, sets, n) ==
    [img_manager |-> manager, auto_apply |-> FALSE, keepalive |-> TRUE, sets_size |-> sets,
     sessions |-> 2, joins |-> 1, resets |-> n, events |-> 2]
Open == {OpenOnce(FALSE, FALSE, 1), OpenOnce(FALSE, TRUE, 0),
         [OpenOnce(TRUE, FALSE, 0) EXCEPT !.joins = 2]}
=============================================================================
