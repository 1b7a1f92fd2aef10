-------------------------- MODULE MCMaintenance --------------------------
(* Two mounted files, one of which may come later, with one content or two, *)
(* and a path under raw/ that is ingested, or was put there, by hand.       *)
EXTENDS Maintenance
CONSTANTS m1, m2, i1, v1, v2
MCOrder == <<i1, m1, m2>>
MCMounted == {m1, m2}

\* One file is mounted at first: the other may come with its content while it is
\* edited.  Or one is mounted, and a file of its content lies in raw/.
Later == [p \in {i1, m1, m2} |-> IF p = m2 THEN v1 ELSE None]
Both == [p \in {i1, m1, m2} |-> IF p = m2 THEN None ELSE v1]

Start(files, isMetered, editsUsed, crashesUsed, commandsUsed) ==
    [files |-> files, metered |-> isMetered, edits |-> editsUsed,
     crashes |-> crashesUsed, commands |-> commandsUsed]

\* Of 2 edits, a death and a command of the other process: without metering the
\* edits and the death, or one edit and the command; metered the death and the
\* command.
Batch == Start(Later, FALSE, 0, 0, 1)
Beside == Start(Both, FALSE, 1, 1, 0)
Costly == Start(Both, TRUE, 2, 0, 0)
MCStarts == {Batch, Beside, Costly}
MCBatchStarts == {Batch}
=============================================================================
