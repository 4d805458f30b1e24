-------------------------- MODULE MCDocumentIngest --------------------------
EXTENDS DocumentIngest

\* Three concurrent requests: two payload files and tasks, a request in
\* flight while the scheduler processes another one's task, and a deletion
\* registered between two additions.
MCRequests == {"r1", "r2", "r3"}
\* Every failure of the register closure: an error (as with an invalid
\* custom task uid), and a panic (JoinError) before or after its commit.
MCRegisterFailures == {"error", "panic_before_commit", "panic_after_commit"}
\* A register() that returns an error.
MCRegisterError == {"error"}
\* A panic inside the blocking register closure, before its commit.
MCRegisterPanics == {"error", "panic_before_commit"}
MCNoCrash == 0
MCOneCrash == 1
=============================================================================
