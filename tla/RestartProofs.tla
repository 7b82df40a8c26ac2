---------------------------- MODULE RestartProofs ----------------------------
(***************************************************************************)
(* Proofs about Restart, for any settings a file can hold.  One invariant  *)
(* carries them all: what the loop is about to start with and to save, and *)
(* what the file says meanwhile, in each phase.                            *)
(***************************************************************************)
EXTENDS Restart, TLAPS

\* The loop is between taking a request and serving again.
Restarting ==
  phase \in {"stopping", "starting", "saving", "writing", "reverting"}

\* No configuration the loop may start again asks for a bootstrap token.
Mintless == ~current.mint /\ (Restarting => ~next.mint)

\* What is to be saved is what the next server starts with, ...
Agreed ==
  phase \in {"stopping", "starting"} => save = Nothing \/ save = next.settings

\* ... what it then runs with, once it came up.
Proven ==
  phase \in {"saving", "writing"} =>
    save = next.settings /\ up = save /\ save \in known

\* Settings that were read from the file are still there, unless a hand came
\* in between.
ReadBack ==
  /\ phase = "booting" /\ ~edited => file = next.settings
  /\ phase \in {"stopping", "starting"} /\ save = Nothing /\ ~edited
       => file = next.settings

\* Between restarts the file is what runs, or an error is shown; a start that
\* failed is one.
Told ==
  /\ phase \in {"serving", "awake"} /\ lastError = "none" /\ ~edited => file = up
  /\ phase = "reverting" => lastError = "start"

Inv ==
  TypeOK /\ Mintless /\ Agreed /\ Proven /\ FileIsProven /\ ReadBack /\ Told

-----------------------------------------------------------------------------
(* Types *)

LEMMA InitTypes == Init => TypeOK
<1> SUFFICES ASSUME Init PROVE TypeOK
  OBVIOUS
<1>1. [settings |-> file, mint |-> FALSE] \in Config
  BY DEF Init, Config
<1>2. file \in Settings /\ known \in SUBSET Settings
  BY DEF Init
<1> QED BY <1>1, <1>2 DEF Init, TypeOK, Phases

\* A start may make a token; its settings count as proven.
LEMMA ServeTypes ==
  ASSUME TypeOK, NEW cfg \in Config, Serve(cfg)
  PROVE  up' \in Settings /\ known' \in SUBSET Settings
         /\ minted' \in BOOLEAN /\ admins' \in BOOLEAN
<1>1. cfg.settings \in Settings /\ cfg.mint \in BOOLEAN
  BY DEF Config
<1>2. up' \in Settings /\ known' \in SUBSET Settings
  BY <1>1 DEF Serve, TypeOK
<1>3. minted' \in BOOLEAN
  BY DEF Serve
<1>4. admins' \in BOOLEAN
  BY DEF Serve
<1> QED BY <1>2, <1>3, <1>4

LEMMA NextTypes ==
  ASSUME TypeOK, Proven, [Next]_vars
  PROVE  TypeOK'
<1> USE DEF TypeOK, Phases, controlVars, lifeVars
<1>1. CASE UNCHANGED vars
  BY <1>1 DEF vars, loopVars
<1>2. ASSUME NEW mint \in BOOLEAN, Boot(mint) PROVE TypeOK'
  <2>1. next' \in Config
    BY <1>2 DEF Boot, Config
  <2>2. /\ UNCHANGED <<up, current, save, controlVars, lifeVars, file, admins,
                       minted, known>>
        /\ phase' = "booting" /\ edited' \in BOOLEAN
    BY <1>2 DEF Boot
  <2> QED BY <2>1, <2>2
<1>3. CASE FirstStart
  <2>1. current' \in Config
    BY <1>3 DEF FirstStart, Config
  <2> QED BY <1>3, <2>1, ServeTypes DEF FirstStart
<1>4. CASE FirstStartFails \/ Crash \/ RunFails
  BY <1>4 DEF FirstStartFails, Crash, RunFails, Gone
<1>5. ASSUME NEW f \in Settings \cup {Torn}, HandEdit(f) PROVE TypeOK'
  BY <1>5 DEF HandEdit, loopVars
<1>6. ASSUME NEW s \in Settings, PutSettings(s) PROVE TypeOK'
  BY <1>6 DEF PutSettings, loopVars
<1>7. CASE PostRestart \/ Request
  <2>1. CASE PostRestart
    BY <2>1 DEF PostRestart, loopVars
  <2>2. CASE Request
    BY <2>2 DEF Request, loopVars
  <2> QED BY <1>7, <2>1, <2>2
<1>8. CASE Users
  <2>1. /\ UNCHANGED <<loopVars, controlVars, file, minted, known, edited>>
        /\ admins' \in BOOLEAN
    BY <1>8 DEF Users, ChangeTokens, OpenSession, StartQuery, EndQuery,
                CloseSession
  <2>2. query' \in {"none", "here", "behind"}
    BY <1>8 DEF Users, ChangeTokens, OpenSession, StartQuery, EndQuery,
                CloseSession
  <2>3. session' \in {"none", "here", "behind"}
    BY <1>8 DEF Users, ChangeTokens, OpenSession, StartQuery, EndQuery,
                CloseSession
  <2> QED BY <2>1, <2>2, <2>3 DEF loopVars
<1>9. CASE Wake \/ TakeNothing \/ TakeUnreadable
  <2>1. CASE Wake
    <3>1. /\ UNCHANGED <<up, current, next, save, pending, asking, lastError,
                         lifeVars, file, admins, minted, known, edited>>
          /\ phase' = "awake" /\ permit' \in BOOLEAN
      BY <2>1 DEF Wake
    <3> QED BY <3>1
  <2>2. CASE TakeNothing BY <2>2 DEF TakeNothing
  <2>3. CASE TakeUnreadable BY <2>3 DEF TakeUnreadable
  <2> QED BY <1>9, <2>1, <2>2, <2>3
<1>10. CASE TakeReload \/ TakeApply
  <2>1. next' \in Config
    <3>1. CASE TakeReload BY <3>1 DEF TakeReload, Config
    <3>2. CASE TakeApply BY <3>2 DEF TakeApply, Config
    <3> QED BY <1>10, <3>1, <3>2
  <2>2. CASE TakeReload
    BY <2>1, <2>2 DEF TakeReload
  <2>3. CASE TakeApply
    BY <2>1, <2>3 DEF TakeApply
  <2> QED BY <1>10, <2>2, <2>3
<1>11. CASE Stop
  <2>1. session' \in {"none", "here", "behind"}
    BY <1>11 DEF Stop
  <2> QED BY <1>11, <2>1 DEF Stop
<1>12. CASE StartNext
  BY <1>12, ServeTypes DEF StartNext
<1>13. CASE StartFails \/ Truncate
  <2>1. Default \in Settings
    BY RestartAssumption
  <2> QED BY <1>13, <2>1 DEF StartFails, Truncate
<1>14. CASE Write
  <2>1. file' \in Settings \cup {Torn}
    BY <1>14 DEF Write, Proven
  <2> QED BY <1>14, <2>1 DEF Write, Settle
<1>15. CASE SaveFails
  BY <1>15 DEF SaveFails, Settle
<1>16. CASE Revert
  BY <1>16, ServeTypes DEF Revert
<1> QED
  BY <1>1, <1>2, <1>3, <1>4, <1>5, <1>6, <1>7, <1>8, <1>9, <1>10, <1>11,
     <1>12, <1>13, <1>14, <1>15, <1>16
  DEF Next, Admin, Loop

-----------------------------------------------------------------------------
(* The other parts of Inv *)

\* The first process has yet to be started.
LEMMA InitInv == Init => Inv
<1> SUFFICES ASSUME Init PROVE Inv
  OBVIOUS
<1>1. TypeOK
  BY InitTypes
<1>2. ~current.mint /\ phase = "down" /\ file \in known
  BY DEF Init
<1> QED
  BY <1>1, <1>2
  DEF Inv, Restarting, Mintless, Agreed, Proven, FileIsProven, ReadBack, Told

\* Starting and ending the process, and editing its file.
LEMMA ProcessKeeps ==
  ASSUME Inv, TypeOK',
         \/ \E mint \in BOOLEAN : Boot(mint)
         \/ FirstStart \/ FirstStartFails \/ Crash \/ RunFails
         \/ \E f \in Settings \cup {Torn} : HandEdit(f)
  PROVE  Inv'
<1> USE DEF Inv, Restarting, Mintless, Agreed, Proven, FileIsProven, ReadBack,
            Told
<1>1. CASE \E mint \in BOOLEAN : Boot(mint)
  BY <1>1 DEF Boot
<1>2. CASE FirstStart
  <2>1. ~current'.mint
    BY <1>2 DEF FirstStart, TypeOK, Config
  <2>2. /\ phase' = "serving" /\ file' = file /\ edited' = edited
        /\ known' = known \cup {next.settings} /\ up' = next.settings
    BY <1>2 DEF FirstStart, Serve
  <2> QED BY <1>2, <2>1, <2>2 DEF FirstStart
<1>3. CASE FirstStartFails \/ Crash \/ RunFails
  BY <1>3 DEF FirstStartFails, Crash, RunFails, Gone
<1>4. CASE \E f \in Settings \cup {Torn} : HandEdit(f)
  BY <1>4 DEF HandEdit, loopVars, controlVars
<1> QED BY <1>1, <1>2, <1>3, <1>4

\* Requests and users leave the loop and the file alone.
LEMMA RequestsKeep ==
  ASSUME Inv, TypeOK', Admin \/ Request \/ Users
  PROVE  Inv'
<1>1. UNCHANGED <<loopVars, lastError, file, minted, known, edited>>
  BY DEF Admin, PutSettings, PostRestart, Request, Users, ChangeTokens,
         OpenSession, StartQuery, EndQuery, CloseSession, controlVars
<1> QED
  BY <1>1
  DEF loopVars, Inv, Restarting, Mintless, Agreed, Proven, FileIsProven,
      ReadBack, Told

\* From a wake-up to the old server's end: the next settings are chosen.
LEMMA TakeKeeps ==
  ASSUME Inv, TypeOK',
         Wake \/ TakeNothing \/ TakeUnreadable \/ TakeReload \/ TakeApply \/ Stop
  PROVE  Inv'
<1> USE DEF Inv, Restarting, Mintless, Agreed, Proven, FileIsProven, ReadBack,
            Told, controlVars
<1>1. CASE Wake BY <1>1 DEF Wake
<1>2. CASE TakeNothing BY <1>2 DEF TakeNothing
<1>3. CASE TakeUnreadable BY <1>3 DEF TakeUnreadable
<1>4. CASE TakeReload BY <1>4 DEF TakeReload
<1>5. CASE TakeApply BY <1>5, RestartAssumption DEF TakeApply
<1>6. CASE Stop BY <1>6 DEF Stop
<1> QED BY <1>1, <1>2, <1>3, <1>4, <1>5, <1>6

\* From the next server's start to the save, or to the fallback.
LEMMA StartKeeps ==
  ASSUME Inv, TypeOK',
         StartNext \/ StartFails \/ Truncate \/ Write \/ SaveFails \/ Revert
  PROVE  Inv'
<1> USE DEF Inv, Restarting, Mintless, Agreed, Proven, FileIsProven, ReadBack,
            Told, controlVars
<1>1. CASE StartNext BY <1>1 DEF StartNext, Serve
<1>2. CASE StartFails BY <1>2 DEF StartFails
<1>3. CASE Truncate BY <1>3 DEF Truncate
<1>4. CASE Write BY <1>4 DEF Write, Settle
<1>5. CASE SaveFails BY <1>5 DEF SaveFails, Settle
<1>6. CASE Revert BY <1>6 DEF Revert, Serve
<1> QED BY <1>1, <1>2, <1>3, <1>4, <1>5, <1>6

LEMMA NextInv == Inv /\ [Next]_vars => Inv'
<1> SUFFICES ASSUME Inv, [Next]_vars PROVE Inv'
  OBVIOUS
<1>1. TypeOK'
  BY NextTypes DEF Inv
<1>2. CASE Next
  BY <1>1, <1>2, ProcessKeeps, RequestsKeep, TakeKeeps, StartKeeps
  DEF Next, Loop
<1>3. CASE UNCHANGED vars
  BY <1>1, <1>3
  DEF vars, loopVars, controlVars, Inv, Restarting, Mintless, Agreed, Proven,
      FileIsProven, ReadBack, Told
<1> QED BY <1>2, <1>3

-----------------------------------------------------------------------------
\* The invariant holds in every reachable state (run, save_settings).
THEOREM InvHolds == Spec => []Inv
  BY InitInv, NextInv, PTL DEF Spec

\* Type correctness of the loop, its slot and its file.
THEOREM TypeCorrect == Spec => []TypeOK
  BY InvHolds, PTL DEF Inv

\* However starts, saves and crashes fall, the file holds settings a server
\* came up with, what a hand wrote, or what a save cut short left.
THEOREM FileHolds == Spec => []FileIsProven
  BY InvHolds, PTL DEF Inv

\* With no error shown and no hand on the file, it says what runs.
THEOREM ToldHolds == Spec => []SavedOrReported
<1>1. Inv => SavedOrReported
  BY DEF Inv, Told, SavedOrReported
<1> QED BY <1>1, InvHolds, PTL

\* Only a process's first start makes a bootstrap token.
THEOREM NoTokenHolds == Spec => NoTokenOnRestart
<1>1. Inv /\ [Next]_vars => [minted' /\ ~minted => phase = "booting"]_vars
  <2> SUFFICES ASSUME Inv, Next, minted', ~minted PROVE phase = "booting"
    BY DEF vars, loopVars, controlVars, lifeVars
  <2>1. CASE StartNext
    BY <2>1 DEF StartNext, Serve, Inv, Mintless, Restarting
  <2>2. CASE Revert
    BY <2>2 DEF Revert, Serve, Inv, Mintless
  <2>3. CASE FirstStart
    BY <2>3 DEF FirstStart
  <2>4. CASE Next /\ ~StartNext /\ ~Revert /\ ~FirstStart
    BY <2>4
    DEF Next, Boot, FirstStartFails, Crash, HandEdit, Gone, Admin, PutSettings,
        PostRestart, Request, Users, ChangeTokens, OpenSession, StartQuery,
        EndQuery, CloseSession, Loop, Wake, TakeNothing, TakeUnreadable,
        TakeReload, TakeApply, Stop, StartFails, Truncate, Write, SaveFails,
        Settle, RunFails
  <2> QED BY <2>1, <2>2, <2>3, <2>4
<1> QED BY <1>1, InvHolds, PTL DEF Spec, NoTokenOnRestart

=============================================================================
