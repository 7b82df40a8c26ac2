------------------------------ MODULE Restart -------------------------------
(***************************************************************************)
(* How sqail-service restarts in place (run, start_with, save_settings and *)
(* Control in lib.rs, the settings handlers in api/admin.rs, serve in      *)
(* main.rs, Config::load): the admin page asks for a restart with new      *)
(* settings or with those of the settings file, and one loop stops the     *)
(* server, starts the next, saves what it runs with or falls back.         *)
(*                                                                         *)
(* The loop and the request handlers share a slot for one request and a    *)
(* Notify with room for one wake-up.  The process may crash at any step,   *)
(* somebody may edit the file by hand, a start and a save may fail.        *)
(*                                                                         *)
(* One query task stands for those a stopped server leaves behind: a task  *)
(* keeps the state of its server, and with it all of its sessions.         *)
(***************************************************************************)
EXTENDS Integers

CONSTANTS
  Settings,  \* what a settings file can say
  Default,   \* what an empty one says
  Torn,      \* a file that cannot be read as settings
  Nothing    \* no server, no request

ASSUME RestartAssumption ==
  /\ Default \in Settings
  /\ Torn \notin Settings
  /\ Nothing \notin Settings \cup {Torn, "reload"}
  /\ "reload" \notin Settings

VARIABLES
  phase,      \* where the loop is; "down" without a process
  up,         \* the settings of the server that takes requests
  current,    \* the settings the loop falls back to
  next,       \* the settings it starts with
  save,       \* what it saves once they are up
  pending,    \* Control::pending
  permit,     \* a wake-up is stored
  asking,     \* what an admin request is about to ask for
  lastError,  \* Control::last_error
  file,       \* the settings file
  admins,     \* service.db has an active admin token
  minted,     \* this server's start made a bootstrap token
  query,      \* a query task: of this server, of a stopped one, none
  session,    \* an open session, likewise
  known,      \* settings a server came up with or a hand wrote
  edited      \* the file was edited by hand after it was read or saved

loopVars == <<phase, up, current, next, save>>
controlVars == <<pending, permit, asking, lastError>>
lifeVars == <<query, session>>
vars == <<loopVars, controlVars, lifeVars, file, admins, minted, known, edited>>

\* mint is bootstrap_admin_token.
Config == [settings : Settings, mint : BOOLEAN]

Phases == {"down", "booting", "serving", "awake", "stopping", "starting",
           "saving", "writing", "reverting"}

TypeOK ==
  /\ phase \in Phases
  /\ up \in Settings \cup {Nothing}
  /\ current \in Config
  /\ next \in Config
  /\ save \in Settings \cup {Nothing}
  /\ pending \in Settings \cup {"reload", Nothing}
  /\ permit \in BOOLEAN
  /\ asking \in Settings \cup {"reload", Nothing}
  /\ lastError \in {"none", "reload", "start", "save"}
  /\ file \in Settings \cup {Torn}
  /\ admins \in BOOLEAN /\ minted \in BOOLEAN /\ edited \in BOOLEAN
  /\ query \in {"none", "here", "behind"}
  /\ session \in {"none", "here", "behind"}
  /\ known \in SUBSET Settings

Init ==
  /\ phase = "down" /\ up = Nothing
  /\ file \in Settings
  /\ current = [settings |-> file, mint |-> FALSE]
  /\ next = current
  /\ save = Nothing /\ pending = Nothing /\ permit = FALSE /\ asking = Nothing
  /\ lastError = "none"
  /\ admins = FALSE /\ minted = FALSE /\ edited = FALSE
  /\ query = "none" /\ session = "none"
  /\ known = {file}

-----------------------------------------------------------------------------
\* start_with succeeded: the server takes requests.
Serve(cfg) ==
  /\ up' = cfg.settings
  /\ known' = known \cup {cfg.settings}
  /\ minted' = (cfg.mint /\ ~admins)
  /\ admins' = (admins \/ cfg.mint)

\* The process ends, and with it all it had in memory.
Gone ==
  /\ phase' = "down" /\ up' = Nothing
  /\ save' = Nothing /\ pending' = Nothing /\ permit' = FALSE
  /\ asking' = Nothing /\ lastError' = "none"
  /\ query' = "none" /\ session' = "none" /\ minted' = FALSE
  /\ UNCHANGED <<current, next, edited>>

-----------------------------------------------------------------------------
(* The process *)

\* Config::load; serve --no-bootstrap-token clears the flag.
Boot(mint) ==
  /\ phase = "down" /\ file # Torn
  /\ phase' = "booting"
  /\ next' = [settings |-> file, mint |-> mint]
  /\ edited' = FALSE
  /\ UNCHANGED <<up, current, save, controlVars, lifeVars, file, admins,
                 minted, known>>

FirstStart ==
  /\ phase = "booting"
  /\ phase' = "serving"
  /\ Serve(next)
  /\ current' = [next EXCEPT !.mint = FALSE]
  /\ UNCHANGED <<next, save, controlVars, lifeVars, file, edited>>

\* The start fails, or on_start does: it cannot show the token it just made.
FirstStartFails ==
  /\ phase = "booting"
  /\ Gone
  /\ \/ UNCHANGED admins
     \/ next.mint /\ admins' = TRUE
  /\ UNCHANGED <<file, known>>

\* A crash at any step, or the shutdown signal between two restarts.
Crash ==
  /\ phase # "down"
  /\ Gone
  /\ UNCHANGED <<file, admins, known>>

HandEdit(f) ==
  /\ f # file
  /\ file' = f
  /\ edited' = TRUE
  /\ known' = known \cup ({f} \ {Torn})
  /\ UNCHANGED <<loopVars, controlVars, lifeVars, admins, minted>>

-----------------------------------------------------------------------------
(* Requests *)

Answering == phase \in {"serving", "awake", "stopping", "saving", "writing"}

\* update_settings has checked s, which changes nothing but the audit log.
PutSettings(s) ==
  /\ Answering /\ asking = Nothing
  /\ asking' = s
  /\ UNCHANGED <<loopVars, pending, permit, lastError, lifeVars, file, admins,
                 minted, known, edited>>

\* restart needs a file it can read.
PostRestart ==
  /\ Answering /\ asking = Nothing /\ file # Torn
  /\ asking' = "reload"
  /\ UNCHANGED <<loopVars, pending, permit, lastError, lifeVars, file, admins,
                 minted, known, edited>>

\* Mutant: wakes the loop only if it waits.
RequestUnkept ==
  /\ asking # Nothing
  /\ pending' = asking
  /\ permit' = (permit \/ phase = "serving")
  /\ asking' = Nothing
  /\ UNCHANGED <<loopVars, lastError, lifeVars, file, admins, minted, known,
                 edited>>

\* Control::request replaces an unhandled request and stores the wake-up.
Request ==
  /\ asking # Nothing
  /\ pending' = asking
  /\ permit' = TRUE
  /\ asking' = Nothing
  /\ UNCHANGED <<loopVars, lastError, lifeVars, file, admins, minted, known,
                 edited>>

\* An admin token is made on the command line, the last one is revoked.
ChangeTokens ==
  /\ admins' = ~admins
  /\ UNCHANGED <<loopVars, controlVars, lifeVars, file, minted, known, edited>>

OpenSession ==
  /\ up # Nothing /\ session = "none"
  /\ session' = "here"
  /\ UNCHANGED <<loopVars, controlVars, query, file, admins, minted, known,
                 edited>>

StartQuery ==
  /\ up # Nothing /\ query = "none"
  /\ query' = "here"
  /\ UNCHANGED <<loopVars, controlVars, session, file, admins, minted, known,
                 edited>>

\* A query task that ends lets go of its server's state.
EndQuery ==
  /\ query # "none"
  /\ query' = "none"
  /\ session' = IF session = "behind" THEN "none" ELSE session
  /\ UNCHANGED <<loopVars, controlVars, file, admins, minted, known, edited>>

CloseSession ==
  /\ session = "here"
  /\ session' = "none"
  /\ UNCHANGED <<loopVars, controlVars, query, file, admins, minted, known,
                 edited>>

-----------------------------------------------------------------------------
(* The loop of run *)

Wake ==
  /\ phase = "serving" /\ permit
  /\ permit' = FALSE
  /\ phase' = "awake"
  /\ UNCHANGED <<up, current, next, save, pending, asking, lastError, lifeVars,
                 file, admins, minted, known, edited>>

\* The request was replaced and the replacement handled.
TakeNothing ==
  /\ phase = "awake" /\ pending = Nothing
  /\ phase' = "serving"
  /\ UNCHANGED <<up, current, next, save, controlVars, lifeVars, file, admins,
                 minted, known, edited>>

TakeUnreadable ==
  /\ phase = "awake" /\ pending = "reload" /\ file = Torn
  /\ pending' = Nothing
  /\ lastError' = "reload"
  /\ phase' = "serving"
  /\ UNCHANGED <<up, current, next, save, permit, asking, lifeVars, file,
                 admins, minted, known, edited>>

TakeReload ==
  /\ phase = "awake" /\ pending = "reload" /\ file # Torn
  /\ pending' = Nothing
  /\ next' = [settings |-> file, mint |-> FALSE]
  /\ save' = Nothing
  /\ edited' = FALSE
  /\ phase' = "stopping"
  /\ UNCHANGED <<up, current, permit, asking, lastError, lifeVars, file,
                 admins, minted, known>>

TakeApply ==
  /\ phase = "awake" /\ pending \in Settings
  /\ pending' = Nothing
  /\ next' = [settings |-> pending, mint |-> FALSE]
  /\ save' = pending
  /\ phase' = "stopping"
  /\ UNCHANGED <<up, current, permit, asking, lastError, lifeVars, file,
                 admins, minted, known, edited>>

\* The server finished or cut off its requests.  Its state goes, unless a
\* query task holds it.
Stop ==
  /\ phase = "stopping"
  /\ phase' = "starting"
  /\ up' = Nothing /\ minted' = FALSE
  /\ query' = IF query = "here" THEN "behind" ELSE query
  /\ session' = IF session # "here" THEN session
                ELSE IF query = "here" THEN "behind" ELSE "none"
  /\ UNCHANGED <<current, next, save, controlVars, file, admins, known, edited>>

\* Mutant: saves before it starts.
SaveFirst ==
  /\ phase = "starting"
  /\ phase' = IF save = Nothing THEN "serving" ELSE "saving"
  /\ file' = IF save = Nothing THEN file ELSE save
  /\ \/ Serve(next) \/ UNCHANGED <<up, known, minted, admins>>
  /\ current' = next
  /\ lastError' = "none"
  /\ UNCHANGED <<next, save, pending, permit, asking, lifeVars, edited>>

StartNext ==
  /\ phase = "starting"
  /\ Serve(next)
  /\ \/ /\ save = Nothing
        /\ phase' = "serving" /\ lastError' = "none" /\ current' = next
     \/ /\ save # Nothing
        /\ phase' = "saving" /\ UNCHANGED <<lastError, current>>
  /\ UNCHANGED <<next, save, pending, permit, asking, lifeVars, file, edited>>

StartFails ==
  /\ phase = "starting"
  /\ phase' = "reverting"
  /\ lastError' = "start"
  /\ UNCHANGED <<up, current, next, save, pending, permit, asking, lifeVars,
                 file, admins, minted, known, edited>>

\* fs::write empties the file and writes some of it, ...
Truncate ==
  /\ phase = "saving"
  /\ file' \in {Default, Torn}
  /\ phase' = "writing"
  /\ UNCHANGED <<up, current, next, save, controlVars, lifeVars, admins,
                 minted, known, edited>>

Settle(err) ==
  /\ phase' = "serving"
  /\ lastError' = err
  /\ current' = next
  /\ save' = Nothing
  /\ UNCHANGED <<up, next, pending, permit, asking, lifeVars, admins, minted,
                 known>>

\* ... and the rest.
Write ==
  /\ phase = "writing"
  /\ file' = save
  /\ edited' = FALSE
  /\ Settle("none")

\* Mutant: a failed save is not reported.
SaveFailsQuietly ==
  /\ phase \in {"saving", "writing"}
  /\ Settle("none")
  /\ UNCHANGED <<file, edited>>

\* It cannot be opened, or not be written once it is empty.
SaveFails ==
  /\ phase \in {"saving", "writing"}
  /\ Settle("save")
  /\ UNCHANGED <<file, edited>>

Revert ==
  /\ phase = "reverting"
  /\ phase' = "serving"
  /\ Serve(current)
  /\ save' = Nothing
  /\ UNCHANGED <<current, next, controlVars, lifeVars, file, edited>>

\* server.wait or the second start fails: run ends.
RunFails ==
  /\ phase \in {"stopping", "reverting"}
  /\ Gone
  /\ UNCHANGED <<file, admins, known>>

Loop ==
  \/ Wake \/ TakeNothing \/ TakeUnreadable \/ TakeReload \/ TakeApply
  \/ Stop \/ StartNext \/ StartFails
  \/ Truncate \/ Write \/ SaveFails \/ Revert \/ RunFails

Admin == (\E s \in Settings : PutSettings(s)) \/ PostRestart

Users == ChangeTokens \/ OpenSession \/ StartQuery \/ EndQuery \/ CloseSession

Next ==
  \/ (\E mint \in BOOLEAN : Boot(mint)) \/ FirstStart \/ FirstStartFails
  \/ Crash \/ (\E f \in Settings \cup {Torn} : HandEdit(f))
  \/ Admin \/ Request \/ Users \/ Loop

Spec == Init /\ [][Next]_vars

\* The loop goes on from step to step.  Nobody is obliged to ask.
FairSpec == Spec /\ WF_vars(Loop)

-----------------------------------------------------------------------------
(* Properties *)

\* "Saved to the config file once the service runs with them": apart from a
\* save cut short, the file only holds settings a server came up with, or
\* what a hand wrote, whenever the process crashes (run, save_settings).
FileIsProven == file \in known \cup {Default, Torn}

\* The admin page is told the truth: with no error shown, the server that
\* serves runs with what the file says, so that a crash or a reload brings
\* the same settings back (run, Control::set_error).
SavedOrReported ==
  phase = "serving" /\ lastError = "none" /\ ~edited => file = up

\* "Only the very first start may create the bootstrap admin token": no
\* restart does, also after the last admin token was revoked (run).
NoTokenOnRestart == [][minted' /\ ~minted => phase = "booting"]_vars

\* No wake-up is lost: a request that was accepted is taken, or the process
\* ends, wherever the loop was when it came (Control::request, run).
RequestsAreHandled == (pending # Nothing) ~> (pending = Nothing)

\* "A restart closes open sessions (open transactions roll back) and cancels
\* running queries" (docs/operations.md).
RestartClosesAll == up # Nothing => query # "behind" /\ session # "behind"

=============================================================================
