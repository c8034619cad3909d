------------------------------- MODULE KiteTokens -------------------------------
(***************************************************************************)
(* The day's access token: scripts/generate_token.py, which looks for a usable one   *)
(* and otherwise logs in, exchanges, writes the token, stamps it and validates it; the *)
(* .env file it leaves; and a trading process that reads that file when it starts.      *)
(* Kite drops its tokens once a day, or revokes one; the script may die between any two   *)
(* writes; somebody may put a token into the file by hand.                                 *)
(***************************************************************************)
EXTENDS Naturals

CONSTANTS
    MaxTokens,     \* bound: tokens Kite ever issues
    MaxDays,       \* bound: the last day
    MaxFaults      \* bound: failed calls, crashes, revocations and edits of the file

VARIABLES
    day,
    accepted,      \* the tokens Kite accepts now
    issued,        \* tokens issued so far; they are numbered from 1
    file, stamp,   \* KITE_ACCESS_TOKEN and the day of its generation in .env, or None
    script,        \* what the script does next
    checks,        \* check_existing calls it still makes
    token, dated,  \* the token it works with, and the generated_at it will write
    approved,      \* history: tokens for which profile() answered in this run
    reason,        \* history: why the last check_existing found nothing
    trader, env,   \* the trading process, and the token of its environment
    faults

vars == <<day, accepted, issued, file, stamp, script, checks, token, dated, approved, reason, trader, env, faults>>
kite == <<day, accepted, issued>>
stored == <<file, stamp>>
process == <<trader, env>>

None == 0
Garbage == MaxTokens + 1  \* a value that was never a token
Value == None..Garbage
Today == day

TypeOK ==
    /\ day \in 1..MaxDays /\ issued \in 0..MaxTokens /\ accepted \subseteq 1..issued
    /\ file \in Value /\ stamp \in None..MaxDays
    /\ script \in {"idle", "check", "validate", "login", "apply", "record", "save", "stamp", "confirm",
                   "succeeded", "failed"}
    /\ checks \in 0..2 /\ token \in Value /\ dated \in None..MaxDays
    /\ approved \subseteq 1..MaxTokens /\ reason \in {"none", "stale", "missing", "refused", "unreachable"}
    /\ trader \in {"down", "starting", "up", "failed"} /\ env \in Value
    /\ faults \in 0..MaxFaults

Init ==
    /\ day = 1 /\ accepted = {} /\ issued = 0
    /\ file = None /\ stamp = None
    /\ script = "idle" /\ checks = 0 /\ token = None /\ dated = None
    /\ approved = {} /\ reason = "none"
    /\ trader = "down" /\ env = None
    /\ faults = 0

Fault == faults < MaxFaults /\ faults' = faults + 1

--------------------------------------------------------------------------------
(* scripts/generate_token.py *)

\* main(): without --force it checks once before ensure_valid_token checks again.
ScriptStarts ==
    /\ script \in {"idle", "succeeded", "failed"}
    /\ script' = "check" /\ checks' \in {1, 2}
    /\ approved' = {} /\ reason' = "none" /\ token' = None
    /\ UNCHANGED <<kite, stored, dated, process, faults>>

\* check_existing ends without a token: the next check, or the login.
FindsNothing(why) ==
    /\ reason' = why
    /\ checks' = checks - 1
    /\ script' = IF checks = 1 THEN "login" ELSE "check"

\* A record of today, or a token without a record, is validated.
CheckExisting ==
    /\ script = "check"
    /\ IF file # None /\ stamp \in {Today, None}
       THEN script' = "validate" /\ token' = file /\ UNCHANGED <<checks, reason>>
       ELSE FindsNothing(IF file = None THEN "missing" ELSE "stale") /\ UNCHANGED token
    /\ UNCHANGED <<kite, stored, dated, approved, process, faults>>

\* Slip: a token stamped today is taken to be good.
Approves_stamped(t) == t \in accepted \/ stamp = Today
\* profile().
Approves(t) == t \in accepted

\* _validate of an existing token.
Validate ==
    /\ script = "validate"
    /\ IF Approves(token) THEN script' = "succeeded" /\ UNCHANGED <<checks, reason>>
                          ELSE FindsNothing("refused")
    /\ approved' = approved \cup ({token} \cap accepted)
    /\ UNCHANGED <<kite, stored, token, dated, process, faults>>

\* Any error of the call counts as an invalid token.
ValidateFails ==
    /\ script = "validate" /\ Fault
    /\ FindsNothing("unreachable")
    /\ UNCHANGED <<kite, stored, token, dated, approved, process>>

\* The operator logs in, and KiteSession.generate_session exchanges the request token.
\* Kite may keep or drop the tokens it issued before.
Exchange ==
    /\ script = "login" /\ issued < MaxTokens
    /\ issued' = issued + 1 /\ token' = issued + 1
    /\ accepted' \in {accepted \cup {issued + 1}, {issued + 1}}
    /\ script' = "apply"
    /\ UNCHANGED <<day, stored, checks, dated, approved, reason, process, faults>>

\* A wrong request token, an aborted login, an unreachable Kite.
LoginFails ==
    /\ script = "login" /\ Fault
    /\ script' = "failed"
    /\ UNCHANGED <<kite, stored, checks, token, dated, approved, reason, process>>

\* generate_session stores the bare token.
SetAccessToken ==
    /\ script = "apply" /\ script' = "record"
    /\ file' = token
    /\ UNCHANGED <<kite, stamp, checks, token, dated, approved, reason, process, faults>>

\* exchange_request_token reads the clock.
MakeRecord ==
    /\ script = "record" /\ script' = "save"
    /\ dated' = Today
    /\ UNCHANGED <<kite, stored, checks, token, approved, reason, process, faults>>

\* save_token: the token, then its stamp, in two writes.
SaveToken ==
    /\ script = "save" /\ script' = "stamp"
    /\ file' = token
    /\ UNCHANGED <<kite, stamp, checks, token, dated, approved, reason, process, faults>>
SaveStamp ==
    /\ script = "stamp" /\ script' = "confirm"
    /\ stamp' = dated
    /\ UNCHANGED <<kite, file, checks, token, dated, approved, reason, process, faults>>

\* Slip: a login is a success without the profile call.
Confirmed_anyway == "succeeded"
Confirmed == IF Approves(token) THEN "succeeded" ELSE "failed"

Confirm ==
    /\ script = "confirm" /\ script' = Confirmed
    /\ approved' = approved \cup ({token} \cap accepted)
    /\ UNCHANGED <<kite, stored, checks, token, dated, reason, process, faults>>
ConfirmFails ==
    /\ script = "confirm" /\ Fault
    /\ script' = "failed"
    /\ UNCHANGED <<kite, stored, checks, token, dated, approved, reason, process>>

\* The script is killed; what it wrote stays.
ScriptDies ==
    /\ script \notin {"idle", "succeeded", "failed"} /\ Fault
    /\ script' = "failed"
    /\ UNCHANGED <<kite, stored, checks, token, dated, approved, reason, process>>

--------------------------------------------------------------------------------
(* The trading process *)

\* load_dotenv: a new process finds the token that is in the file now.
TraderStarts ==
    /\ trader \in {"down", "failed"} /\ trader' = "starting"
    /\ env' = file
    /\ UNCHANGED <<kite, stored, script, checks, token, dated, approved, reason, faults>>

\* KiteBroker.authenticate: KiteSession.activate, then profile(); a failure invalidates.
Authenticate ==
    /\ trader = "starting"
    /\ trader' = IF env \in accepted THEN "up" ELSE "failed"
    /\ UNCHANGED <<kite, stored, script, checks, token, dated, approved, reason, env, faults>>
AuthenticateFails ==
    /\ trader = "starting" /\ Fault
    /\ trader' = "failed"
    /\ UNCHANGED <<kite, stored, script, checks, token, dated, approved, reason, env>>

TraderStops ==
    /\ trader = "up" /\ trader' = "down"
    /\ UNCHANGED <<kite, stored, script, checks, token, dated, approved, reason, env, faults>>

--------------------------------------------------------------------------------
(* The rest of the world *)

\* The date changes, and at some later time Kite drops every token.
Midnight ==
    /\ day < MaxDays /\ day' = day + 1
    /\ UNCHANGED <<accepted, issued, stored, script, checks, token, dated, approved, reason, process, faults>>
KiteResets ==
    /\ day > 1 /\ accepted # {} /\ Fault
    /\ accepted' = {}
    /\ UNCHANGED <<day, issued, stored, script, checks, token, dated, approved, reason, process>>
Revoked ==
    /\ Fault
    /\ \E t \in accepted : accepted' = accepted \ {t}
    /\ UNCHANGED <<day, issued, stored, script, checks, token, dated, approved, reason, process>>

\* A token put into the file by some other means, with or without touching the stamp.
Edited ==
    /\ script \in {"idle", "succeeded", "failed"} /\ Fault
    /\ file' \in 1..issued \cup {None, Garbage} /\ stamp' \in {stamp, None}
    /\ script' = "idle"
    /\ UNCHANGED <<kite, checks, token, dated, approved, reason, process>>

Next ==
    \/ ScriptStarts \/ CheckExisting \/ Validate \/ ValidateFails \/ Exchange \/ LoginFails
    \/ SetAccessToken \/ MakeRecord \/ SaveToken \/ SaveStamp \/ Confirm \/ ConfirmFails \/ ScriptDies
    \/ TraderStarts \/ Authenticate \/ AuthenticateFails \/ TraderStops
    \/ Midnight \/ KiteResets \/ Revoked \/ Edited

Spec == Init /\ [][Next]_vars

--------------------------------------------------------------------------------
\* When the script reports success, the file holds a token that Kite accepted during that
\* run; it asks for a login while the file holds a token of today, or of no known day,
\* that Kite would accept only if Kite could not be asked; and a process trades only with
\* a token that Kite did issue, whatever was written or lost between the writes
\* (ensure_valid_token, check_existing, save_token, authenticate).
TokensAreVerified ==
    /\ script = "succeeded" => file = token /\ token \in approved
    /\ script = "login" /\ file \in accepted /\ stamp \in {None, Today} => reason = "unreachable"
    /\ trader = "up" => env \in 1..issued

(* Why: the inductive invariant.  Proved inductive in module KiteProofs.      *)

\* How far a run of the script has come binds the token it works with to the file.
WritesAreKnown ==
    /\ script = "validate" => token = file
    /\ script \in {"stamp", "confirm", "succeeded"} => token = file
    /\ script \in {"apply", "record", "save", "stamp", "confirm"} => token \in 1..issued
    /\ script = "succeeded" => token \in approved

\* A login that Kite could have spared: the check before it was answered.
LoginIsNeeded ==
    script = "login" /\ reason # "unreachable" => file \notin accepted \/ stamp \notin {None, Today}

\* Stamps are never of the future, and Kite accepts only what it issued.
ClockAndKite ==
    /\ day \in Nat \ {0} /\ stamp \in None..day /\ dated \in None..day
    /\ issued \in 0..MaxTokens /\ accepted \subseteq 1..issued
    /\ file \in 0..issued \cup {Garbage} /\ env \in 0..issued \cup {Garbage}

TokensInv == ClockAndKite /\ WritesAreKnown /\ LoginIsNeeded /\ (trader = "up" => env \in 1..issued)
================================================================================
