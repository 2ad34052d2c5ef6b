----------------------------- MODULE Calls ------------------------------
(***************************************************************************)
(* The asynchronous calls of VaultManager: creating a vault, changing a    *)
(* password and enrolling a YubiKey, each on a detached thread, next to    *)
(* the main thread, which handles what the threads post to its idle queue  *)
(* and opens and closes vaults, also while a call runs: the prompt to      *)
(* touch the key is not modal and the lock timer does not know of calls.   *)
(*                                                                         *)
(* A thread works on the slot that was there when it began; once the vault *)
(* was closed or replaced or the slots have moved, its references dangle,  *)
(* and what it reads and writes is whatever is there now, or nothing.      *)
(* (A crash ends the behaviour.)                                           *)
(***************************************************************************)
EXTENDS Fido2, Sequences

CONSTANTS
    CallIds,        \* one for each call that is made
    KindsOf,        \* the kinds that each of them may be of
    Main,           \* the main thread
    OldFile,        \* a vault file without a YubiKey
    NoFile

Kinds == {"create", "change", "enroll"}
ASSUME KindsAssumption == KindsOf \in [CallIds -> SUBSET Kinds]
ASSUME ThreadsAssumption == Threads = CallIds \cup {Main} /\ Main \notin CallIds
ASSUME CredsAssumption == Creds = CallIds /\ NoCred \notin Creds
ASSUME ValuesAssumption ==
    /\ OldFile \notin CallIds
    /\ NoFile \notin CallIds \cup {NoCred} /\ NoThread \notin Threads
    /\ NoKey \notin Keys /\ Lost \notin Keys \cup {NoKey} /\ NoPort \notin Ports

Files == CallIds \cup {OldFile}     \* call c creates file c
Stages == {"none", "started", "working", "posted", "over"}
Events == [kind : {"touch", "done"}, call : CallIds, ok : BOOLEAN]
Ops == {"tell", "present", "info", "load", "create", "challenge", "open"}

VARIABLES
    open,       \* whether a vault is open
    file,       \* the vault file that is open, or being opened
    slot,       \* the credential in the user's slot
    stored,     \* that in each vault file
    call,       \* of each call its kind, its stage and whether its slot moved
    todo,       \* what each thread has still to do
    idle,       \* what the main loop has still to call, in order
    prompts     \* the calls whose touch prompt is visible

header == <<open, file, slot>>
calls == <<call, todo>>
window == <<idle, prompts>>
callVars == <<header, stored, calls, window>>
vars == <<fidoVars, callVars>>

Init ==
    /\ FidoInit
    /\ open = FALSE /\ file = OldFile /\ slot = NoCred
    /\ stored = [f \in Files |-> IF f = OldFile THEN NoCred ELSE NoFile]
    /\ call = [c \in CallIds |-> [kind |-> "create", stage |-> "none", moved |-> FALSE]]
    /\ todo = [t \in Threads |-> <<>>]
    /\ idle = <<>> /\ prompts = {}

\* VaultYubiKeyService::perform_authenticated_challenge and enroll_yubikey
Challenge == <<"present", "info", "load", "challenge">>
Enrollment == <<"tell", "create", "tell", "challenge", "info">>
TwoChallenges == <<"tell">> \o Challenge \o <<"tell">> \o Challenge

\* The main thread blocks in what it does.
MainFree == todo[Main] = <<>>

NextOp(t) == IF todo[t] = <<>> THEN "end" ELSE Head(todo[t])
Proceeds(t) == todo' = [todo EXCEPT ![t] = Tail(@)]
Stops(t) == todo' = [todo EXCEPT ![t] = <<>>]
Staged(c, stage) == call' = [call EXCEPT ![c].stage = stage, ![c].moved = FALSE]
Posted(kind, c, ok) == idle' = Append(idle, [kind |-> kind, call |-> c, ok |-> ok])

\* The slots of the calls that work on one are gone.
Moved(cs) == [c \in CallIds |->
    IF cs[c].stage = "working" THEN [cs[c] EXCEPT !.moved = TRUE] ELSE cs[c]]

-----------------------------------------------------------------------------
(* The calls *)

\* Creating closes the open vault first.  Creating and enrolling show a prompt
\* before they call.
Start(c, kind) ==
    /\ MainFree /\ call[c].stage = "none"
    /\ LET called == [call EXCEPT ![c].kind = kind, ![c].stage = "started"]
       IN  IF kind = "create"
           THEN open' = FALSE /\ slot' = NoCred /\ call' = Moved(called)
           ELSE open /\ call' = called /\ UNCHANGED <<open, slot>>
    /\ prompts' = IF kind = "change" THEN prompts ELSE prompts \cup {c}
    /\ UNCHANGED <<fidoVars, file, stored, todo, idle>>

\* Whatever its result, a call posts its completion.
Ends(c, ok) ==
    /\ Staged(c, "posted")
    /\ Posted("done", c, ok)
    /\ UNCHANGED prompts

\* Mutant: returning without a completion.
CannotBegin_Silently(c) ==
    /\ call[c].stage = "started"
    /\ \/ call[c].kind # "create" /\ ~open
       \/ call[c].kind = "enroll" /\ slot # NoCred
    /\ Staged(c, "posted")
    /\ UNCHANGED <<fidoVars, header, stored, todo, window>>
\* The thread finds no vault, or a user whose key is enrolled already.
CannotBegin(c) ==
    /\ call[c].stage = "started"
    /\ \/ call[c].kind # "create" /\ ~open
       \/ call[c].kind = "enroll" /\ slot # NoCred
    /\ Ends(c, FALSE)
    /\ UNCHANGED <<fidoVars, header, stored, todo>>

\* The thread gets hold of the header and the slot.
Begin(c) ==
    /\ call[c].stage = "started"
    /\ call[c].kind # "create" => open
    /\ call[c].kind = "enroll" => slot = NoCred
    /\ call' = [call EXCEPT ![c].stage = "working"]
    /\ todo' = [todo EXCEPT ![c] =
            IF call[c].kind # "change" THEN Enrollment
            ELSE IF slot = NoCred THEN <<>> ELSE TwoChallenges]
    /\ UNCHANGED <<fidoVars, header, stored, window>>

\* A progress message is posted before each touch.
Tell(c) ==
    /\ call[c].stage = "working" /\ NextOp(c) = "tell"
    /\ Proceeds(c)
    /\ Posted("touch", c, TRUE)
    /\ UNCHANGED <<fidoVars, header, stored, call, prompts>>

\* What could not be derived, wrapped or written ends the call.
Fails(c) ==
    /\ call[c].stage = "working" /\ NextOp(c) = "end"
    /\ Ends(c, FALSE)
    /\ UNCHANGED <<fidoVars, header, stored, todo>>

\* A created vault is written to its file, by the thread.
Creates(c) ==
    /\ call[c].kind = "create"
    /\ call[c].stage = "working" /\ NextOp(c) = "end"
    /\ stored' = [stored EXCEPT ![c] = c]
    /\ Ends(c, TRUE)
    /\ UNCHANGED <<fidoVars, header, todo>>

\* A change keeps the credential of the slot, an enrollment sets it.  The new
\* material goes into the slot, if that is still where it was.
Commit(c) ==
    /\ call[c].kind # "create"
    /\ call[c].stage = "working" /\ NextOp(c) = "end"
    /\ \/ /\ open
          /\ slot' = IF call[c].kind = "enroll" THEN c ELSE slot
       \/ call[c].moved /\ UNCHANGED slot
    /\ Ends(c, TRUE)
    /\ UNCHANGED <<fidoVars, open, file, stored, todo>>

CallStep(c) == CannotBegin(c) \/ Begin(c) \/ Tell(c) \/ Fails(c) \/ Creates(c) \/ Commit(c)

-----------------------------------------------------------------------------
(* The steps of the calls, and of the main thread, that use a key *)

At(t, op) == NextOp(t) = op /\ (t # Main => call[t].stage = "working")

\* Mutant: the result of a step is not looked at.
Done_Ignored(t, ok) == Proceeds(t) /\ UNCHANGED <<call, window>>
\* A step that fails ends what the thread is about.
Done(t, ok) ==
    IF ok THEN Proceeds(t) /\ UNCHANGED <<call, window>>
    ELSE /\ Stops(t)
         /\ IF t = Main THEN UNCHANGED <<call, window>> ELSE Ends(t, FALSE)

Quick(t) ==
    /\ \E ok \in BOOLEAN :
        /\ \/ At(t, "present") /\ IsPresent(t, ok)
           \/ At(t, "info") /\ GetDeviceInfo(t, ok)
        /\ Done(t, ok)
    /\ UNCHANGED <<header, stored>>

\* The credential is that of the slot the thread refers to, or whatever is at
\* its place.  A slot without one is refused.
Load(t) ==
    /\ At(t, "load")
    /\ \E c \in Creds :
        /\ c = (IF t = Main THEN stored[file] ELSE slot) \/ (t # Main /\ call[t].moved)
        /\ SetCredential(t, c)
    /\ Proceeds(t)
    /\ UNCHANGED <<header, stored, call, window>>

NoCredential(t) ==
    /\ At(t, "load") /\ t # Main /\ call[t].moved
    /\ Done(t, FALSE)
    /\ UNCHANGED <<fidoVars, header, stored>>

Touch(t) == At(t, "create") \/ At(t, "challenge")

AskForTouch(t) ==
    /\ Touch(t) /\ Waits(t)
    /\ UNCHANGED callVars

NotAsked(t) ==
    /\ Touch(t) /\ Refused(t)
    /\ Done(t, FALSE)
    /\ UNCHANGED <<header, stored>>

\* The key is touched, or libfido2 gives up.
Touched(t) ==
    /\ \E ok \in BOOLEAN :
        /\ \/ At(t, "create") /\ CreateCredential(t, t, ok)
           \/ At(t, "challenge") /\ ChallengeResponse(t, ok)
        /\ Done(t, ok)
    /\ UNCHANGED <<header, stored>>

KeyStep(t) ==
    Quick(t) \/ Load(t) \/ NoCredential(t) \/ AskForTouch(t) \/ NotAsked(t) \/ Touched(t)

-----------------------------------------------------------------------------
(* The main thread *)

\* A login with an enrolled key blocks the main thread for its touch.
Open(f) ==
    /\ MainFree /\ ~open /\ stored[f] # NoFile
    /\ file' = f
    /\ todo' = [todo EXCEPT ![Main] =
            IF stored[f] = NoCred THEN <<"open">> ELSE Challenge \o <<"open">>]
    /\ UNCHANGED <<fidoVars, open, slot, stored, call, window>>

Opened ==
    /\ NextOp(Main) = "open"
    /\ Stops(Main)
    /\ open' = TRUE /\ slot' = stored[file]
    /\ UNCHANGED <<fidoVars, file, stored, call, window>>

\* handle_test and the dialogs before a login or a creation look for a key.
Detect ==
    /\ MainFree
    /\ todo' = [todo EXCEPT ![Main] = <<"info">>]
    /\ UNCHANGED <<fidoVars, header, stored, call, window>>

Save ==
    /\ MainFree /\ open /\ stored[file] # slot
    /\ stored' = [stored EXCEPT ![file] = slot]
    /\ UNCHANGED <<fidoVars, header, calls, window>>

\* By the user or the lock timer.
Close ==
    /\ MainFree /\ open
    /\ open' = FALSE /\ slot' = NoCred
    /\ call' = Moved(call)
    /\ UNCHANGED <<fidoVars, file, stored, todo, window>>

\* A user is added and the slots move to a larger vector.
AddUser ==
    /\ MainFree /\ open
    /\ call' = Moved(call)
    /\ UNCHANGED <<fidoVars, header, stored, todo, window>>

\* A message is written into the prompt, which a change shows only now.
Progress ==
    /\ MainFree /\ idle # <<>> /\ Head(idle).kind = "touch"
    /\ idle' = Tail(idle)
    /\ LET c == Head(idle).call
       IN  prompts' = IF call[c].kind = "change" THEN prompts \cup {c} ELSE prompts
    /\ UNCHANGED <<fidoVars, header, stored, calls>>

\* The prompt is hidden.  A created vault becomes the open one, whatever was
\* opened in the meantime; an enrollment is saved.
Completion ==
    /\ MainFree /\ idle # <<>> /\ Head(idle).kind = "done"
    /\ idle' = Tail(idle)
    /\ LET c == Head(idle).call  ok == Head(idle).ok
       IN  /\ prompts' = prompts \ {c}
           /\ IF ok /\ call[c].kind = "create"
              THEN /\ open' = TRUE /\ file' = c /\ slot' = c
                   /\ call' = Moved([call EXCEPT ![c].stage = "over"])
                   /\ UNCHANGED stored
              ELSE /\ stored' = IF ok /\ call[c].kind = "enroll" /\ open
                                THEN [stored EXCEPT ![file] = slot] ELSE stored
                   /\ Staged(c, "over")
                   /\ UNCHANGED header
    /\ UNCHANGED <<fidoVars, todo>>

Callback == Progress \/ Completion

Environment ==
    /\ \/ \E k \in Keys, p \in Ports : PlugIn(k, p)
       \/ \E p \in Ports : Unplug(p)
       \/ CacheExpires
    /\ UNCHANGED callVars

Next ==
    \/ \E c \in CallIds : CallStep(c) \/ \E kind \in KindsOf[c] : Start(c, kind)
    \/ \E t \in Threads : KeyStep(t)
    \/ \E f \in Files : Open(f)
    \/ Opened \/ Detect \/ Save \/ Close \/ AddUser
    \/ Callback
    \/ Environment

\* Threads are scheduled; the mutex goes to each thread that keeps asking for
\* it; libfido2 gives up on a key that is not touched; and the main loop comes
\* back to its idle queue whenever it is free again and again.
Fairness ==
    /\ \A c \in CallIds : WF_vars(CallStep(c))
    /\ \A t \in Threads : SF_vars(KeyStep(t))
    /\ WF_vars(Opened)
    /\ SF_vars(Callback)

Spec == Init /\ [][Next]_vars /\ Fairness

-----------------------------------------------------------------------------
(* Properties *)

\* One type invariant.
CallsTypeOK ==
    /\ FidoTypeOK
    /\ open \in BOOLEAN /\ file \in Files /\ slot \in Creds \cup {NoCred}
    /\ stored \in [Files -> Creds \cup {NoCred, NoFile}]
    /\ call \in [CallIds -> [kind : Kinds, stage : Stages, moved : BOOLEAN]]
    /\ todo \in [Threads -> Seq(Ops)]
    /\ idle \in Seq(Events) /\ prompts \in SUBSET CallIds

\* Whatever fails and whatever is plugged in, a vault file, or the header that
\* goes there next, asks for a credential only if some key holds it.  (A commit
\* writes the slot as a whole here: a save that meets it halfway is not covered.)
EnrolledKeyExists ==
    \A c \in Creds : (slot = c \/ \E f \in Files : stored[f] = c) =>
        \E k \in Keys : c \in resident[k]

\* Every call is completed, whoever has the mutex and whatever the main thread
\* waits for: nobody waits for both.
EveryCallEnds == \A c \in CallIds : call[c].stage = "started" ~> call[c].stage = "over"
=============================================================================
