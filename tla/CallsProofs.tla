--------------------------- MODULE CallsProofs ----------------------------
(***************************************************************************)
(* Proofs about Calls, for any number of calls, keys and ports: the types, *)
(* DeviceUnderMutex and EnrolledKeyExists.  That every call ends is left   *)
(* to TLC.                                                                 *)
(*                                                                         *)
(* EnrolledKeyExists is not inductive.  A call puts its credential into a  *)
(* slot or a file at its very end, without looking at a key again, so the  *)
(* invariant has to know what a call that is still under way has behind    *)
(* it: the steps left to do tell whether the credential was made.  A       *)
(* created vault becomes the open one only when the main loop comes to its *)
(* completion, so the queue has to be described too.                       *)
(***************************************************************************)
EXTENDS Calls, TLAPS

Held(c) == \E k \in Keys : c \in resident[k]

\* What an enrollment has left to do is the end of the plan, and its length
\* tells whether the credential is made.
Rest(plan, full) ==
    /\ Len(plan) <= Len(full)
    /\ \A i \in 1..Len(plan) : plan[i] = full[Len(full) - Len(plan) + i]

Enrolling(c) == call[c].stage = "working" /\ call[c].kind # "change"

Prepared == \A c \in CallIds : Enrolling(c) =>
    Rest(todo[c], Enrollment) /\ (Len(todo[c]) <= 3 => Held(c))

\* A call that is announced as done has made its credential, and its file.
Announces(e) ==
    /\ call[e.call].stage # "none"
    /\ e.kind = "done" /\ e.ok /\ call[e.call].kind # "change" => Held(e.call)
    /\ e.kind = "done" /\ e.ok /\ call[e.call].kind = "create" => stored[e.call] # NoFile
Announced == \A i \in 1..Len(idle) : Announces(idle[i])

\* The main thread never makes a credential.
Harmless(plan) == \A i \in 1..Len(plan) : plan[i] # "create"
Planned == Harmless(todo[Main])

HeaderTypes ==
    /\ open \in BOOLEAN /\ file \in Files /\ slot \in Creds \cup {NoCred}
    /\ stored \in [Files -> Creds \cup {NoCred, NoFile}]
    /\ stored[file] # NoFile
CallTypes ==
    /\ call \in [CallIds -> [kind : Kinds, stage : Stages, moved : BOOLEAN]]
    /\ todo \in [Threads -> Seq(Ops)]
    /\ idle \in Seq(Events) /\ prompts \in SUBSET CallIds

Fido == FidoTypeOK /\ DeviceUnderMutex
Inv == Fido /\ HeaderTypes /\ CallTypes /\ Planned /\ EnrolledKeyExists /\ Prepared /\ Announced

USE KindsAssumption, ThreadsAssumption, CredsAssumption, ValuesAssumption
-----------------------------------------------------------------------------
(* The plans *)

\* The plans of the calls, and what is left of each at its start.
LEMMA Plans ==
    /\ TwoChallenges \in Seq(Ops) /\ Enrollment \in Seq(Ops) /\ <<>> \in Seq(Ops)
    /\ Rest(Enrollment, Enrollment) /\ Len(Enrollment) = 5
    /\ <<"open">> \in Seq(Ops) /\ Harmless(<<"open">>)
    /\ <<"info">> \in Seq(Ops) /\ Harmless(<<"info">>) /\ Harmless(<<>>)
    /\ Challenge \o <<"open">> \in Seq(Ops) /\ Harmless(Challenge \o <<"open">>)
<1>1. Challenge \in Seq(Ops) /\ <<"tell">> \in Seq(Ops) /\ <<"open">> \in Seq(Ops)
  BY DEF Challenge, Ops
<1>2. TwoChallenges \in Seq(Ops) /\ Challenge \o <<"open">> \in Seq(Ops)
  BY <1>1 DEF TwoChallenges
<1>3. Harmless(Challenge) /\ Harmless(<<"open">>)
  BY DEF Harmless, Challenge
<1>4. ASSUME NEW s \in Seq(Ops), NEW t \in Seq(Ops), Harmless(s), Harmless(t)
      PROVE  Harmless(s \o t)
  BY <1>4 DEF Harmless
<1>5. Harmless(Challenge \o <<"open">>)
  BY <1>1, <1>3, <1>4
<1>6. /\ Enrollment \in Seq(Ops) /\ Len(Enrollment) = 5 /\ Rest(Enrollment, Enrollment)
      /\ <<"info">> \in Seq(Ops) /\ Harmless(<<"info">>) /\ Harmless(<<>>) /\ <<>> \in Seq(Ops)
  BY DEF Enrollment, Rest, Harmless, Ops
<1> QED
  BY <1>1, <1>2, <1>3, <1>5, <1>6

\* After a step the rest is shorter, and the step that leads past the making
\* of the credential is that step.
LEMMA StepDone ==
    ASSUME NEW plan \in Seq(Ops), plan # <<>>
    PROVE  /\ Tail(plan) \in Seq(Ops) /\ Len(Tail(plan)) = Len(plan) - 1
           /\ Rest(plan, Enrollment) => Rest(Tail(plan), Enrollment)
           /\ Rest(plan, Enrollment) /\ Len(plan) = 4 => Head(plan) = "create"
           /\ Harmless(plan) => Harmless(Tail(plan)) /\ Head(plan) # "create"
<1>1. /\ Tail(plan) \in Seq(Ops) /\ Len(Tail(plan)) = Len(plan) - 1
      /\ \A i \in 1..Len(Tail(plan)) : Tail(plan)[i] = plan[i + 1]
      /\ Head(plan) = plan[1] /\ Len(plan) \in Nat \ {0}
  OBVIOUS
<1>2. Rest(plan, Enrollment) => Rest(Tail(plan), Enrollment)
  BY <1>1, Plans DEF Rest
<1>3. Rest(plan, Enrollment) /\ Len(plan) = 4 => Head(plan) = "create"
  <2>1. Enrollment[2] = "create"
    BY DEF Enrollment
  <2> QED
    BY <1>1, <2>1, Plans DEF Rest
<1>4. Harmless(plan) => Harmless(Tail(plan)) /\ Head(plan) # "create"
  BY <1>1 DEF Harmless
<1> QED
  BY <1>1, <1>2, <1>3, <1>4

-----------------------------------------------------------------------------
(* The keys *)

Kept == \A c \in CallIds : Held(c) => Held(c)'

\* What is done with a key, or to it.
FidoStep(t) ==
    \/ \E ok \in BOOLEAN :
        \/ IsPresent(t, ok) \/ GetDeviceInfo(t, ok) \/ ChallengeResponse(t, ok)
        \/ t \in CallIds /\ CreateCredential(t, t, ok)
    \/ \E c \in Creds : SetCredential(t, c)
    \/ Refused(t) \/ Waits(t)
    \/ \E k \in Keys, p \in Ports : PlugIn(k, p)
    \/ \E p \in Ports : Unplug(p)
    \/ CacheExpires
    \/ UNCHANGED fidoVars

\* None of it leaves a device open without the mutex, or loses a credential.
LEMMA FidoSteps ==
    ASSUME Fido, NEW t \in Threads, FidoStep(t)
    PROVE  Fido' /\ Kept
<1> USE DEF Fido, FidoTypeOK, DeviceUnderMutex, Kept, Held
<1>1. ASSUME NEW p \in Ports \cup {NoPort}, Finds(p) PROVE cached' \in Ports \cup {NoPort}
  BY <1>1 DEF Finds
<1>2. CASE \E ok \in BOOLEAN : IsPresent(t, ok) \/ GetDeviceInfo(t, ok)
  BY <1>1, <1>2 DEF IsPresent, GetDeviceInfo
<1>3. CASE \E ok \in BOOLEAN : ChallengeResponse(t, ok)
  BY <1>3 DEF ChallengeResponse, Returns
<1>4. CASE \E ok \in BOOLEAN : t \in CallIds /\ CreateCredential(t, t, ok)
  BY <1>4 DEF CreateCredential, Returns
<1>5. CASE \E c \in Creds : SetCredential(t, c)
  BY <1>5 DEF SetCredential
<1>6. CASE Refused(t)
  BY <1>1, <1>6 DEF Refused
<1>7. CASE Waits(t)
  BY <1>1, <1>7 DEF Waits, Free, Opens, Used
<1>8. CASE \E k \in Keys, p \in Ports : PlugIn(k, p)
  BY <1>8 DEF PlugIn
<1>9. CASE \E p \in Ports : Unplug(p)
  BY <1>9 DEF Unplug
<1>10. CASE CacheExpires \/ UNCHANGED fidoVars
  BY <1>10 DEF CacheExpires, fidoVars
<1> QED
  BY <1>2, <1>3, <1>4, <1>5, <1>6, <1>7, <1>8, <1>9, <1>10 DEF FidoStep

\* A call that makes a credential has it on a key.
LEMMA MakesCredential ==
    ASSUME Fido, NEW t \in CallIds, NEW ok \in BOOLEAN, CreateCredential(t, t, ok), ok
    PROVE  Held(t)'
BY DEF Fido, FidoTypeOK, CreateCredential, Held

-----------------------------------------------------------------------------
(* The calls and the queue *)

\* The files that are there stay there, and so do the calls that were made.
Stays ==
    /\ \A f \in Files : stored[f] # NoFile => stored'[f] # NoFile
    /\ \A c \in CallIds : call[c].stage # "none" =>
            call'[c].stage # "none" /\ call'[c].kind = call[c].kind

\* The queue grows by a message that is true of its call, or loses its first.
Queued ==
    \/ idle' = idle
    \/ idle # <<>> /\ idle' = Tail(idle)
    \/ \E e \in Events : idle' = Append(idle, e) /\ Announces(e)'

\* An event put into the queue announces what is true of its call.
LEMMA Announcing ==
    ASSUME CallTypes, Announced, Kept, Stays, Queued
    PROVE  Announced' /\ idle' \in Seq(Events)
<1>1. ASSUME NEW e \in Events, Announces(e) PROVE Announces(e)'
  <2>1. e.call \in CallIds /\ e.call \in Files
    BY DEF Events, Files
  <2> QED
    BY <1>1, <2>1 DEF Announces, Kept, Stays
<1>2. idle \in Seq(Events)
  BY DEF CallTypes
<1>3. ASSUME NEW i \in 1..Len(idle)
      PROVE  \E e \in Events : e = idle[i] /\ Announces(e)'
  BY <1>1, <1>2 DEF Announced
<1>4. ASSUME NEW i \in 1..Len(idle')
      PROVE  \E e \in Events : e = idle'[i] /\ Announces(e)'
  <2>1. CASE idle' = idle
    BY <1>3, <2>1
  <2>2. CASE idle # <<>> /\ idle' = Tail(idle)
    <3>1. i + 1 \in 1..Len(idle) /\ idle'[i] = idle[i + 1]
      BY <1>2, <2>2
    <3> QED
      BY <1>3, <3>1
  <2>3. CASE \E e \in Events : idle' = Append(idle, e) /\ Announces(e)'
    <3>1. PICK e \in Events : idle' = Append(idle, e) /\ Announces(e)'
      BY <2>3
    <3>2. idle'[i] = IF i = Len(idle) + 1 THEN e ELSE idle[i]
      BY <1>2, <3>1
    <3>3. i = Len(idle) + 1 \/ i \in 1..Len(idle)
      BY <1>2, <3>1
    <3> QED
      BY <1>3, <3>1, <3>2, <3>3
  <2> QED
    BY <2>1, <2>2, <2>3 DEF Queued
<1>5. idle' \in Seq(Events)
  BY <1>2 DEF Queued
<1>6. Announced'
  <2> SUFFICES ASSUME NEW i \in 1..Len(idle') PROVE Announces(idle[i])'
    BY DEF Announced
  <2>1. PICK e \in Events : e = idle'[i] /\ Announces(e)'
    BY <1>4
  <2> QED
    BY <2>1 DEF Announces, Held
<1> QED
  BY <1>5, <1>6

\* A call that ends is described by what it announces.
LEMMA Ending ==
    ASSUME HeaderTypes, CallTypes, Announced, Kept, NEW c \in CallIds, NEW ok \in BOOLEAN,
           call[c].stage # "none", Ends(c, ok),
           \A f \in Files : stored[f] # NoFile => stored'[f] # NoFile,
           ok /\ call[c].kind # "change" => Held(c)',
           ok /\ call[c].kind = "create" => stored'[c] # NoFile
    PROVE  /\ Announced' /\ idle' \in Seq(Events) /\ prompts' \in SUBSET CallIds
           /\ call' \in [CallIds -> [kind : Kinds, stage : Stages, moved : BOOLEAN]]
           /\ \A d \in CallIds : Enrolling(d)' => Enrolling(d)
<1>1. /\ call' \in [CallIds -> [kind : Kinds, stage : Stages, moved : BOOLEAN]]
      /\ call'[c].stage = "posted" /\ call'[c].kind = call[c].kind
      /\ \A d \in CallIds \ {c} : call'[d] = call[d]
  <2>1. call[c] \in [kind : Kinds, stage : Stages, moved : BOOLEAN]
    BY DEF CallTypes
  <2>2. call' = [call EXCEPT ![c] = [@ EXCEPT !.stage = "posted", !.moved = FALSE]]
    BY DEF CallTypes, Ends, Staged
  <2>3. [call[c] EXCEPT !.stage = "posted", !.moved = FALSE]
            \in [kind : Kinds, stage : Stages, moved : BOOLEAN]
    BY <2>1 DEF Stages
  <2> QED
    BY <2>1, <2>2, <2>3 DEF CallTypes
<1>2. Stays
  BY <1>1 DEF Stays
<1> DEFINE e == [kind |-> "done", call |-> c, ok |-> ok]
<1>3. e \in Events /\ idle' = Append(idle, e)
  BY DEF Events, Ends, Posted
<1>4. Announces(e)'
  BY <1>1 DEF Announces
<1>5. Announced' /\ idle' \in Seq(Events)
  BY <1>2, <1>3, <1>4, Announcing DEF Queued
<1> QED
  BY <1>1, <1>5 DEF Ends, Enrolling, CallTypes

\* A step of a thread, done or failed.
LEMMA DoneStep ==
    ASSUME HeaderTypes, CallTypes, Planned, Prepared, Announced, Kept,
           NEW t \in Threads, NEW ok \in BOOLEAN, Done(t, ok), UNCHANGED stored,
           todo[t] # <<>>, t # Main => call[t].stage = "working",
           t # Main /\ ok /\ Head(todo[t]) = "create" => Held(t)'
    PROVE  CallTypes' /\ Planned' /\ Prepared' /\ Announced'
<1>1. todo \in [Threads -> Seq(Ops)] /\ todo[t] \in Seq(Ops)
  BY DEF CallTypes
<1>2. CASE ok
  <2>1. todo' = [todo EXCEPT ![t] = Tail(@)] /\ UNCHANGED <<call, idle, prompts>>
    BY <1>2 DEF Done, Proceeds, window
  <2>2. CallTypes'
    BY <1>1, <2>1, StepDone DEF CallTypes
  <2>3. Planned'
    BY <1>1, <2>1, StepDone DEF Planned
  <2>4. Prepared'
    <3> SUFFICES ASSUME NEW c \in CallIds, Enrolling(c)
                 PROVE  Rest(todo'[c], Enrollment) /\ (Len(todo'[c]) <= 3 => Held(c)')
      BY <2>1 DEF Prepared, Enrolling
    <3>1. Rest(todo[c], Enrollment) /\ (Len(todo[c]) <= 3 => Held(c)')
      BY DEF Prepared, Kept
    <3>2. CASE c # t
      <4>1. todo'[c] = todo[c]
        BY <1>1, <2>1, <3>2
      <4> QED
        BY <3>1, <4>1
    <3>3. CASE c = t
      <4>1. todo'[c] = Tail(todo[c]) /\ Len(todo[c]) \in Nat
        BY <1>1, <2>1, <3>3
      <4>2. Rest(todo'[c], Enrollment) /\ Len(todo'[c]) = Len(todo[c]) - 1
        BY <1>1, <3>1, <3>3, <4>1, StepDone
      <4>3. Len(todo[c]) = 4 => Held(c)'
        BY <1>1, <1>2, <3>1, <3>3, StepDone
      <4>4. Len(todo'[c]) <= 3 => Len(todo[c]) = 4 \/ Len(todo[c]) <= 3
        <5>1. Len(todo[c]) \in Nat /\ Len(todo'[c]) = Len(todo[c]) - 1
          BY <4>1, <4>2
        <5>2. \A n \in Nat : n - 1 <= 3 => n = 4 \/ n <= 3
          OBVIOUS
        <5> QED
          BY <5>1, <5>2
      <4>5. Len(todo'[c]) <= 3 => Held(c)'
        BY <3>1, <4>3, <4>4
      <4> QED
        BY <4>2, <4>5
    <3> QED
      BY <3>2, <3>3
  <2>5. Announced'
    BY <2>1, Announcing DEF Stays, Queued, HeaderTypes, Files
  <2> QED
    BY <2>2, <2>3, <2>4, <2>5
<1>3. CASE ~ok
  <2>1. todo' = [todo EXCEPT ![t] = <<>>]
    BY <1>3 DEF Done, Stops
  <2>2. todo' \in [Threads -> Seq(Ops)] /\ Planned'
    BY <1>1, <2>1, Plans DEF Planned
  <2>3. CASE t = Main
    <3>1. UNCHANGED <<call, idle, prompts>>
      BY <1>3, <2>3 DEF Done, window
    <3>2. Announced'
      BY <3>1, Announcing DEF Stays, Queued, HeaderTypes, Files
    <3>3. Prepared'
      BY <1>1, <2>1, <2>3, <3>1 DEF Prepared, Enrolling, Kept
    <3> QED
      BY <2>2, <3>1, <3>2, <3>3 DEF CallTypes
  <2>4. CASE t # Main
    <3>1. t \in CallIds /\ Ends(t, ok)
      BY <1>3, <2>4 DEF Done
    <3>2. /\ Announced' /\ idle' \in Seq(Events) /\ prompts' \in SUBSET CallIds
          /\ call' \in [CallIds -> [kind : Kinds, stage : Stages, moved : BOOLEAN]]
          /\ \A d \in CallIds : Enrolling(d)' => Enrolling(d)
      BY <1>3, <2>4, <3>1, Ending
    <3>3. ~Enrolling(t)'
      BY <3>1 DEF Ends, Staged, Enrolling, CallTypes
    <3>4. Prepared'
      BY <1>1, <2>1, <3>2, <3>3 DEF Prepared, Kept
    <3> QED
      BY <2>2, <3>2, <3>4 DEF CallTypes
  <2> QED
    BY <2>3, <2>4
<1> QED
  BY <1>2, <1>3

-----------------------------------------------------------------------------
(* The calls *)

\* A step that uses no key.
LEMMA KeysAlone == ASSUME Inv, UNCHANGED fidoVars PROVE Fido' /\ Kept
<1>1. \E t \in Threads : FidoStep(t)
  BY DEF FidoStep
<1> QED
  BY <1>1, FidoSteps DEF Inv

\* The credentials asked for are still held if no new one is asked for.
LEMMA NothingNewAsked ==
    ASSUME Inv, Kept,
           \A c \in Creds :
                slot' = c \/ (\E f \in Files : stored'[f] = c) =>
                    slot = c \/ (\E f \in Files : stored[f] = c) \/ Held(c)'
    PROVE  EnrolledKeyExists'
BY DEF Inv, EnrolledKeyExists, Kept, Held

\* Gone calls are of the same kind and no more at work than they were.
LEMMA Moving ==
    ASSUME CallTypes, NEW cs \in [CallIds -> [kind : Kinds, stage : Stages, moved : BOOLEAN]]
    PROVE  /\ Moved(cs) \in [CallIds -> [kind : Kinds, stage : Stages, moved : BOOLEAN]]
           /\ \A c \in CallIds : /\ Moved(cs)[c].kind = cs[c].kind
                                 /\ Moved(cs)[c].stage = cs[c].stage
BY DEF Moved

\* Steps that neither end a call nor touch what it has to do.
LEMMA Quiet ==
    ASSUME HeaderTypes, CallTypes, Planned, Prepared, Announced, Kept, Stays, Queued,
           call' \in [CallIds -> [kind : Kinds, stage : Stages, moved : BOOLEAN]],
           todo' \in [Threads -> Seq(Ops)], Planned', prompts' \in SUBSET CallIds,
           \A c \in CallIds : Enrolling(c)' => Enrolling(c) /\ todo'[c] = todo[c]
    PROVE  CallTypes' /\ Prepared' /\ Announced'
<1>1. Announced' /\ idle' \in Seq(Events)
  BY Announcing
<1>2. Prepared'
  BY DEF Prepared, Kept
<1> QED
  BY <1>1, <1>2 DEF CallTypes

\* Starting a thread.
LEMMA StartStep ==
    ASSUME Inv, NEW c \in CallIds, NEW kind \in KindsOf[c], Start(c, kind)
    PROVE  Inv'
<1> USE DEF Start
<1>1. Fido' /\ Kept
  BY KeysAlone
<1> DEFINE called == [call EXCEPT ![c].kind = kind, ![c].stage = "started"]
<1>2. kind \in Kinds
  BY KindsAssumption
<1>3. /\ called \in [CallIds -> [kind : Kinds, stage : Stages, moved : BOOLEAN]]
      /\ called[c].stage = "started" /\ \A d \in CallIds \ {c} : called[d] = call[d]
  <2>1. call[c] \in [kind : Kinds, stage : Stages, moved : BOOLEAN]
    BY DEF Inv, CallTypes
  <2>2. called = [call EXCEPT ![c] = [@ EXCEPT !.kind = kind, !.stage = "started"]]
    BY DEF Inv, CallTypes
  <2>3. [call[c] EXCEPT !.kind = kind, !.stage = "started"]
            \in [kind : Kinds, stage : Stages, moved : BOOLEAN]
    BY <1>2, <2>1 DEF Stages
  <2> QED
    BY <2>1, <2>2, <2>3 DEF Inv, CallTypes
<1>4. call' = called \/ call' = Moved(called)
  OBVIOUS
<1> HIDE DEF called
<1>5. /\ call' \in [CallIds -> [kind : Kinds, stage : Stages, moved : BOOLEAN]]
      /\ \A d \in CallIds : /\ call'[d].stage = called[d].stage
                            /\ call'[d].kind = called[d].kind
  BY <1>3, <1>4, Moving DEF Inv
<1>6. Stays
  BY <1>3, <1>5 DEF Stays
<1>7. CallTypes' /\ Prepared' /\ Announced'
  <2>1. \A d \in CallIds : Enrolling(d)' => Enrolling(d) /\ todo'[d] = todo[d]
    BY <1>3, <1>5 DEF Enrolling
  <2>2. todo' \in [Threads -> Seq(Ops)] /\ Planned' /\ prompts' \in SUBSET CallIds /\ Queued
    BY DEF Inv, CallTypes, Planned, Queued
  <2> QED
    BY <1>1, <1>5, <1>6, <2>1, <2>2, Quiet DEF Inv
<1>8. HeaderTypes' /\ Planned'
  BY DEF Inv, HeaderTypes, Planned
<1>9. EnrolledKeyExists'
  BY <1>1, NothingNewAsked
<1> QED
  BY <1>1, <1>7, <1>8, <1>9 DEF Inv

\* A call without a vault, and one whose last step failed, ends.
LEMMA FailStep ==
    ASSUME Inv, NEW c \in CallIds, CannotBegin(c) \/ Fails(c)
    PROVE  Inv'
<1>1. /\ call[c].stage # "none" /\ Ends(c, FALSE)
      /\ UNCHANGED <<fidoVars, header, stored, todo>>
  BY DEF CannotBegin, Fails
<1>2. Fido' /\ Kept
  BY <1>1, KeysAlone
<1>3. /\ Announced' /\ idle' \in Seq(Events) /\ prompts' \in SUBSET CallIds
      /\ call' \in [CallIds -> [kind : Kinds, stage : Stages, moved : BOOLEAN]]
      /\ \A d \in CallIds : Enrolling(d)' => Enrolling(d)
  BY <1>1, <1>2, Ending DEF Inv
<1>4. CallTypes' /\ Prepared' /\ HeaderTypes' /\ Planned'
  BY <1>1, <1>2, <1>3 DEF Inv, CallTypes, Prepared, Kept, HeaderTypes, Planned, header
<1>5. EnrolledKeyExists'
  BY <1>1, <1>2, NothingNewAsked DEF header
<1> QED
  BY <1>2, <1>3, <1>4, <1>5 DEF Inv

\* A thread that finds the vault open takes up its plan.
LEMMA BeginStep == ASSUME Inv, NEW c \in CallIds, Begin(c) PROVE Inv'
<1>1. Fido' /\ Kept
  BY KeysAlone DEF Begin
<1>2. call[c] \in [kind : Kinds, stage : Stages, moved : BOOLEAN]
  BY DEF Inv, CallTypes
<1>3. /\ call' \in [CallIds -> [kind : Kinds, stage : Stages, moved : BOOLEAN]]
      /\ call'[c].stage = "working" /\ call'[c].kind = call[c].kind
      /\ \A d \in CallIds \ {c} : call'[d] = call[d]
  BY <1>2 DEF Inv, CallTypes, Begin, Stages
<1>4. PICK plan \in Seq(Ops) : /\ todo' = [todo EXCEPT ![c] = plan]
                               /\ call[c].kind # "change" => plan = Enrollment
  BY Plans DEF Begin
<1>5. /\ todo' \in [Threads -> Seq(Ops)] /\ todo'[c] = plan
      /\ \A t \in Threads \ {c} : todo'[t] = todo[t]
  BY <1>4 DEF Inv, CallTypes
<1>6. CallTypes' /\ HeaderTypes' /\ Planned'
  BY <1>3, <1>5 DEF Inv, CallTypes, HeaderTypes, Planned, Begin, header, window
<1>7. Prepared'
  <2> SUFFICES ASSUME NEW d \in CallIds, Enrolling(d)'
               PROVE  Rest(todo'[d], Enrollment) /\ (Len(todo'[d]) <= 3 => Held(d)')
    BY DEF Prepared
  <2>1. CASE d = c
    <3>1. todo'[d] = Enrollment
      BY <1>3, <1>4, <1>5, <2>1 DEF Enrolling
    <3> QED
      BY <3>1, Plans
  <2>2. CASE d # c
    <3>1. Enrolling(d) /\ todo'[d] = todo[d]
      BY <1>3, <1>5, <2>2 DEF Enrolling
    <3>2. Rest(todo[d], Enrollment) /\ (Len(todo[d]) <= 3 => Held(d)')
      BY <1>1, <3>1 DEF Inv, Prepared, Kept
    <3> QED
      BY <3>1, <3>2
  <2> QED
    BY <2>1, <2>2
<1>8. Announced'
  <2>1. Stays
    BY <1>3 DEF Begin, Stays
  <2> QED
    BY <1>1, <2>1, Announcing DEF Inv, Begin, Queued, window
<1>9. EnrolledKeyExists'
  BY <1>1, NothingNewAsked DEF Begin, header
<1> QED
  BY <1>1, <1>6, <1>7, <1>8, <1>9 DEF Inv

\* A thread tells the main loop that a touch is due.
LEMMA TellStep == ASSUME Inv, NEW c \in CallIds, Tell(c) PROVE Inv'
<1>1. Fido' /\ Kept
  BY KeysAlone DEF Tell
<1> DEFINE e == [kind |-> "touch", call |-> c, ok |-> TRUE]
<1>2. /\ todo[c] \in Seq(Ops) /\ todo[c] # <<>> /\ Head(todo[c]) = "tell"
      /\ call[c].stage = "working"
      /\ UNCHANGED <<open, file, slot, stored, call, prompts>>
  BY DEF Inv, CallTypes, Tell, NextOp, header
<1>4. e \in Events /\ idle' = Append(idle, e) /\ Announces(e)'
  BY <1>2 DEF Tell, Posted, Events, Announces
<1>5. Announced' /\ idle' \in Seq(Events)
  BY <1>1, <1>2, <1>4, Announcing DEF Inv, Stays, Queued
<1>6. /\ todo' = [todo EXCEPT ![c] = Tail(@)] /\ Tail(todo[c]) \in Seq(Ops)
      /\ todo'[c] = Tail(todo[c]) /\ \A t \in Threads \ {c} : todo'[t] = todo[t]
  BY <1>2, StepDone DEF Inv, CallTypes, Tell, Proceeds
<1>7. CallTypes' /\ HeaderTypes' /\ Planned'
  BY <1>2, <1>5, <1>6 DEF Inv, CallTypes, HeaderTypes, Planned
<1>8. Prepared'
  <2> SUFFICES ASSUME NEW d \in CallIds, Enrolling(d)
               PROVE  Rest(todo'[d], Enrollment) /\ (Len(todo'[d]) <= 3 => Held(d)')
    BY <1>2 DEF Prepared, Enrolling
  <2>1. Rest(todo[d], Enrollment) /\ (Len(todo[d]) <= 3 => Held(d)')
    BY <1>1 DEF Inv, Prepared, Kept
  <2>2. CASE d # c
    <3>1. todo'[d] = todo[d]
      BY <1>6, <2>2
    <3> QED
      BY <2>1, <3>1
  <2>3. CASE d = c
    <3>1. /\ Rest(todo'[c], Enrollment) /\ Len(todo'[c]) = Len(todo[c]) - 1
          /\ Len(todo[c]) # 4
      <4>1. Rest(todo[c], Enrollment)
        BY <2>1, <2>3
      <4>2. Rest(Tail(todo[c]), Enrollment) /\ Len(Tail(todo[c])) = Len(todo[c]) - 1
        BY <1>2, <4>1, StepDone
      <4>3. Len(todo[c]) = 4 => Head(todo[c]) = "create"
        BY <1>2, <4>1, StepDone
      <4> QED
        BY <1>2, <1>6, <4>2, <4>3
    <3>2. Len(todo[c]) \in Nat
      BY <1>2
    <3>3. \A n \in Nat : n - 1 <= 3 => n = 4 \/ n <= 3
      OBVIOUS
    <3>4. Len(todo'[c]) <= 3 => Len(todo[c]) <= 3
      BY <3>1, <3>2, <3>3
    <3> QED
      BY <2>1, <2>3, <3>1, <3>4
  <2> QED
    BY <2>2, <2>3
<1>9. EnrolledKeyExists'
  BY <1>1, <1>2, NothingNewAsked
<1> QED
  BY <1>1, <1>5, <1>7, <1>8, <1>9 DEF Inv

\* What an enrollment that has nothing left to do puts into slot or file is held.
LEMMA AllMade ==
    ASSUME Inv, NEW c \in CallIds, Enrolling(c), NextOp(c) = "end"
    PROVE  Held(c)
<1>1. todo[c] = <<>> \/ Head(todo[c]) = "end"
  BY DEF NextOp
<1>2. todo[c] \in Seq(Ops) /\ "end" \notin Ops
  BY DEF Inv, CallTypes, Ops
<1>3. todo[c] = <<>>
  BY <1>1, <1>2
<1> QED
  BY <1>3 DEF Inv, Prepared

\* A creation that has made its keys writes the new vault.
LEMMA CreatesStep == ASSUME Inv, NEW c \in CallIds, Creates(c) PROVE Inv'
<1>1. Fido' /\ Kept
  BY KeysAlone DEF Creates
<1>2. Held(c)
  BY AllMade DEF Creates, Enrolling
<1>3. c \in Files /\ c # NoFile
  BY DEF Files
<1>4. /\ stored' \in [Files -> Creds \cup {NoCred, NoFile}] /\ stored'[c] = c
      /\ \A f \in Files \ {c} : stored'[f] = stored[f]
  BY <1>3 DEF Inv, HeaderTypes, Creates
<1>5. \A f \in Files : stored[f] # NoFile => stored'[f] # NoFile
  BY <1>3, <1>4
<1>6. /\ Announced' /\ idle' \in Seq(Events) /\ prompts' \in SUBSET CallIds
      /\ call' \in [CallIds -> [kind : Kinds, stage : Stages, moved : BOOLEAN]]
      /\ \A d \in CallIds : Enrolling(d)' => Enrolling(d)
  <2>1. call[c].stage # "none" /\ Ends(c, TRUE) /\ Held(c)'
    BY <1>1, <1>2 DEF Creates, Kept
  <2> QED
    BY <1>1, <1>3, <1>4, <1>5, <2>1, Ending DEF Inv
<1>7. CallTypes' /\ Prepared' /\ Planned'
  BY <1>1, <1>6 DEF Inv, CallTypes, Prepared, Kept, Planned, Creates
<1>8. HeaderTypes'
  BY <1>4, <1>5 DEF Inv, HeaderTypes, Creates, header
<1>9. EnrolledKeyExists'
  <2>1. UNCHANGED slot /\ Held(c)'
    BY <1>1, <1>2 DEF Kept, Creates, header
  <2> QED
    BY <1>1, <1>4, <2>1, NothingNewAsked
<1> QED
  BY <1>1, <1>6, <1>7, <1>8, <1>9 DEF Inv

\* A change or enrollment that has made its keys writes its slot.
LEMMA CommitStep == ASSUME Inv, NEW c \in CallIds, Commit(c) PROVE Inv'
<1>1. Fido' /\ Kept
  BY KeysAlone DEF Commit
<1>2. call[c].kind = "enroll" => Held(c)'
  BY <1>1, AllMade DEF Commit, Enrolling, Kept
<1>3. slot' = slot \/ (slot' = c /\ Held(c)')
  BY <1>2 DEF Commit
<1>4. /\ Announced' /\ idle' \in Seq(Events) /\ prompts' \in SUBSET CallIds
      /\ call' \in [CallIds -> [kind : Kinds, stage : Stages, moved : BOOLEAN]]
      /\ \A d \in CallIds : Enrolling(d)' => Enrolling(d)
  <2>1. /\ call[c].stage # "none" /\ Ends(c, TRUE) /\ call[c].kind # "create"
        /\ UNCHANGED stored
    BY DEF Commit
  <2>2. call[c].kind # "change" => call[c].kind = "enroll"
    BY <2>1 DEF Inv, CallTypes, Kinds
  <2> QED
    BY <1>1, <1>2, <2>1, <2>2, Ending DEF Inv
<1>5. CallTypes' /\ Prepared' /\ Planned'
  BY <1>1, <1>4 DEF Inv, CallTypes, Prepared, Kept, Planned, Commit
<1>6. HeaderTypes'
  BY <1>3 DEF Inv, HeaderTypes, Commit
<1>7. EnrolledKeyExists'
  BY <1>1, <1>3, NothingNewAsked DEF Commit
<1> QED
  BY <1>1, <1>4, <1>5, <1>6, <1>7 DEF Inv

-----------------------------------------------------------------------------
(* The steps that use a key *)

\* All of them do something with the key, and what that leaves is Done.
LEMMA KeyDone ==
    ASSUME Inv, NEW t \in Threads, NEW ok \in BOOLEAN, NEW op \in Ops,
           At(t, op), Done(t, ok), UNCHANGED <<header, stored>>, FidoStep(t),
           op = "create" /\ ok => t \in CallIds /\ Held(t)'
    PROVE  Inv'
<1>1. Fido' /\ Kept
  BY FidoSteps DEF Inv
<1>2. todo[t] # <<>> /\ Head(todo[t]) = op
  BY DEF At, NextOp, Ops
<1>3. CallTypes' /\ Planned' /\ Prepared' /\ Announced'
  BY <1>1, <1>2, DoneStep DEF Inv, At
<1>4. HeaderTypes' /\ EnrolledKeyExists'
  <2>1. HeaderTypes'
    BY DEF Inv, HeaderTypes, header
  <2>2. EnrolledKeyExists'
    BY <1>1, NothingNewAsked DEF header
  <2> QED
    BY <2>1, <2>2
<1> QED
  BY <1>1, <1>3, <1>4 DEF Inv

\* The steps of a thread, or of the main loop, on a key.
LEMMA KeySteps == ASSUME Inv, NEW t \in Threads, KeyStep(t) PROVE Inv'
<1>1. CASE Quick(t)
  <2>1. PICK ok \in BOOLEAN, op \in {"present", "info"} :
            /\ At(t, op) /\ (IsPresent(t, ok) \/ GetDeviceInfo(t, ok)) /\ Done(t, ok)
            /\ UNCHANGED <<header, stored>>
    BY <1>1 DEF Quick
  <2> QED
    BY <2>1, KeyDone DEF FidoStep, Ops
<1>2. CASE Load(t)
  <2>1. /\ At(t, "load") /\ Proceeds(t) /\ UNCHANGED <<header, stored, call, window>>
        /\ \E c \in Creds : SetCredential(t, c)
    BY <1>2 DEF Load
  <2>2. Done(t, TRUE)
    BY <2>1 DEF Done
  <2> QED
    BY <2>1, <2>2, KeyDone DEF FidoStep, Ops
<1>3. CASE NoCredential(t)
  <2>1. At(t, "load") /\ Done(t, FALSE) /\ UNCHANGED <<fidoVars, header, stored>>
    BY <1>3 DEF NoCredential
  <2> QED
    BY <2>1, KeyDone DEF FidoStep, Ops
<1>4. CASE AskForTouch(t)
  <2>1. Fido' /\ Kept
    BY <1>4, FidoSteps DEF Inv, AskForTouch, FidoStep
  <2>2. UNCHANGED <<open, file, slot, stored, call, todo, idle, prompts>>
    BY <1>4 DEF AskForTouch, callVars, header, calls, window
  <2>3. CallTypes' /\ Prepared' /\ Announced'
    BY <2>1, <2>2, Quiet DEF Inv, CallTypes, Planned, Enrolling, Stays, Queued
  <2>4. HeaderTypes' /\ Planned'
    BY <2>2 DEF Inv, HeaderTypes, Planned
  <2>5. EnrolledKeyExists'
    BY <2>1, <2>2, NothingNewAsked
  <2> QED
    BY <2>1, <2>3, <2>4, <2>5 DEF Inv
<1>5. CASE NotAsked(t)
  <2>1. PICK op \in {"create", "challenge"} :
            At(t, op) /\ Refused(t) /\ Done(t, FALSE) /\ UNCHANGED <<header, stored>>
    BY <1>5 DEF NotAsked, Touch
  <2> QED
    BY <2>1, KeyDone DEF FidoStep, Ops
<1>6. CASE Touched(t)
  <2>1. PICK ok \in BOOLEAN :
            /\ \/ At(t, "create") /\ CreateCredential(t, t, ok)
               \/ At(t, "challenge") /\ ChallengeResponse(t, ok)
            /\ Done(t, ok) /\ UNCHANGED <<header, stored>>
    BY <1>6 DEF Touched
  <2>2. CASE At(t, "create") /\ CreateCredential(t, t, ok)
    <3>1. t # Main
      <4>1. todo[t] # <<>> /\ Head(todo[t]) = "create" /\ todo[t] \in Seq(Ops)
        BY <2>2 DEF At, NextOp, Inv, CallTypes
      <4> QED
        BY <4>1, StepDone DEF Inv, Planned
    <3>2. t \in CallIds /\ (ok => Held(t)')
      BY <2>2, <3>1, MakesCredential DEF Inv
    <3> QED
      BY <2>1, <2>2, <3>2, KeyDone DEF FidoStep, Ops
  <2>3. CASE At(t, "challenge") /\ ChallengeResponse(t, ok)
    BY <2>1, <2>3, KeyDone DEF FidoStep, Ops
  <2> QED
    BY <2>1, <2>2, <2>3
<1> QED
  BY <1>1, <1>2, <1>3, <1>4, <1>5, <1>6 DEF KeyStep

-----------------------------------------------------------------------------
(* The main thread *)

\* Steps that leave the calls and the queue alone, and give the main thread a
\* plan that makes no credential.
LEMMA MainStep ==
    ASSUME Inv, UNCHANGED <<fidoVars, stored, window>>,
           call' = call \/ call' = Moved(call),
           todo' = todo \/ (\E plan \in Seq(Ops) :
                                todo' = [todo EXCEPT ![Main] = plan] /\ Harmless(plan)),
           open' \in BOOLEAN, file' \in Files, stored'[file'] # NoFile,
           slot' \in {slot, NoCred} \/ (slot' = stored[file] /\ file' = file)
    PROVE  Inv'
<1>1. Fido' /\ Kept
  BY KeysAlone
<1>2. UNCHANGED <<stored, idle, prompts>>
  BY DEF window
<1>3. HeaderTypes'
  BY <1>2 DEF Inv, HeaderTypes
<1>4. /\ call' \in [CallIds -> [kind : Kinds, stage : Stages, moved : BOOLEAN]]
      /\ \A d \in CallIds : call'[d].stage = call[d].stage /\ call'[d].kind = call[d].kind
  BY Moving DEF Inv, CallTypes
<1>5. /\ todo' \in [Threads -> Seq(Ops)] /\ Planned'
      /\ \A d \in CallIds : todo'[d] = todo[d]
  <2>1. todo \in [Threads -> Seq(Ops)] /\ Harmless(todo[Main])
    BY DEF Inv, CallTypes, Planned
  <2>2. CASE todo' = todo
    BY <2>1, <2>2 DEF Planned
  <2>3. CASE \E plan \in Seq(Ops) : todo' = [todo EXCEPT ![Main] = plan] /\ Harmless(plan)
    <3>1. PICK plan \in Seq(Ops) : todo' = [todo EXCEPT ![Main] = plan] /\ Harmless(plan)
      BY <2>3
    <3>2. todo'[Main] = plan /\ todo' \in [Threads -> Seq(Ops)]
      BY <2>1, <3>1
    <3> QED
      BY <2>1, <3>1, <3>2 DEF Planned
  <2> QED
    BY <2>2, <2>3
<1>6. CallTypes' /\ Prepared' /\ Announced'
  <2>1. Stays /\ Queued
    BY <1>2, <1>4 DEF Stays, Queued
  <2>2. \A d \in CallIds : Enrolling(d)' => Enrolling(d) /\ todo'[d] = todo[d]
    BY <1>4, <1>5 DEF Enrolling
  <2>3. prompts' \in SUBSET CallIds
    BY <1>2 DEF Inv, CallTypes
  <2> QED
    BY <1>1, <1>4, <1>5, <2>1, <2>2, <2>3, Quiet DEF Inv
<1>7. EnrolledKeyExists'
  <2>1. \A c \in Creds : slot' = c => slot = c \/ \E f \in Files : stored[f] = c
    BY DEF Inv, HeaderTypes
  <2> QED
    BY <1>1, <1>2, <2>1, NothingNewAsked
<1> QED
  BY <1>1, <1>3, <1>5, <1>6, <1>7 DEF Inv

\* What the main loop does to the vault in the meantime.
LEMMA OpenSteps ==
    ASSUME Inv, (\E f \in Files : Open(f)) \/ Opened \/ Detect \/ Close \/ AddUser
    PROVE  Inv'
<1>1. CASE \E f \in Files : Open(f)
  <2>1. PICK f \in Files : Open(f)
    BY <1>1
  <2>2. stored'[file'] # NoFile /\ file' \in Files
    BY <2>1 DEF Open
  <2>3. \E plan \in Seq(Ops) : todo' = [todo EXCEPT ![Main] = plan] /\ Harmless(plan)
    BY <2>1, Plans DEF Open
  <2> QED
    BY <2>1, <2>2, <2>3, MainStep DEF Open, Inv, HeaderTypes
<1>2. CASE Opened
  <2>1. \E plan \in Seq(Ops) : todo' = [todo EXCEPT ![Main] = plan] /\ Harmless(plan)
    BY <1>2, Plans DEF Opened, Stops
  <2> QED
    BY <1>2, <2>1, MainStep DEF Opened, Inv, HeaderTypes
<1>3. CASE Detect
  <2>1. \E plan \in Seq(Ops) : todo' = [todo EXCEPT ![Main] = plan] /\ Harmless(plan)
    BY <1>3, Plans DEF Detect
  <2> QED
    BY <1>3, <2>1, MainStep DEF Detect, Inv, HeaderTypes, header
<1>4. CASE Close \/ AddUser
  BY <1>4, MainStep DEF Close, AddUser, Inv, HeaderTypes, header
<1> QED
  BY <1>1, <1>2, <1>3, <1>4

\* Saving changes what is stored, to what the slot asks for.
LEMMA SaveStep == ASSUME Inv, Save PROVE Inv'
<1>1. Fido' /\ Kept
  BY KeysAlone DEF Save
<1>2. UNCHANGED <<open, file, slot, call, todo, idle, prompts>>
  BY DEF Save, header, calls, window
<1>3. /\ stored' \in [Files -> Creds \cup {NoCred, NoFile}]
      /\ \A f \in Files : stored'[f] = (IF f = file THEN slot ELSE stored[f])
      /\ slot # NoFile
  BY DEF Inv, HeaderTypes, Save
<1>4. HeaderTypes' /\ Planned'
  BY <1>2, <1>3 DEF Inv, HeaderTypes, Planned
<1>5. CallTypes' /\ Prepared' /\ Announced'
  <2>1. Stays /\ Queued
    BY <1>2, <1>3 DEF Stays, Queued
  <2> QED
    BY <1>1, <1>2, <2>1, Quiet DEF Inv, CallTypes, Planned, Enrolling
<1>6. EnrolledKeyExists'
  BY <1>1, <1>2, <1>3, NothingNewAsked
<1> QED
  BY <1>1, <1>4, <1>5, <1>6 DEF Inv

\* The main loop shows that a touch is due.
LEMMA ProgressStep == ASSUME Inv, Progress PROVE Inv'
<1>1. Fido' /\ Kept
  BY KeysAlone DEF Progress
<1>2. UNCHANGED <<open, file, slot, stored, call, todo>>
  BY DEF Progress, header, calls
<1>3. Head(idle).call \in CallIds /\ idle # <<>> /\ idle' = Tail(idle)
  <2>1. idle \in Seq(Events) /\ idle # <<>>
    BY DEF Inv, CallTypes, Progress
  <2>2. Head(idle) \in Events
    BY <2>1
  <2> QED
    BY <2>1, <2>2 DEF Events, Progress
<1>4. prompts' \in SUBSET CallIds
  BY <1>3 DEF Progress, Inv, CallTypes
<1>5. CallTypes' /\ Prepared' /\ Announced'
  <2>1. Stays /\ Queued
    BY <1>2, <1>3 DEF Stays, Queued
  <2> QED
    BY <1>1, <1>2, <1>4, <2>1, Quiet DEF Inv, CallTypes, Planned, Enrolling
<1>6. HeaderTypes' /\ Planned'
  BY <1>2 DEF Inv, HeaderTypes, Planned
<1>7. EnrolledKeyExists'
  BY <1>1, <1>2, NothingNewAsked
<1> QED
  BY <1>1, <1>5, <1>6, <1>7 DEF Inv

\* The main loop takes a call's end from the queue.
LEMMA CompletionStep == ASSUME Inv, Completion PROVE Inv'
<1>1. Fido' /\ Kept
  BY KeysAlone DEF Completion
<1>0. PICK e, c : e = Head(idle) /\ c = e.call
  OBVIOUS
<1>2. idle \in Seq(Events) /\ idle # <<>> /\ e \in Events /\ Announces(e)
  <2>1. idle \in Seq(Events) /\ idle # <<>>
    BY DEF Inv, CallTypes, Completion
  <2>2. e = idle[1] /\ 1 \in 1..Len(idle) /\ e \in Events
    BY <1>0, <2>1
  <2> QED
    BY <2>1, <2>2 DEF Inv, Announced
<1>3. c \in CallIds /\ e.kind = "done" /\ call[c].stage # "none" /\ c \in Files /\ c # NoFile
  BY <1>0, <1>2 DEF Events, Completion, Announces, Files
<1>4. call[c] \in [kind : Kinds, stage : Stages, moved : BOOLEAN]
  BY <1>3 DEF Inv, CallTypes
<1>5. /\ prompts' = prompts \ {c} /\ UNCHANGED <<fidoVars, todo>> /\ idle' = Tail(idle)
  BY <1>0 DEF Completion
<1>6. CASE e.ok /\ call[c].kind = "create"
  <2>1. /\ open' = TRUE /\ file' = c /\ slot' = c /\ UNCHANGED stored
        /\ call' = Moved([call EXCEPT ![c].stage = "over"])
    BY <1>0, <1>6 DEF Completion
  <2>2. Held(c)' /\ stored[c] # NoFile
    BY <1>0, <1>1, <1>2, <1>3, <1>6 DEF Announces, Kept
  <2> DEFINE done == [call EXCEPT ![c].stage = "over"]
  <2>3. /\ done \in [CallIds -> [kind : Kinds, stage : Stages, moved : BOOLEAN]]
        /\ done[c].stage = "over" /\ done[c].kind = call[c].kind
        /\ \A d \in CallIds \ {c} : done[d] = call[d]
    <3>1. [call[c] EXCEPT !.stage = "over"] \in [kind : Kinds, stage : Stages, moved : BOOLEAN]
      BY <1>4 DEF Stages
    <3>2. done = [call EXCEPT ![c] = [@ EXCEPT !.stage = "over"]]
      BY <1>3 DEF Inv, CallTypes
    <3> QED
      BY <1>3, <1>4, <3>1, <3>2 DEF Inv, CallTypes
  <2>4. call' = Moved(done)
    BY <2>1
  <2> HIDE DEF done
  <2>5. /\ call' \in [CallIds -> [kind : Kinds, stage : Stages, moved : BOOLEAN]]
        /\ \A d \in CallIds : call'[d].kind = done[d].kind /\ call'[d].stage = done[d].stage
    BY <2>3, <2>4, Moving DEF Inv
  <2>6. CallTypes' /\ Prepared' /\ Announced'
    <3>1. Stays /\ Queued
      BY <1>2, <1>5, <2>1, <2>3, <2>5 DEF Stays, Queued
    <3>2. \A d \in CallIds : Enrolling(d)' => Enrolling(d) /\ todo'[d] = todo[d]
      BY <1>5, <2>3, <2>5 DEF Enrolling
    <3> QED
      BY <1>1, <1>5, <2>5, <3>1, <3>2, Quiet DEF Inv, CallTypes, Planned
  <2>7. HeaderTypes' /\ Planned'
    BY <1>3, <1>5, <2>1, <2>2 DEF Inv, HeaderTypes, Planned
  <2>8. EnrolledKeyExists'
    BY <1>1, <2>1, <2>2, NothingNewAsked
  <2> QED
    BY <1>1, <2>6, <2>7, <2>8 DEF Inv
<1>7. CASE ~(e.ok /\ call[c].kind = "create")
  <2>1. /\ stored' = IF e.ok /\ call[c].kind = "enroll" /\ open
                     THEN [stored EXCEPT ![file] = slot] ELSE stored
        /\ Staged(c, "over") /\ UNCHANGED <<open, file, slot>>
    BY <1>0, <1>7 DEF Completion, header
  <2>2. /\ call' \in [CallIds -> [kind : Kinds, stage : Stages, moved : BOOLEAN]]
        /\ call'[c].stage = "over" /\ call'[c].kind = call[c].kind
        /\ \A d \in CallIds \ {c} : call'[d] = call[d]
    <3>1. call' = [call EXCEPT ![c] = [@ EXCEPT !.stage = "over", !.moved = FALSE]]
      BY <1>3, <2>1 DEF Inv, CallTypes, Staged
    <3>2. [call[c] EXCEPT !.stage = "over", !.moved = FALSE]
              \in [kind : Kinds, stage : Stages, moved : BOOLEAN]
      BY <1>4 DEF Stages
    <3> QED
      BY <1>3, <1>4, <3>1, <3>2 DEF Inv, CallTypes
  <2>3. /\ stored' \in [Files -> Creds \cup {NoCred, NoFile}]
        /\ \A f \in Files : stored'[f] = stored[f] \/ (f = file /\ stored'[f] = slot)
        /\ slot # NoFile
    BY <2>1 DEF Inv, HeaderTypes
  <2>4. CallTypes' /\ Prepared' /\ Announced'
    <3>1. Stays /\ Queued
      BY <1>2, <1>5, <2>2, <2>3 DEF Stays, Queued
    <3>2. \A d \in CallIds : Enrolling(d)' => Enrolling(d) /\ todo'[d] = todo[d]
      BY <1>5, <2>2 DEF Enrolling
    <3> QED
      BY <1>1, <1>5, <2>2, <3>1, <3>2, Quiet DEF Inv, CallTypes, Planned
  <2>5. HeaderTypes' /\ Planned'
    BY <1>5, <2>1, <2>3 DEF Inv, HeaderTypes, Planned
  <2>6. EnrolledKeyExists'
    BY <1>1, <2>1, <2>3, NothingNewAsked
  <2> QED
    BY <1>1, <2>4, <2>5, <2>6 DEF Inv
<1> QED
  BY <1>6, <1>7

\* A key that comes or goes, and a step that changes nothing.
LEMMA EnvironmentStep ==
    ASSUME Inv, (\E t \in Threads : FidoStep(t)), UNCHANGED callVars
    PROVE  Inv'
<1>1. Fido' /\ Kept
  BY FidoSteps DEF Inv
<1>2. UNCHANGED <<open, file, slot, stored, call, todo, idle, prompts>>
  BY DEF callVars, header, calls, window
<1>3. CallTypes' /\ Prepared' /\ Announced'
  BY <1>1, <1>2, Quiet DEF Inv, CallTypes, Planned, Enrolling, Stays, Queued
<1>4. HeaderTypes' /\ Planned'
  BY <1>2 DEF Inv, HeaderTypes, Planned
<1>5. EnrolledKeyExists'
  BY <1>1, <1>2, NothingNewAsked
<1> QED
  BY <1>1, <1>3, <1>4, <1>5 DEF Inv

-----------------------------------------------------------------------------
(* The theorems *)

\* At first no vault is open and no call runs.
LEMMA Initially == Init => Inv
<1> SUFFICES ASSUME Init PROVE Inv
  OBVIOUS
<1>1. Fido
  BY DEF Init, FidoInit, Fido, FidoTypeOK, DeviceUnderMutex
<1>2. HeaderTypes
  BY DEF Init, HeaderTypes, Files
<1>3. CallTypes
  BY DEF Init, CallTypes, Kinds, Stages
<1>4. Planned /\ Prepared /\ Announced
  BY DEF Init, Planned, Harmless, Prepared, Enrolling, Announced
<1>5. EnrolledKeyExists
  BY DEF Init, EnrolledKeyExists
<1> QED
  BY <1>1, <1>2, <1>3, <1>4, <1>5 DEF Inv

\* The invariant of this module.
LEMMA Invariance == Spec => []Inv
<1>1. ASSUME Inv, [Next]_vars PROVE Inv'
  <2>1. CASE \E c \in CallIds : CallStep(c) \/ \E kind \in KindsOf[c] : Start(c, kind)
    BY <1>1, <2>1, StartStep, FailStep, BeginStep, TellStep, CreatesStep, CommitStep
       DEF CallStep
  <2>2. CASE \E t \in Threads : KeyStep(t)
    BY <1>1, <2>2, KeySteps
  <2>3. CASE (\E f \in Files : Open(f)) \/ Opened \/ Detect \/ Close \/ AddUser
    BY <1>1, <2>3, OpenSteps
  <2>4. CASE Save
    BY <1>1, <2>4, SaveStep
  <2>5. CASE Callback
    BY <1>1, <2>5, ProgressStep, CompletionStep DEF Callback
  <2>6. CASE Environment \/ UNCHANGED vars
    BY <1>1, <2>6, EnvironmentStep DEF Environment, FidoStep, vars
  <2> QED
    BY <1>1, <2>1, <2>2, <2>3, <2>4, <2>5, <2>6 DEF Next
<1> QED
  BY <1>1, Initially, PTL DEF Spec

\* The types hold for any number of calls, keys and ports.
THEOREM TypeCorrect == Spec => []CallsTypeOK
<1>1. Inv => CallsTypeOK
  BY DEF Inv, Fido, HeaderTypes, CallTypes, CallsTypeOK
<1> QED
  BY <1>1, Invariance, PTL

\* No thread ever has a device open without the global mutex, whatever calls
\* run and whatever is plugged in or out.
THEOREM DevicesUnderMutex == Spec => []DeviceUnderMutex
<1>1. Inv => DeviceUnderMutex
  BY DEF Inv, Fido
<1> QED
  BY <1>1, Invariance, PTL

\* No call, finished, failed or overtaken by other calls and by the main thread,
\* leaves a vault asking for a credential that no key holds.
THEOREM EnrolledKeysExist == Spec => []EnrolledKeyExists
<1>1. Inv => EnrolledKeyExists
  BY DEF Inv
<1> QED
  BY <1>1, Invariance, PTL

=============================================================================
