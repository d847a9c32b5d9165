---------------------------- MODULE ExecutionProofs ---------------------------
(***************************************************************************)
(* Proofs about Submission, for every set of tasks, callers and keys, and  *)
(* about Execution, for any plan and any number of runs.                   *)
(*                                                                         *)
(* The gateway: a permit is a right to send one request under one key.     *)
(* For a task without a key the permit moves the row from NOT_SUBMITTED to *)
(* SUBMITTING and no second permit is ever given, so the permit, the       *)
(* request and the commitment are one token (OneToken).  For a task with a *)
(* key every permit carries the stored key (PermitsCarryTheKey), and the   *)
(* provider commits once per key (CommittedUnderKey).                      *)
(*                                                                         *)
(* The executor: Execution implements Submission, whatever runs are live   *)
(* beside each other, so these theorems hold of it.  So does what is said  *)
(* of a commitment, of the order of the steps and of a workflow's SUCCESS: *)
(* a memory may be older than the rows, but a commitment stays.            *)
(***************************************************************************)
EXTENDS Execution, TLAPS

--------------------------------------------------------------------------------
(* The gateway *)

Sending(c, t) == call[c].task = t /\ call[c].phase = "permitted"
Engaged(c, t) ==
  call[c].task = t /\ call[c].phase \in {"permitted", "waiting", "answered"}

\* Only a task whose connector derives a key ever has one.
OnlyKeyedHaveKeys ==
  /\ \A t \in Tasks : t \notin Keyed => key[t] = NoKey
  /\ \A c \in Callers : call[c].task \in Tasks \ Keyed => call[c].key = NoKey

\* A permit, and the request sent on it, carry the key stored in the row.
PermitsCarryTheKey ==
  /\ \A c \in Callers, t \in Tasks : Sending(c, t) => call[c].key = key[t]
  /\ KeyOnTheWireIsTheKeyStored

\* Without a key: one permit, or one request, or one commitment.
OneToken ==
  \A t \in WriteTasks : key[t] = NoKey =>
    /\ seen[t] = {}
    /\ committed[t] <= 1
    /\ committed[t] = 1 => /\ \A m \in inFlight : m.task # t
                           /\ \A c \in Callers : ~Sending(c, t)
    /\ \A m \in inFlight : m.task = t => \A c \in Callers : ~Sending(c, t)
    /\ \A m, n \in inFlight : m.task = t /\ n.task = t => m = n
    /\ \A c, d \in Callers : Sending(c, t) /\ Sending(d, t) => c = d

\* With a key: the provider committed at most once, and under that key.
CommittedUnderKey ==
  \A t \in WriteTasks : key[t] # NoKey =>
    \/ committed[t] = 0 /\ seen[t] = {}
    \/ committed[t] = 1 /\ seen[t] = {key[t]}

\* A caller that holds a success holds it of a commitment.
SuccessIsReal ==
  \A c \in Callers :
    call[c].phase \in {"answered", "returned"} /\ call[c].answer \in Succeeded
      /\ call[c].task \in WriteTasks => committed[call[c].task] = 1

ConfirmedIsReal ==
  \A t \in WriteTasks : evidence[t] = "ACKNOWLEDGED" => committed[t] = 1

\* A tool that only reads never gets a conclusion.
ReadOnlyUnconcluded ==
  \A t \in ReadOnly : evidence[t] \in {"NOT_SUBMITTED", "SUBMITTING"}

IInv ==
  /\ TypeOK
  /\ OnlyKeyedHaveKeys
  /\ PermitsCarryTheKey
  /\ NotSubmittedIsProof
  /\ OneToken
  /\ CommittedUnderKey
  /\ SuccessIsReal
  /\ ConfirmedIsReal
  /\ ReadOnlyUnconcluded

-------------------------------------------------------------------------------
(* Type correctness *)

\* The initial state is well typed.
LEMMA TypeInit == Init => TypeOK
BY SubmissionAssumptions DEF Init, TypeOK, Calls, NoCall, MaybeKey, Phases,
   Evidence, Answers, Messages

\* A call that moves on stays well typed, and keeps its task.
LEMMA AdvanceType ==
  ASSUME TypeOK, NEW c \in Callers, NEW p \in Phases, NEW k \in MaybeKey,
         NEW a \in Answers \cup {"none"}, call[c].task \in Tasks,
         Advance(c, p, k, a)
  PROVE  /\ call' \in [Callers -> Calls]
         /\ \A d \in Callers : call'[d].phase # "idle" => call'[d].task \in Tasks
BY DEF TypeOK, Advance, Calls

\* Calls that end are NoCall again.
LEMMA EndType ==
  ASSUME TypeOK, NEW C \in SUBSET Callers,
         call' = [c \in Callers |-> IF c \in C THEN NoCall ELSE call[c]]
  PROVE  /\ call' \in [Callers -> Calls]
         /\ \A d \in Callers : call'[d].phase # "idle" => call'[d].task \in Tasks
<1>1. NoCall \in Calls
  BY DEF NoCall, Calls, Phases, MaybeKey, Answers
<1>2. NoCall.phase = "idle"
  BY DEF NoCall
<1>3. QED
  BY <1>1, <1>2 DEF TypeOK

\* Every action keeps the types: one case per action.
LEMMA TypeStep == TypeOK /\ [Next]_vars => TypeOK'
<1> SUFFICES ASSUME TypeOK, [Next]_vars PROVE TypeOK'
  OBVIOUS
<1> USE SubmissionAssumptions DEF rowVars, providerVars
<1>1. ASSUME Rows PROVE TypeOK'
  BY <1>1 DEF TypeOK, Rows, CreateTask, UpdateTaskStatus,
     ReopenCancelledTasks, Reopenable, CancelOpenTasks, Unfinished,
     SupersedeTaskWithNewAttempt, Statuses
<1>2. ASSUME NEW c \in Callers, Gateway(c) PROVE TypeOK'
  <2>1. ASSUME NEW t \in Tasks, NEW k \in MaybeKey, NEW b \in BOOLEAN,
               EnterGateway(c, t, k, b)
        PROVE  TypeOK'
    BY <2>1 DEF EnterGateway, TypeOK, Calls, Phases, Answers
  <2>2. CASE PrepareSubmission(c) \/ PrepareSubmissionRaises(c)
    <3>1. call[c].task \in Tasks /\ call[c].key \in MaybeKey
      BY <2>2 DEF PrepareSubmission, PrepareSubmissionRaises, TypeOK, Calls
    <3>2. EffectiveKey(call[c].task, call[c].key) \in MaybeKey
      BY <3>1 DEF EffectiveKey, TypeOK
    <3>3. \E p \in Phases, k \in MaybeKey, a \in Answers \cup {"none"} :
            Advance(c, p, k, a)
      BY <2>2, <3>1, <3>2 DEF PrepareSubmission, PrepareSubmissionRaises,
         Phases, Answers, Retryable, TypeOK, Calls
    <3>4. evidence' \in [Tasks -> Evidence] /\ key' \in [Tasks -> MaybeKey]
      BY <2>2, <3>1, <3>2 DEF PrepareSubmission, PrepareSubmissionRaises,
         MarkSubmitting, TypeOK, Evidence
    <3>5. QED
      BY <2>2, <3>1, <3>3, <3>4, AdvanceType
         DEF PrepareSubmission, PrepareSubmissionRaises, TypeOK
  <2>3. CASE Send(c)
    <3>1. /\ call[c].task \in Tasks
          /\ call[c].key \in MaybeKey
          /\ call[c].answer \in Answers \cup {"none"}
          /\ "waiting" \in Phases
      BY <2>3 DEF Send, TypeOK, Calls, Phases
    <3>2. RequestOf(c) \in Messages
      BY <3>1 DEF RequestOf, Messages
    <3>3. QED
      BY <2>3, <3>1, <3>2, AdvanceType DEF Send, TypeOK
  <2>4. CASE StopWaiting(c)
    <3>1. /\ call[c].task \in Tasks
          /\ call[c].key \in MaybeKey
          /\ {"timeout", "broken"} \subseteq Answers
          /\ "answered" \in Phases
      BY <2>4 DEF StopWaiting, TypeOK, Calls, Phases, Answers, Retryable
    <3>2. QED
      BY <2>4, <3>1, AdvanceType DEF StopWaiting, TypeOK
  <2>5. CASE RecordOutcome(c)
    <3>1. /\ call[c].task \in Tasks
          /\ call[c].key \in MaybeKey
          /\ call[c].answer \in Answers \cup {"none"}
          /\ "returned" \in Phases
      BY <2>5 DEF RecordOutcome, TypeOK, Calls, Phases
    <3>2. evidence' \in [Tasks -> Evidence]
      BY <2>5, <3>1 DEF RecordOutcome, EvidenceOf, TypeOK, Evidence
    <3>3. QED
      BY <2>5, <3>1, <3>2, AdvanceType DEF RecordOutcome, TypeOK
  <2>6. CASE LeaveGateway(c)
    <3>1. call' = [d \in Callers |-> IF d \in {c} THEN NoCall ELSE call[d]]
      BY <2>6 DEF LeaveGateway, TypeOK
    <3>2. QED
      BY <2>6, <3>1, EndType DEF LeaveGateway, TypeOK
  <2>7. QED
    BY <1>2, <2>1, <2>2, <2>3, <2>4, <2>5, <2>6 DEF Gateway
<1>3. ASSUME NEW m \in inFlight, ProviderAccepts(m) \/ ProviderRefuses(m)
      PROVE  TypeOK'
  <2>1. m \in Messages /\ m.task \in Tasks /\ m.caller \in Callers
    BY DEF TypeOK, Messages
  <2> DEFINE CallOK == /\ call \in [Callers -> Calls]
                       /\ \A d \in Callers :
                            call[d].phase # "idle" => call[d].task \in Tasks
  <2>2. CallOK'
    <3>1. CASE UNCHANGED call
      BY <3>1 DEF TypeOK
    <3>2. ASSUME NEW a \in Answers, Respond(m, a)
          PROVE  CallOK'
      <4>1. /\ call[m.caller].task \in Tasks
            /\ call[m.caller].key \in MaybeKey
            /\ "answered" \in Phases
        BY <2>1, <3>2 DEF Respond, TypeOK, Calls, Phases
      <4>2. QED
        BY <2>1, <3>2, <4>1, AdvanceType DEF Respond
    <3>3. UNCHANGED call \/ \E a \in Answers : Respond(m, a)
      BY <1>3 DEF ProviderAccepts, ProviderRefuses, Answers, Succeeded, Retryable
    <3>4. QED
      BY <3>1, <3>2, <3>3
  <2>3. committed' \in [Tasks -> Nat] /\ seen' \in [Tasks -> SUBSET Keys]
    BY <1>3, <2>1 DEF ProviderAccepts, ProviderRefuses, TypeOK, Messages, MaybeKey
  <2>4. QED
    BY <1>3, <2>2, <2>3 DEF ProviderAccepts, ProviderRefuses, TypeOK
<1>4. ASSUME NEW C \in SUBSET Callers, Crash(C) PROVE TypeOK'
  BY <1>4, EndType DEF Crash, TypeOK
<1>5. CASE UNCHANGED vars
  BY <1>5 DEF vars, TypeOK
<1>6. QED
  BY <1>1, <1>2, <1>3, <1>4, <1>5 DEF Next, Provider

\* Type correctness of the ledger, the calls, the wire and the provider.
THEOREM TypeCorrect == Spec => []TypeOK
<1>1. Init => TypeOK
  BY TypeInit
<1>2. TypeOK /\ [Next]_vars => TypeOK'
  BY TypeStep
<1>3. QED
  BY <1>1, <1>2, PTL DEF Spec

-------------------------------------------------------------------------------
(* The inductive invariant *)

\* The first state satisfies it.
LEMMA IInvInit == Init => IInv
<1> SUFFICES ASSUME Init PROVE IInv
  OBVIOUS
<1>1. TypeOK
  BY TypeInit
<1>2. \A c \in Callers : call[c].task = NoTask /\ call[c].phase = "idle"
  BY DEF Init, NoCall
<1>3. QED
  BY <1>1, <1>2, SubmissionAssumptions DEF Init, IInv, OnlyKeyedHaveKeys,
     PermitsCarryTheKey, KeyOnTheWireIsTheKeyStored, NotSubmittedIsProof,
     OneToken, CommittedUnderKey, SuccessIsReal, ConfirmedIsReal,
     ReadOnlyUnconcluded, Sending, WriteTasks

\* Writing the status of rows disturbs nothing but the status.
LEMMA IInvRows == ASSUME IInv, Rows PROVE IInv'
<1>1. UNCHANGED <<evidence, key, call, inFlight, committed, seen>>
  BY DEF Rows, CreateTask, UpdateTaskStatus, ReopenCancelledTasks,
     CancelOpenTasks, SupersedeTaskWithNewAttempt
<1>2. TypeOK'
  BY TypeStep DEF IInv, Next
<1>3. QED
  BY <1>1, <1>2 DEF IInv, OnlyKeyedHaveKeys, PermitsCarryTheKey,
     KeyOnTheWireIsTheKeyStored, NotSubmittedIsProof, OneToken,
     CommittedUnderKey, SuccessIsReal, ConfirmedIsReal, ReadOnlyUnconcluded,
     Sending

\* Entering and leaving the gateway, and dying in it, touch only calls that
\* end up idle or about to ask.
LEMMA IInvCall ==
  ASSUME IInv, TypeOK',
         \/ \E c \in Callers, t \in Tasks, k \in MaybeKey, b \in BOOLEAN :
              EnterGateway(c, t, k, b)
         \/ \E c \in Callers : LeaveGateway(c)
         \/ \E C \in SUBSET Callers : Crash(C)
  PROVE  IInv'
<1>1. UNCHANGED <<status, evidence, key, inFlight, committed, seen>>
  BY DEF EnterGateway, LeaveGateway, Crash, rowVars, providerVars
<1>2. \A d \in Callers :
        \/ call'[d] = call[d]
        \/ /\ call'[d].phase \in {"idle", "calling"}
           /\ call'[d].task \in Tasks \ Keyed => call'[d].key = NoKey
  <2>1. ASSUME NEW c \in Callers, NEW t \in Tasks, NEW k \in MaybeKey,
               NEW b \in BOOLEAN, EnterGateway(c, t, k, b)
        PROVE  /\ \A d \in Callers \ {c} : call'[d] = call[d]
               /\ call'[c].phase = "calling"
               /\ call'[c].task \in Tasks \ Keyed => call'[c].key = NoKey
    BY <2>1 DEF IInv, TypeOK, EnterGateway, CandidateKeys
  <2>2. ASSUME NEW d \in Callers, call'[d] = NoCall
        PROVE  /\ call'[d].phase = "idle"
               /\ call'[d].task \in Tasks \ Keyed => call'[d].key = NoKey
    BY <2>2 DEF NoCall
  <2>3. ASSUME NEW c \in Callers, LeaveGateway(c)
        PROVE  \A d \in Callers : call'[d] \in {call[d], NoCall}
    BY <2>3 DEF IInv, TypeOK, LeaveGateway
  <2>4. ASSUME NEW C \in SUBSET Callers, Crash(C)
        PROVE  \A d \in Callers : call'[d] \in {call[d], NoCall}
    BY <2>4 DEF Crash
  <2>5. QED
    BY <2>1, <2>2, <2>3, <2>4
<1>3. QED
  BY <1>1, <1>2 DEF IInv, OnlyKeyedHaveKeys, PermitsCarryTheKey,
     KeyOnTheWireIsTheKeyStored, NotSubmittedIsProof, OneToken,
     CommittedUnderKey, SuccessIsReal, ConfirmedIsReal, ReadOnlyUnconcluded,
     Sending

\* Sending spends the permit: the token moves from the caller to the wire.
LEMMA IInvSend == ASSUME IInv, NEW c \in Callers, Send(c) PROVE IInv'
<1> DEFINE t == call[c].task
<1>1. TypeOK'
  BY TypeStep DEF IInv, Next, Gateway
<1>2. UNCHANGED <<status, evidence, key, committed, seen>>
  BY DEF Send, rowVars, providerVars
<1>3. /\ \A d \in Callers : d # c => call'[d] = call[d]
      /\ call'[c].phase = "waiting"
      /\ call'[c].task = t
      /\ call'[c].key = call[c].key
  BY DEF Send, Advance, IInv, TypeOK
<1>4. t \in Tasks /\ Sending(c, t) /\ RequestOf(c).task = t /\ RequestOf(c).key = key[t]
  BY DEF Send, Sending, RequestOf, IInv, TypeOK, PermitsCarryTheKey
<1>5. inFlight' = inFlight \cup {RequestOf(c)}
  BY DEF Send
<1>6. OneToken'
  BY <1>2, <1>3, <1>4, <1>5 DEF IInv, OneToken, Sending
<1>7. NotSubmittedIsProof' /\ PermitsCarryTheKey' /\ OnlyKeyedHaveKeys'
  BY <1>2, <1>3, <1>4, <1>5 DEF IInv, NotSubmittedIsProof, PermitsCarryTheKey,
     KeyOnTheWireIsTheKeyStored, OnlyKeyedHaveKeys, Sending
<1>8. QED
  BY <1>1, <1>2, <1>3, <1>6, <1>7 DEF IInv, CommittedUnderKey, SuccessIsReal,
     ConfirmedIsReal, ReadOnlyUnconcluded

\* A caller that stops waiting holds no success; its request stays.
LEMMA IInvStopWaiting == ASSUME IInv, NEW c \in Callers, StopWaiting(c) PROVE IInv'
<1>1. TypeOK'
  BY TypeStep DEF IInv, Next, Gateway
<1>2. UNCHANGED <<status, evidence, key, inFlight, committed, seen>>
  BY DEF StopWaiting, rowVars, providerVars
<1>3. /\ \A d \in Callers : d # c => call'[d] = call[d]
      /\ call'[c].phase = "answered" /\ call[c].phase = "waiting"
      /\ call'[c].task = call[c].task
      /\ call'[c].key = call[c].key
      /\ call'[c].answer \notin Succeeded
  BY DEF StopWaiting, Advance, IInv, TypeOK, Succeeded
<1>4. QED
  BY <1>1, <1>2, <1>3 DEF IInv, OnlyKeyedHaveKeys, PermitsCarryTheKey, KeyOnTheWireIsTheKeyStored,
     NotSubmittedIsProof, OneToken, CommittedUnderKey, SuccessIsReal,
     ConfirmedIsReal, ReadOnlyUnconcluded, Sending

\* A recorded conclusion is one the caller's answer supports.
LEMMA IInvRecord == ASSUME IInv, NEW c \in Callers, RecordOutcome(c) PROVE IInv'
<1> DEFINE t == call[c].task
<1>1. TypeOK'
  BY TypeStep DEF IInv, Next, Gateway
<1>2. UNCHANGED <<status, key, inFlight, committed, seen>>
  BY DEF RecordOutcome, providerVars
<1>3. /\ \A d \in Callers : d # c => call'[d] = call[d]
      /\ call'[c].phase = "returned" /\ call[c].phase = "answered"
      /\ call'[c].task = t /\ t \in Tasks
      /\ call'[c].answer = call[c].answer
      /\ call'[c].key = call[c].key
  BY DEF RecordOutcome, Advance, IInv, TypeOK
<1>4. \/ UNCHANGED evidence
      \/ evidence' = [evidence EXCEPT ![t] = EvidenceOf(t, call[c].answer)]
  BY DEF RecordOutcome, Unconcluded
<1>5. t \in WriteTasks /\ EvidenceOf(t, call[c].answer) = "ACKNOWLEDGED"
        => committed[t] = 1
  BY <1>3 DEF IInv, SuccessIsReal, EvidenceOf, Succeeded
<1>6. t \in WriteTasks => EvidenceOf(t, call[c].answer) # "NOT_SUBMITTED"
  BY DEF EvidenceOf, WriteTasks
<1>7. t \in ReadOnly => EvidenceOf(t, call[c].answer) = "NOT_SUBMITTED"
  BY DEF EvidenceOf
<1>8. NotSubmittedIsProof' /\ ConfirmedIsReal' /\ ReadOnlyUnconcluded'
  BY <1>2, <1>3, <1>4, <1>5, <1>6, <1>7, SubmissionAssumptions DEF IInv, TypeOK,
     NotSubmittedIsProof, ConfirmedIsReal, ReadOnlyUnconcluded, WriteTasks
<1>9. QED
  BY <1>1, <1>2, <1>3, <1>8 DEF IInv, OnlyKeyedHaveKeys, PermitsCarryTheKey,
     KeyOnTheWireIsTheKeyStored, OneToken, CommittedUnderKey, SuccessIsReal, Sending

\* Where a permit is given to a task without a key, nothing was sent before:
\* the row said NOT_SUBMITTED, and that is proof.
LEMMA PermitIsFirst ==
  ASSUME IInv, NEW t \in Tasks, NEW k \in MaybeKey, Permitted(t, k), key[t] = NoKey,
         t \in WriteTasks
  PROVE  /\ evidence[t] = "NOT_SUBMITTED"
         /\ committed[t] = 0 /\ seen[t] = {}
         /\ \A m \in inFlight : m.task # t
         /\ \A d \in Callers : ~Engaged(d, t)
<1>1. evidence[t] = "NOT_SUBMITTED"
  BY DEF Permitted, IInv, TypeOK, Evidence, TerminalEvidence
<1>2. QED
  BY <1>1 DEF IInv, NotSubmittedIsProof, OneToken, Engaged

\* Granting a permit, refusing it, or failing while asking for it.
LEMMA IInvPrepare ==
  ASSUME IInv, NEW c \in Callers, PrepareSubmission(c) \/ PrepareSubmissionRaises(c)
  PROVE  IInv'
<1> DEFINE t == call[c].task
           k == call[c].key
           e == EffectiveKey(t, k)
<1>1. TypeOK'
  BY TypeStep DEF IInv, Next, Gateway
<1>2. UNCHANGED <<status, inFlight, committed, seen>>
  BY DEF PrepareSubmission, PrepareSubmissionRaises, providerVars
<1>3. /\ \A d \in Callers : d # c => call'[d] = call[d]
      /\ call'[c].task = t
      /\ call'[c].phase \in {"permitted", "returned"}
      /\ call'[c].phase = "returned" => call'[c].answer \notin Succeeded
      /\ call[c].phase = "calling"
      /\ t \in Tasks /\ k \in MaybeKey
  BY DEF PrepareSubmission, PrepareSubmissionRaises, Advance, IInv, TypeOK, Calls,
     Succeeded
<1>4. \/ UNCHANGED <<evidence, key>> /\ call'[c].phase = "returned" /\ call'[c].key = k
      \/ /\ Permitted(t, k) /\ MarkSubmitting(t, k)
         /\ \/ call'[c].phase = "permitted" /\ call'[c].key = e
            \/ call'[c].phase = "returned" /\ call'[c].key = k
  BY <1>3 DEF PrepareSubmission, PrepareSubmissionRaises, Advance, IInv, TypeOK
<1>5. CASE UNCHANGED <<evidence, key>> /\ call'[c].phase = "returned" /\ call'[c].key = k
  BY <1>1, <1>2, <1>3, <1>5 DEF IInv, OnlyKeyedHaveKeys, PermitsCarryTheKey, KeyOnTheWireIsTheKeyStored,
     NotSubmittedIsProof, OneToken, CommittedUnderKey, SuccessIsReal,
     ConfirmedIsReal, ReadOnlyUnconcluded, Sending
<1>6. CASE /\ Permitted(t, k) /\ MarkSubmitting(t, k)
           /\ \/ call'[c].phase = "permitted" /\ call'[c].key = e
              \/ call'[c].phase = "returned" /\ call'[c].key = k
  <2>1. /\ evidence'[t] = "SUBMITTING" /\ key'[t] = e
        /\ \A u \in Tasks : u # t => evidence'[u] = evidence[u] /\ key'[u] = key[u]
    BY <1>3, <1>6 DEF MarkSubmitting, IInv, TypeOK
  <2>2. key[t] # NoKey => e = key[t]
    BY DEF EffectiveKey
  <2>3. t \notin Keyed => k = NoKey /\ key[t] = NoKey /\ e = NoKey
    BY <1>3 DEF IInv, OnlyKeyedHaveKeys, EffectiveKey
  <2>4. OnlyKeyedHaveKeys'
    BY <1>3, <1>6, <2>1, <2>3 DEF IInv, OnlyKeyedHaveKeys
  <2>5. t \in WriteTasks /\ key[t] = NoKey =>
          /\ committed[t] = 0 /\ seen[t] = {}
          /\ \A m \in inFlight : m.task # t
          /\ \A d \in Callers : ~Engaged(d, t)
    BY <1>3, <1>6, PermitIsFirst
  <2>6. PermitsCarryTheKey'
    <3>1. t \in ReadOnly => e = key[t]
      BY <2>2, <2>3, SubmissionAssumptions DEF WriteTasks
    <3>2. key[t] = e \/ (/\ \A m \in inFlight : m.task # t
                         /\ \A d \in Callers : ~Engaged(d, t))
      BY <1>3, <2>2, <2>5, <3>1 DEF WriteTasks
    <3>3. QED
      BY <1>1, <1>2, <1>3, <1>6, <2>1, <3>2 DEF IInv, PermitsCarryTheKey,
         KeyOnTheWireIsTheKeyStored, Sending, Engaged, TypeOK, Messages
  <2>7. NotSubmittedIsProof' /\ ConfirmedIsReal' /\ ReadOnlyUnconcluded'
    BY <1>2, <1>3, <2>1, SubmissionAssumptions
       DEF IInv, NotSubmittedIsProof, ConfirmedIsReal, ReadOnlyUnconcluded, WriteTasks
  <2>8. OneToken'
    <3> SUFFICES ASSUME NEW u \in WriteTasks, key'[u] = NoKey
                 PROVE  /\ seen[u] = {}
                        /\ committed[u] <= 1
                        /\ committed[u] = 1 =>
                             /\ \A m \in inFlight : m.task # u
                             /\ \A d \in Callers : ~Sending(d, u)'
                        /\ \A m \in inFlight :
                             m.task = u => \A d \in Callers : ~Sending(d, u)'
                        /\ \A m, n \in inFlight :
                             m.task = u /\ n.task = u => m = n
                        /\ \A d1, d2 \in Callers :
                             Sending(d1, u)' /\ Sending(d2, u)' => d1 = d2
      BY <1>2 DEF OneToken
    <3>1. CASE u = t
      BY <1>3, <2>1, <2>2, <2>5, <3>1 DEF Sending, Engaged
    <3>2. CASE u # t
      BY <1>3, <2>1, <3>2 DEF IInv, OneToken, Sending, WriteTasks
    <3>3. QED
      BY <3>1, <3>2
  <2>9. CommittedUnderKey' /\ SuccessIsReal'
    BY <1>2, <1>3, <2>1, <2>2, <2>5
       DEF IInv, CommittedUnderKey, SuccessIsReal, WriteTasks
  <2>10. QED
    BY <1>1, <2>4, <2>6, <2>7, <2>8, <2>9 DEF IInv
<1>7. QED
  BY <1>4, <1>5, <1>6

\* A response changes one caller's call, from waiting to answered.
LEMMA RespondEffect ==
  ASSUME TypeOK, NEW m \in inFlight, NEW a \in Answers, Respond(m, a)
  PROVE  /\ m.caller \in Callers
         /\ \A d \in Callers : d # m.caller => call'[d] = call[d]
         /\ call[m.caller].phase = "waiting" /\ call'[m.caller].phase = "answered"
         /\ call[m.caller].task = m.task /\ call'[m.caller].task = m.task
         /\ call'[m.caller].key = call[m.caller].key
         /\ call'[m.caller].answer = a
BY DEF TypeOK, Messages, Respond, RequestOf, Advance

\* A refusal, or a lost request, takes the request off the wire.
LEMMA IInvRefuses == ASSUME IInv, NEW m \in inFlight, ProviderRefuses(m) PROVE IInv'
<1>1. TypeOK'
  BY TypeStep DEF IInv, Next, Provider
<1>2. /\ UNCHANGED <<status, evidence, key, committed, seen>>
      /\ inFlight' \subseteq inFlight
  BY DEF ProviderRefuses, rowVars, providerVars
<1>3. CASE UNCHANGED call
  BY <1>1, <1>2, <1>3 DEF IInv, OnlyKeyedHaveKeys, PermitsCarryTheKey, KeyOnTheWireIsTheKeyStored,
     NotSubmittedIsProof, OneToken, CommittedUnderKey, SuccessIsReal,
     ConfirmedIsReal, ReadOnlyUnconcluded, Sending
<1>4. ASSUME NEW a \in Answers, a \notin Succeeded, Respond(m, a) PROVE IInv'
  BY <1>1, <1>2, <1>4, RespondEffect DEF IInv, OnlyKeyedHaveKeys, PermitsCarryTheKey, KeyOnTheWireIsTheKeyStored,
     NotSubmittedIsProof, OneToken, CommittedUnderKey, SuccessIsReal,
     ConfirmedIsReal, ReadOnlyUnconcluded, Sending
<1>5. QED
  BY <1>3, <1>4 DEF ProviderRefuses, Answers, Retryable, Succeeded

\* The provider commits at most once more, and only when it never did.
LEMMA IInvAccepts == ASSUME IInv, NEW m \in inFlight, ProviderAccepts(m) PROVE IInv'
<1> DEFINE t == m.task
<1>1. TypeOK'
  BY TypeStep DEF IInv, Next, Provider
<1>2. /\ UNCHANGED <<status, evidence, key>>
      /\ inFlight' = inFlight \ {m}
      /\ t \in Tasks /\ m.key = key[t]
  BY DEF ProviderAccepts, rowVars, IInv, TypeOK, Messages, PermitsCarryTheKey,
     KeyOnTheWireIsTheKeyStored
<1> DEFINE OnlyAnswered ==
             \A d \in Callers :
               \/ call'[d] = call[d]
               \/ /\ call[d].phase = "waiting" /\ call'[d].phase = "answered"
                  /\ call[d].task = t /\ call'[d].task = t
                  /\ call'[d].key = call[d].key
<1>3. OnlyAnswered
  <2>1. CASE UNCHANGED call
    BY <2>1
  <2>2. ASSUME NEW a \in Answers, Respond(m, a) PROVE OnlyAnswered
    BY <2>2, RespondEffect DEF IInv
  <2>3. QED
    BY <2>1, <2>2 DEF ProviderAccepts, Answers, Succeeded
<1>4. \A u \in Tasks : u # t => committed'[u] = committed[u] /\ seen'[u] = seen[u]
  BY DEF ProviderAccepts, IInv, TypeOK
<1>5. t \in WriteTasks =>
        IF key[t] = NoKey THEN /\ committed[t] = 0 /\ committed'[t] = 1
                               /\ seen'[t] = {}
                          ELSE /\ committed'[t] = 1 /\ seen'[t] = {key[t]}
  <2>1. ASSUME t \in WriteTasks, key[t] = NoKey
        PROVE  committed[t] = 0 /\ committed'[t] = 1 /\ seen'[t] = {}
    <3>1. committed[t] = 0 /\ seen[t] = {}
      BY <1>2, <2>1 DEF IInv, OneToken, TypeOK
    <3>2. QED
      BY <1>2, <2>1, <3>1 DEF ProviderAccepts, IInv, TypeOK, WriteTasks
  <2>2. ASSUME t \in WriteTasks, key[t] # NoKey
        PROVE  committed'[t] = 1 /\ seen'[t] = {key[t]}
    <3>1. \/ committed[t] = 0 /\ seen[t] = {}
          \/ committed[t] = 1 /\ seen[t] = {key[t]}
      BY <2>2 DEF IInv, CommittedUnderKey
    <3>2. QED
      BY <1>2, <2>2, <3>1 DEF ProviderAccepts, IInv, TypeOK, WriteTasks
  <2>3. QED
    BY <2>1, <2>2
<1>6. OnlyKeyedHaveKeys' /\ PermitsCarryTheKey' /\ ReadOnlyUnconcluded'
  BY <1>2, <1>3 DEF IInv, OnlyKeyedHaveKeys, PermitsCarryTheKey,
     KeyOnTheWireIsTheKeyStored, ReadOnlyUnconcluded, Sending
<1>7. NotSubmittedIsProof'
  BY <1>2, <1>3, <1>4 DEF IInv, NotSubmittedIsProof, WriteTasks
<1>8. OneToken'
  <2> SUFFICES ASSUME NEW u \in WriteTasks, key[u] = NoKey
               PROVE  /\ seen'[u] = {}
                      /\ committed'[u] <= 1
                      /\ committed'[u] = 1 =>
                           /\ \A n \in inFlight' : n.task # u
                           /\ \A d \in Callers : ~Sending(d, u)'
                      /\ \A n \in inFlight' :
                           n.task = u => \A d \in Callers : ~Sending(d, u)'
                      /\ \A n1, n2 \in inFlight' :
                           n1.task = u /\ n2.task = u => n1 = n2
                      /\ \A d1, d2 \in Callers :
                           Sending(d1, u)' /\ Sending(d2, u)' => d1 = d2
    BY <1>2 DEF OneToken
  <2>1. CASE u = t
    BY <1>2, <1>3, <1>5, <2>1 DEF IInv, OneToken, Sending
  <2>2. CASE u # t
    BY <1>2, <1>3, <1>4, <2>2 DEF IInv, OneToken, WriteTasks, Sending
  <2>3. QED
    BY <2>1, <2>2
<1>9. CommittedUnderKey' /\ ConfirmedIsReal'
  BY <1>2, <1>4, <1>5 DEF IInv, CommittedUnderKey, ConfirmedIsReal, WriteTasks
<1>10. SuccessIsReal'
  BY <1>3, <1>4, <1>5 DEF IInv, SuccessIsReal, WriteTasks
<1>11. QED
  BY <1>1, <1>6, <1>7, <1>8, <1>9, <1>10 DEF IInv

\* The invariant is inductive.
LEMMA IInvStep == IInv /\ [Next]_vars => IInv'
<1> SUFFICES ASSUME IInv, [Next]_vars PROVE IInv'
  OBVIOUS
<1>1. CASE Rows
  BY <1>1, IInvRows
<1>2. ASSUME NEW c \in Callers, Gateway(c) PROVE IInv'
  <2>1. TypeOK'
    BY <1>2, TypeStep DEF IInv, Next
  <2>2. QED
    BY <1>2, <2>1, IInvCall, IInvPrepare, IInvSend, IInvStopWaiting, IInvRecord
       DEF Gateway
<1>3. CASE Provider
  BY <1>3, IInvAccepts, IInvRefuses DEF Provider
<1>4. ASSUME NEW C \in SUBSET Callers, Crash(C) PROVE IInv'
  <2>1. TypeOK'
    BY <1>4, TypeStep DEF IInv, Next
  <2>2. QED
    BY <1>4, <2>1, IInvCall
<1>5. CASE UNCHANGED vars
  <2>1. TypeOK'
    BY TypeStep DEF IInv
  <2>2. QED
    BY <1>5, <2>1 DEF vars, IInv, OnlyKeyedHaveKeys, PermitsCarryTheKey,
       KeyOnTheWireIsTheKeyStored, NotSubmittedIsProof, OneToken,
       CommittedUnderKey, SuccessIsReal, ConfirmedIsReal, ReadOnlyUnconcluded,
       Sending
<1>6. QED
  BY <1>1, <1>2, <1>3, <1>4, <1>5 DEF Next

\* It holds in every reachable state.
LEMMA IInvHolds == Spec => []IInv
<1>1. Init => IInv
  BY IInvInit
<1>2. IInv /\ [Next]_vars => IInv'
  BY IInvStep
<1>3. QED
  BY <1>1, <1>2, PTL DEF Spec

-------------------------------------------------------------------------------
(* The theorems *)

\* A write task's provider commits at most once, for any number of callers,
\* keys, retries, crashes and late requests.
THEOREM NoDoubleCommitment == Spec => []AtMostOneCommitment
<1>1. IInv => AtMostOneCommitment
  BY DEF IInv, OneToken, CommittedUnderKey, AtMostOneCommitment, TypeOK
<1>2. QED
  BY <1>1, IInvHolds, PTL

\* NOT_SUBMITTED is proof that nothing left the system.
THEOREM NotSubmittedProves == Spec => []NotSubmittedIsProof
<1>1. IInv => NotSubmittedIsProof
  BY DEF IInv
<1>2. QED
  BY <1>1, IInvHolds, PTL

\* ACKNOWLEDGED is only said of a commitment the provider made.
THEOREM AcknowledgedProves == Spec => []AcknowledgedIsReal
<1>1. IInv => AcknowledgedIsReal
  BY DEF IInv, ConfirmedIsReal, ReadOnlyUnconcluded, AcknowledgedIsReal, WriteTasks
<1>2. QED
  BY <1>1, IInvHolds, PTL

\* Every request on the wire, however late, carries the key stored in its row.
THEOREM StoredKeyOnTheWire == Spec => []KeyOnTheWireIsTheKeyStored
<1>1. IInv => KeyOnTheWireIsTheKeyStored
  BY DEF IInv, PermitsCarryTheKey
<1>2. QED
  BY <1>1, IInvHolds, PTL

\* What a step may do to one row's evidence and key: begin a submission, or
\* conclude one that has begun.
LEMMA EvidenceStep ==
  ASSUME IInv, [Next]_vars, NEW t \in Tasks
  PROVE  /\ evidence[t] \in TerminalEvidence => evidence'[t] = evidence[t]
         /\ key[t] # NoKey => key'[t] = key[t]
<1>1. CASE UNCHANGED <<evidence, key>>
  BY <1>1
<1>2. ASSUME NEW c \in Callers, RecordOutcome(c)
      PROVE  /\ evidence[t] \in TerminalEvidence => evidence'[t] = evidence[t]
             /\ key'[t] = key[t]
  BY <1>2 DEF RecordOutcome, Unconcluded, IInv, TypeOK
<1>3. ASSUME NEW u \in Tasks, NEW k, Permitted(u, k), MarkSubmitting(u, k)
      PROVE  /\ evidence[t] \in TerminalEvidence => evidence'[t] = evidence[t]
             /\ key[t] # NoKey => key'[t] = key[t]
  BY <1>3 DEF Permitted, MarkSubmitting, EffectiveKey, IInv, TypeOK
<1>4. ASSUME NEW c \in Callers, PrepareSubmission(c) \/ PrepareSubmissionRaises(c)
      PROVE  \/ UNCHANGED <<evidence, key>>
             \/ \E u \in Tasks, k \in MaybeKey : Permitted(u, k) /\ MarkSubmitting(u, k)
  BY <1>4 DEF PrepareSubmission, PrepareSubmissionRaises, IInv, TypeOK, Calls
<1>5. \/ UNCHANGED <<evidence, key>>
      \/ \E c \in Callers : \/ RecordOutcome(c) \/ PrepareSubmission(c)
                           \/ PrepareSubmissionRaises(c)
  BY DEF Next, vars, rowVars, Rows, CreateTask, UpdateTaskStatus,
     ReopenCancelledTasks, CancelOpenTasks, SupersedeTaskWithNewAttempt,
     Gateway, EnterGateway,
     Send, StopWaiting, LeaveGateway, Crash, Provider, ProviderAccepts,
     ProviderRefuses
<1>6. QED
  BY <1>1, <1>2, <1>3, <1>4, <1>5

\* No step takes a conclusion back or changes a key.
THEOREM ConclusionsStay == Spec => ConclusionsAreFinal
<1>1. IInv /\ [Next]_vars =>
        [\A t \in Tasks :
           /\ evidence[t] \in TerminalEvidence => evidence'[t] = evidence[t]
           /\ key[t] # NoKey => key'[t] = key[t]]_vars
  BY EvidenceStep
<1>2. QED
  BY <1>1, IInvHolds, PTL DEF Spec, ConclusionsAreFinal

-------------------------------------------------------------------------------
(* Refinement: every step is a step of CommitmentLedger or a stutter *)

Claim == [t \in WriteTasks |-> ClaimOf(evidence[t])]
Commitments == [t \in WriteTasks |-> committed[t]]

\* A step that leaves the evidence and the provider alone is a stutter.
LEMMA LedgerStutter ==
  ASSUME UNCHANGED <<evidence, committed>> PROVE [Ledger!Next]_(Ledger!vars)
BY DEF Ledger!vars

\* A permit starts a submission or, with the stored key, repeats it.
LEMMA LedgerStart ==
  ASSUME IInv, NEW t \in Tasks, NEW k \in MaybeKey, Permitted(t, k),
         MarkSubmitting(t, k), UNCHANGED committed
  PROVE  [Ledger!Next]_(Ledger!vars)
<1>1. evidence[t] \in {"NOT_SUBMITTED", "SUBMITTING"}
  BY DEF Permitted, IInv, TypeOK, Evidence, TerminalEvidence
<1>2. evidence' = [evidence EXCEPT ![t] = "SUBMITTING"]
  BY DEF MarkSubmitting
<1>3. CASE t \in WriteTasks /\ evidence[t] = "NOT_SUBMITTED"
  <2>1. Claim[t] = "unsent"
    BY <1>3 DEF Claim, ClaimOf
  <2>2. Claim' = [Claim EXCEPT ![t] = "sending"]
    <3>1. evidence \in [Tasks -> Evidence]
      BY DEF IInv, TypeOK
    <3>2. evidence'[t] = "SUBMITTING"
      BY <1>2, <3>1
    <3>3. ClaimOf(evidence'[t]) = "sending"
      BY <3>2 DEF ClaimOf
    <3>4. \A u \in WriteTasks : u # t => evidence'[u] = evidence[u]
      BY <1>2, <3>1 DEF WriteTasks
    <3>5. QED
      BY <1>3, <3>3, <3>4 DEF Claim
  <2>3. Ledger!Start(t)
    BY <1>3, <2>1, <2>2 DEF Ledger!Start, Claim
  <2>4. QED
    BY <1>3, <2>3 DEF Ledger!Next
<1>4. CASE t \notin WriteTasks \/ evidence[t] = "SUBMITTING"
  <2>1. Claim' = Claim
    BY <1>2, <1>4 DEF Claim, IInv, TypeOK, WriteTasks
  <2>2. QED
    BY <2>1 DEF Ledger!vars, Claim
<1>5. QED
  BY <1>1, <1>3, <1>4

\* A recorded conclusion confirms a commitment or doubts it.
LEMMA LedgerConclude ==
  ASSUME IInv, IInv', NEW c \in Callers, RecordOutcome(c)
  PROVE  [Ledger!Next]_(Ledger!vars)
<1> DEFINE t == call[c].task
<1>1. UNCHANGED committed /\ t \in Tasks /\ Engaged(c, t)
  BY DEF RecordOutcome, providerVars, IInv, TypeOK, Engaged
<1>2. CASE UNCHANGED evidence
  BY <1>1, <1>2, LedgerStutter
<1>3. CASE /\ evidence[t] \notin TerminalEvidence
           /\ evidence' = [evidence EXCEPT ![t] = EvidenceOf(t, call[c].answer)]
  <2>1. CASE t \notin WriteTasks
    <3>1. Claim' = Claim
      BY <1>3, <2>1 DEF Claim, IInv, TypeOK, WriteTasks
    <3>2. QED
      BY <1>1, <3>1 DEF Ledger!vars, Claim
  <2>2. CASE t \in WriteTasks
    <3>1. evidence[t] = "SUBMITTING"
      BY <1>1, <1>3, <2>2 DEF IInv, TypeOK, Evidence, TerminalEvidence,
         NotSubmittedIsProof, Engaged
    <3>2. EvidenceOf(t, call[c].answer) \in TerminalEvidence
      BY <2>2 DEF EvidenceOf, TerminalEvidence, WriteTasks
    <3>3. Claim[t] = "sending"
      BY <2>2, <3>1 DEF Claim, ClaimOf
    <3>4. Claim' = [Claim EXCEPT ![t] = ClaimOf(EvidenceOf(t, call[c].answer))]
      BY <1>3, <2>2 DEF Claim, IInv, TypeOK, WriteTasks
    <3>5. CASE EvidenceOf(t, call[c].answer) = "UNKNOWN"
      <4>1. Ledger!Doubt(t)
        BY <1>1, <3>3, <3>4, <3>5 DEF Ledger!Doubt, Claim, ClaimOf
      <4>2. QED
        BY <2>2, <4>1 DEF Ledger!Next
    <3>6. CASE EvidenceOf(t, call[c].answer) = "ACKNOWLEDGED"
      <4>1. committed[t] = 1
        BY <1>1, <1>3, <2>2, <3>6 DEF IInv, TypeOK, ConfirmedIsReal
      <4>2. Ledger!Confirm(t)
        BY <1>1, <2>2, <3>3, <3>4, <3>6, <4>1 DEF Ledger!Confirm, Claim, ClaimOf
      <4>3. QED
        BY <2>2, <4>2 DEF Ledger!Next
    <3>7. QED
      BY <3>2, <3>5, <3>6 DEF TerminalEvidence
  <2>3. QED
    BY <2>1, <2>2
<1>4. QED
  BY <1>2, <1>3 DEF RecordOutcome, Unconcluded

\* An accepted request is the commitment, or is answered from an earlier one.
LEMMA LedgerCommit ==
  ASSUME IInv, IInv', NEW m \in inFlight, ProviderAccepts(m)
  PROVE  [Ledger!Next]_(Ledger!vars)
<1> DEFINE t == m.task
<1>1. /\ t \in Tasks /\ UNCHANGED evidence
      /\ \A u \in Tasks : u # t => committed'[u] = committed[u]
      /\ committed'[t] \in {committed[t], committed[t] + 1}
      /\ t \in ReadOnly => committed'[t] = committed[t]
      /\ committed' \in [Tasks -> Nat]
  BY DEF ProviderAccepts, rowVars, IInv, TypeOK, Messages
<1>2. CASE committed'[t] = committed[t]
  <2>1. Commitments' = Commitments
    BY <1>1, <1>2 DEF Commitments, WriteTasks
  <2>2. QED
    BY <1>1, <2>1 DEF Ledger!vars, Commitments
<1>3. CASE committed'[t] = committed[t] + 1 /\ committed'[t] # committed[t]
  <2>1. t \in WriteTasks
    BY <1>1, <1>3 DEF WriteTasks
  <2>2. committed[t] = 0 /\ committed'[t] = 1
    <3>1. committed'[t] <= 1
      BY <2>1 DEF IInv, OneToken, CommittedUnderKey
    <3>2. committed[t] \in Nat
      BY <1>1 DEF IInv, TypeOK
    <3>3. QED
      BY <1>3, <3>1, <3>2
  <2>3. Claim[t] \in {"sending", "unproven"}
    <3>1. evidence[t] # "NOT_SUBMITTED"
      BY <2>1 DEF IInv, NotSubmittedIsProof
    <3>2. evidence[t] # "ACKNOWLEDGED"
      BY <2>1, <2>2 DEF IInv, ConfirmedIsReal
    <3>3. QED
      BY <1>1, <2>1, <3>1, <3>2 DEF Claim, ClaimOf, IInv, TypeOK, Evidence
  <2>4. Commitments' = [Commitments EXCEPT ![t] = 1]
    BY <1>1, <2>1, <2>2 DEF Commitments, WriteTasks
  <2>5. Ledger!Commit(t)
    BY <1>1, <2>1, <2>2, <2>3, <2>4 DEF Ledger!Commit, Claim, Commitments
  <2>6. QED
    BY <2>1, <2>5 DEF Ledger!Next
<1>4. QED
  BY <1>1, <1>2, <1>3

\* Submission implements the abstract ledger on the tasks that write.
THEOREM Refinement == Spec => ImplementsLedger
<1>1. Init => Ledger!Init
  BY DEF Init, Ledger!Init, ClaimOf, WriteTasks
<1>2. IInv /\ IInv' /\ [Next]_vars => [Ledger!Next]_(Ledger!vars)
  <2> SUFFICES ASSUME IInv, IInv', [Next]_vars PROVE [Ledger!Next]_(Ledger!vars)
    OBVIOUS
  <2>1. ASSUME NEW c \in Callers, PrepareSubmission(c) \/ PrepareSubmissionRaises(c)
        PROVE  [Ledger!Next]_(Ledger!vars)
    <3>1. UNCHANGED committed
      BY <2>1 DEF PrepareSubmission, PrepareSubmissionRaises, providerVars
    <3>2. call[c].task \in Tasks /\ call[c].key \in MaybeKey
      BY <2>1 DEF PrepareSubmission, PrepareSubmissionRaises, IInv, TypeOK, Calls
    <3>3. \/ UNCHANGED evidence
          \/ /\ Permitted(call[c].task, call[c].key)
             /\ MarkSubmitting(call[c].task, call[c].key)
      BY <2>1 DEF PrepareSubmission, PrepareSubmissionRaises
    <3>4. QED
      BY <3>1, <3>2, <3>3, LedgerStutter, LedgerStart
  <2>2. ASSUME NEW c \in Callers, RecordOutcome(c)
        PROVE  [Ledger!Next]_(Ledger!vars)
    BY <2>2, LedgerConclude
  <2>3. ASSUME NEW m \in inFlight, ProviderAccepts(m)
        PROVE  [Ledger!Next]_(Ledger!vars)
    BY <2>3, LedgerCommit
  <2>4. \/ UNCHANGED <<evidence, committed>>
        \/ \E c \in Callers : \/ PrepareSubmission(c) \/ PrepareSubmissionRaises(c)
                             \/ RecordOutcome(c)
        \/ \E m \in inFlight : ProviderAccepts(m)
    BY DEF Next, vars, rowVars, providerVars, Rows, CreateTask, UpdateTaskStatus,
       ReopenCancelledTasks, CancelOpenTasks, SupersedeTaskWithNewAttempt,
     Gateway, EnterGateway,
       Send, StopWaiting, LeaveGateway, Crash, Provider, ProviderRefuses
  <2>5. QED
    BY <2>1, <2>2, <2>3, <2>4, LedgerStutter
<1>3. QED
  BY <1>1, <1>2, IInvHolds, PTL DEF Spec, ImplementsLedger, Ledger!Spec


-------------------------------------------------------------------------------
(* Refinement *)

\* What a run does by itself is a step of the gateway or the rows, or nothing
\* to them.
LEMMA RunStepRefines == ASSUME NEW r \in Runs, RunStep(r) PROVE [Next]_vars
<1> USE ExecutionAssumptions
<1>1. CASE \/ ReopenTasks(r) \/ ReopenWorkflow(r) \/ ReadSeeds(r)
           \/ BeginRunning(r)
           \/ Finalize(r) \/ FinishPartly(r) \/ Judge(r) \/ WriteVerdict(r)
           \/ Raise(r) \/ MarkWorkflowFailed(r)
  BY <1>1 DEF ReopenTasks, ReopenWorkflow, ReadSeeds, BeginRunning, Finalize,
     FinishPartly, Judge, WriteVerdict, Raise, MarkWorkflowFailed, Next, Rows
<1>2. ASSUME NEW t \in Tasks,
             \/ EnsureTask(r, t) \/ MarkRunning(r, t) \/ FailBlocked(r, t)
             \/ Unresolved(r, t) \/ SaveStatus(r, t) \/ SaveResult(r, t)
      PROVE  [Next]_vars
  <2>1. {"RUNNING", "SUCCESS", "FAILED"} \subseteq Statuses
    BY DEF Statuses
  <2>2. QED
    BY <1>2, <2>1 DEF EnsureTask, MarkRunning, FailBlocked, Unresolved,
       SaveStatus, SaveResult, Next, Rows
<1>3. ASSUME NEW t \in Tasks, CallProvider(r, t) \/ TakeAnswer(r, t)
      PROVE  [Next]_vars
  <2>1. <<r, t>> \in Callers /\ KeyFor[t] \in MaybeKey
    OBVIOUS
  <2>2. (run[r].attempt[t] + 1 < Attempts(t)) \in BOOLEAN
    OBVIOUS
  <2>3. QED
    BY <1>3, <2>1, <2>2 DEF CallProvider, Enter, TakeAnswer, Next, Gateway
<1>4. QED
  BY <1>1, <1>2, <1>3 DEF RunStep

\* Every step implements a step of Submission or a stutter.
LEMMA StepRefines == [ExecNext]_execVars => [Next]_vars
<1> SUFFICES ASSUME [ExecNext]_execVars PROVE [Next]_vars
  OBVIOUS
<1>1. ASSUME NEW r \in Runs, StartFirst(r) \/ StartRetry(r) \/ StartAmend(r)
      PROVE  [Next]_vars
  BY <1>1 DEF StartFirst, StartRetry, StartAmend
<1>2. ASSUME NEW r \in Runs, CrashRun(r) PROVE [Next]_vars
  <2>1. {r} \X Tasks \in SUBSET Callers
    BY ExecutionAssumptions
  <2>2. QED
    BY <1>2, <2>1 DEF CrashRun, Next
<1>3. ASSUME NEW c \in Callers, GatewayStep(c) PROVE [Next]_vars
  BY <1>3 DEF GatewayStep, Next, Gateway
<1>4. CASE ProviderStep
  BY <1>4 DEF ProviderStep, Next
<1>5. CASE CancelWorkflow
  BY <1>5 DEF CancelWorkflow, Next, Rows
<1>6. CASE UNCHANGED execVars
  BY <1>6 DEF execVars
<1>7. QED
  BY <1>1, <1>2, <1>3, <1>4, <1>5, <1>6, RunStepRefines DEF ExecNext

\* Every behaviour of the runs is a behaviour of Submission: nothing a first
\* run, a retry, an amendment, a cancel or a crash does goes past the gateway.
THEOREM GatewayOnly == ExecSpec => UsesTheGateway
<1>1. ExecInit => Init
  BY DEF ExecInit
<1>2. QED
  BY <1>1, StepRefines, PTL DEF ExecSpec, Spec, UsesTheGateway

\* So no retry, amendment or pair of overlapping runs commits a write twice.
THEOREM NoDoubleExecution == ExecSpec => []AtMostOneCommitment
BY GatewayOnly, NoDoubleCommitment, PTL DEF UsesTheGateway

-------------------------------------------------------------------------------
(* Type correctness *)

\* The record of a run that has not begun is one.
LEMMA NoRunType == NoRun \in RunStates
<1>1. [t \in Tasks |-> 0] \in [Tasks -> 0..MaxAttempts]
  BY ExecutionAssumptions
<1>2. [t \in Tasks |-> "absent"] \in [Tasks -> Memory]
  BY DEF Memory
<1>3. "idle" \in Steps
  BY DEF Steps
<1>4. "PENDING" \in WorkflowStatuses
  BY DEF WorkflowStatuses
<1>5. QED
  BY <1>1, <1>2, <1>3, <1>4 DEF NoRun, RunStates

\* Giving a field of a run another value of its type gives a run ...
LEMMA WithStep ==
  ASSUME NEW x \in RunStates, NEW s \in Steps
  PROVE  [x EXCEPT !.step = s] \in RunStates
BY DEF RunStates

\* ... its whole memory ...
LEMMA WithMemory ==
  ASSUME NEW x \in RunStates, NEW m \in [Tasks -> Memory]
  PROVE  [x EXCEPT !.memory = m] \in RunStates
BY DEF RunStates

\* ... the results it can use ...
LEMMA WithUsable ==
  ASSUME NEW x \in RunStates, NEW u \in SUBSET Tasks
  PROVE  [x EXCEPT !.usable = u] \in RunStates
BY DEF RunStates

\* ... its verdict ...
LEMMA WithVerdict ==
  ASSUME NEW x \in RunStates, NEW v \in WorkflowStatuses
  PROVE  [x EXCEPT !.verdict = v] \in RunStates
BY DEF RunStates

\* ... what it remembers of one task ...
LEMMA WithMemoryOf ==
  ASSUME NEW x \in RunStates, NEW t \in Tasks, NEW m \in Memory
  PROVE  [x EXCEPT !.memory[t] = m] \in RunStates
<1>1. [x.memory EXCEPT ![t] = m] \in [Tasks -> Memory]
  BY DEF RunStates
<1>2. [x EXCEPT !.memory[t] = m] = [x EXCEPT !.memory = [x.memory EXCEPT ![t] = m]]
  OBVIOUS
<1>3. QED
  BY <1>1, <1>2 DEF RunStates

\* ... the attempts it made at it ...
LEMMA WithAttemptOf ==
  ASSUME NEW x \in RunStates, NEW t \in Tasks, NEW a \in 0..MaxAttempts
  PROVE  [x EXCEPT !.attempt[t] = a] \in RunStates
<1>1. [x.attempt EXCEPT ![t] = a] \in [Tasks -> 0..MaxAttempts]
  BY DEF RunStates
<1>2. [x EXCEPT !.attempt[t] = a] = [x EXCEPT !.attempt = [x.attempt EXCEPT ![t] = a]]
  OBVIOUS
<1>3. QED
  BY <1>1, <1>2 DEF RunStates

\* ... or the result it holds of it.
LEMMA WithOutcomeOf ==
  ASSUME NEW x \in RunStates, NEW t \in Tasks, NEW o \in Results \cup {"none"}
  PROVE  [x EXCEPT !.outcome[t] = o] \in RunStates
<1>1. [x.outcome EXCEPT ![t] = o] \in [Tasks -> Results \cup {"none"}]
  BY DEF RunStates
<1>2. [x EXCEPT !.outcome[t] = o] = [x EXCEPT !.outcome = [x.outcome EXCEPT ![t] = o]]
  OBVIOUS
<1>3. QED
  BY <1>1, <1>2 DEF RunStates

\* A run whose execution is over is a run.
LEMMA LeftType ==
  ASSUME ExecTypeOK, NEW r \in Runs, NEW s \in Steps, Update(r, Left(r, s))
  PROVE  run' \in [Runs -> RunStates]
<1>1. Left(r, s) \in RunStates
  BY NoRunType DEF Left, ExecTypeOK, RunStates
<1>2. QED
  BY <1>1 DEF Update, ExecTypeOK

\* So is one that ends.
LEMMA EndType2 ==
  ASSUME ExecTypeOK, NEW r \in Runs, End(r)
  PROVE  run' \in [Runs -> RunStates]
BY LeftType DEF End, Steps

\* So is one that moves on to its next step.
LEMMA GotoType ==
  ASSUME ExecTypeOK, NEW r \in Runs, NEW s \in Steps, Goto(r, s)
  PROVE  run' \in [Runs -> RunStates]
<1>1. [run[r] EXCEPT !.step = s] \in RunStates
  BY WithStep DEF ExecTypeOK
<1>2. run' = [run EXCEPT ![r] = [run[r] EXCEPT !.step = s]]
  BY DEF Goto
<1>3. QED
  BY <1>1, <1>2 DEF ExecTypeOK

\* A verdict that is written keeps the workflow's status a status.
LEMMA WorkflowType ==
  ASSUME ExecTypeOK, NEW s \in WorkflowStatuses, UpdateWorkflowStatus(s)
  PROVE  workflow' \in WorkflowStatuses
BY DEF UpdateWorkflowStatus, ExecTypeOK

\* Every run's step keeps the types: one case per action.
LEMMA RunStepType ==
  ASSUME TypeOK, ExecTypeOK, NEW r \in Runs, RunStep(r)
  PROVE  ExecTypeOK'
<1> DEFINE x == run[r]
<1> USE ExecutionAssumptions
<1>0. x \in RunStates
  BY DEF ExecTypeOK
<1>1. ASSUME ReopenTasks(r) PROVE ExecTypeOK'
  <2> DEFINE y == [x EXCEPT !.step = "unlocking"]
  <2>1. PlanFromRows \in [Tasks -> Memory]
    BY DEF PlanFromRows, Memory
  <2>2. y \in RunStates
    BY <1>0, WithStep DEF Steps
  <2>3. [y EXCEPT !.memory = PlanFromRows] \in RunStates
    BY <2>1, <2>2, WithMemory
  <2>4. QED
    BY <1>1, <2>3 DEF ReopenTasks, Update, Joins, ExecTypeOK
<1>2. ASSUME ReopenWorkflow(r) PROVE ExecTypeOK'
  BY <1>2, GotoType DEF ReopenWorkflow, ExecTypeOK, Steps, WorkflowStatuses
<1>3. ASSUME ReadSeeds(r) PROVE ExecTypeOK'
  <2> DEFINE m == [t \in Tasks |-> Seed(status[t], x.memory[t])]
             u == {t \in Tasks : status[t] = "SUCCESS" /\ result[t] = "ok"}
             y == [x EXCEPT !.step = "creating"]
             z == [y EXCEPT !.memory = m]
  <2>1. m \in [Tasks -> Memory]
    BY <1>0 DEF Seed, RunStates, Memory
  <2>2. y \in RunStates
    BY <1>0, WithStep DEF Steps
  <2>3. z \in RunStates
    BY <2>1, <2>2, WithMemory
  <2>4. [z EXCEPT !.usable = u] \in RunStates
    BY <2>3, WithUsable
  <2>5. End(r) \/ run' = [run EXCEPT ![r] = [z EXCEPT !.usable = u]]
    BY <1>3, <1>0 DEF ReadSeeds, Update, RunStates
  <2>6. run' \in [Runs -> RunStates]
    BY <2>4, <2>5, EndType2 DEF ExecTypeOK
  <2>7. QED
    BY <1>3, <2>6 DEF ReadSeeds, ExecTypeOK
<1>4. ASSUME BeginRunning(r) PROVE ExecTypeOK'
  BY <1>4, GotoType, WorkflowType
     DEF BeginRunning, ExecTypeOK, Steps, WorkflowStatuses
<1>5. ASSUME NEW t \in Tasks, EnsureTask(r, t) PROVE ExecTypeOK'
  <2>1. [x EXCEPT !.memory[t] = "PENDING"] \in RunStates
    BY <1>0, WithMemoryOf DEF Memory
  <2>2. QED
    BY <1>5, <2>1 DEF EnsureTask, Update, Joins, ExecTypeOK
<1>6. ASSUME NEW t \in Tasks, MarkRunning(r, t) PROVE ExecTypeOK'
  <2> DEFINE s == IF Ready(r) = {t} THEN "calling" ELSE x.step
             y == [x EXCEPT !.step = s]
  <2>1. y \in RunStates
    BY <1>0, WithStep DEF Steps, RunStates
  <2>2. [y EXCEPT !.memory[t] = "RUNNING"] \in RunStates
    BY <2>1, WithMemoryOf DEF Memory
  <2>3. run' = [run EXCEPT ![r] = [y EXCEPT !.memory[t] = "RUNNING"]]
    BY <1>6 DEF MarkRunning, Update
  <2>4. QED
    BY <1>6, <2>2, <2>3 DEF MarkRunning, ExecTypeOK
<1>7. ASSUME NEW t \in Tasks, FailBlocked(r, t) PROVE ExecTypeOK'
  <2> DEFINE y == [x EXCEPT !.memory[t] = "FAILED"]
  <2>1. y \in RunStates
    BY <1>0, WithMemoryOf DEF Memory
  <2>2. [y EXCEPT !.outcome[t] = "dependency"] \in RunStates
    BY <2>1, WithOutcomeOf DEF Results
  <2>3. run' = [run EXCEPT ![r] = [y EXCEPT !.outcome[t] = "dependency"]]
    BY <1>7 DEF FailBlocked, Update
  <2>4. QED
    BY <1>7, <2>2, <2>3 DEF FailBlocked, ExecTypeOK
<1>8. ASSUME NEW t \in Tasks, Unresolved(r, t) PROVE ExecTypeOK'
  <2>1. [x EXCEPT !.outcome[t] = "dependency"] \in RunStates
    BY <1>0, WithOutcomeOf DEF Results
  <2>2. QED
    BY <1>8, <2>1 DEF Unresolved, Update, ExecTypeOK
<1>9. ASSUME NEW t \in Tasks, CallProvider(r, t) PROVE ExecTypeOK'
  <2>1. x.attempt[t] \in 0..MaxAttempts /\ x.attempt[t] < Attempts(t)
    BY <1>0, <1>9 DEF CallProvider, RunStates
  <2>2. x.attempt[t] + 1 \in 0..MaxAttempts
    BY <2>1 DEF Attempts
  <2>3. [x EXCEPT !.attempt[t] = x.attempt[t] + 1] \in RunStates
    BY <1>0, <2>2, WithAttemptOf
  <2>4. run' = [run EXCEPT ![r] = [x EXCEPT !.attempt[t] = x.attempt[t] + 1]]
    BY <1>9 DEF CallProvider, Update
  <2>5. QED
    BY <1>9, <2>3, <2>4 DEF CallProvider, ExecTypeOK
<1>10. ASSUME NEW t \in Tasks, TakeAnswer(r, t) PROVE ExecTypeOK'
  <2> DEFINE a == call[<<r, t>>].answer
             o == IF Again(r, t, a) THEN "none" ELSE ResultOf(a)
  <2>1. o \in Results \cup {"none"}
    BY DEF ResultOf, Results
  <2>2. [x EXCEPT !.outcome[t] = o] \in RunStates
    BY <1>0, <2>1, WithOutcomeOf
  <2>3. QED
    BY <1>10, <2>2 DEF TakeAnswer, Update, ExecTypeOK
<1>11. ASSUME NEW t \in Tasks, SaveStatus(r, t) PROVE ExecTypeOK'
  <2> DEFINE s == IF x.outcome[t] = "ok" THEN "SUCCESS" ELSE "FAILED"
             u == IF s = "SUCCESS" THEN x.usable \cup {t} ELSE x.usable
             y == [x EXCEPT !.memory[t] = s]
  <2>1. y \in RunStates
    BY <1>0, WithMemoryOf DEF Memory
  <2>2. u \in SUBSET Tasks
    BY <1>0 DEF RunStates
  <2>3. [y EXCEPT !.usable = u] \in RunStates
    BY <2>1, <2>2, WithUsable
  <2>4. run' = [run EXCEPT ![r] = [y EXCEPT !.usable = u]]
    BY <1>11 DEF SaveStatus, Update
  <2>5. QED
    BY <1>11, <2>3, <2>4 DEF SaveStatus, ExecTypeOK
<1>12. ASSUME NEW t \in Tasks, SaveResult(r, t) PROVE ExecTypeOK'
  <2> DEFINE s == IF Wave(r) = {} THEN "scheduling" ELSE x.step
             y == [x EXCEPT !.step = s]
             z == [y EXCEPT !.attempt[t] = 0]
  <2>1. y \in RunStates
    BY <1>0, WithStep DEF Steps, RunStates
  <2>2. z \in RunStates
    <3>1. 0 \in 0..MaxAttempts
      OBVIOUS
    <3>2. QED
      BY <2>1, <3>1, WithAttemptOf
  <2>3. [z EXCEPT !.outcome[t] = "none"] \in RunStates
    BY <2>2, WithOutcomeOf
  <2>4. run' = [run EXCEPT ![r] = [z EXCEPT !.outcome[t] = "none"]]
    BY <1>12 DEF SaveResult, Update
  <2>5. x.outcome[t] \in Results
    BY <1>0, <1>12 DEF SaveResult, Unstored, RunStates
  <2>6. QED
    BY <1>12, <2>3, <2>4, <2>5 DEF SaveResult, ExecTypeOK
<1>13. ASSUME Finalize(r) PROVE ExecTypeOK'
  BY <1>13, EndType2, WorkflowType DEF Finalize, ExecTypeOK, WorkflowStatuses
<1>14. ASSUME FinishPartly(r) PROVE ExecTypeOK'
  BY <1>14, LeftType, WorkflowType
     DEF FinishPartly, ExecTypeOK, WorkflowStatuses, Steps
<1>15. ASSUME Judge(r) PROVE ExecTypeOK'
  <2> DEFINE y == [x EXCEPT !.step = "concluding"]
  <2>1. FinalStatus \in WorkflowStatuses
    BY DEF FinalStatus, WorkflowStatuses
  <2>2. y \in RunStates
    BY <1>0, WithStep DEF Steps
  <2>3. [y EXCEPT !.verdict = FinalStatus] \in RunStates
    BY <2>1, <2>2, WithVerdict
  <2>4. QED
    BY <1>15, <2>3 DEF Judge, Update, ExecTypeOK
<1>16. ASSUME WriteVerdict(r) PROVE ExecTypeOK'
  <2>1. x.verdict \in WorkflowStatuses
    BY <1>0, <1>16 DEF WriteVerdict, RunStates
  <2>2. QED
    BY <1>16, <2>1, EndType2, WorkflowType DEF WriteVerdict, ExecTypeOK
<1>17. ASSUME Raise(r) PROVE ExecTypeOK'
  BY <1>17, EndType2, LeftType DEF Raise, ExecTypeOK, Steps
<1>18. ASSUME MarkWorkflowFailed(r) PROVE ExecTypeOK'
  BY <1>18, EndType2 DEF MarkWorkflowFailed, ExecTypeOK, WorkflowStatuses
<1>19. QED
  BY <1>1, <1>2, <1>3, <1>4, <1>5, <1>6, <1>7, <1>8, <1>9, <1>10, <1>11, <1>12,
     <1>13, <1>14, <1>15, <1>16, <1>17, <1>18 DEF RunStep

\* Every step keeps the types.
LEMMA ExecTypeStep ==
  TypeOK /\ ExecTypeOK /\ [ExecNext]_execVars => ExecTypeOK'
<1> SUFFICES ASSUME TypeOK, ExecTypeOK, [ExecNext]_execVars PROVE ExecTypeOK'
  OBVIOUS
<1>1. ASSUME NEW r \in Runs, NEW k \in Kinds, NEW s \in Steps,
             NEW m \in [Tasks -> Memory], Start(r, k, s, m)
      PROVE  run' \in [Runs -> RunStates]
  <2>1. [NoRun EXCEPT !.step = s, !.kind = k, !.memory = m] \in RunStates
    BY NoRunType DEF RunStates
  <2>2. QED
    BY <1>1, <2>1 DEF Start, Update, ExecTypeOK
<1>2. PlanFromRows \in [Tasks -> Memory] /\ [t \in Tasks |-> "new"] \in [Tasks -> Memory]
  BY DEF PlanFromRows, Memory
<1>3. /\ {"first", "retry", "amend"} \subseteq Kinds
      /\ {"creating", "reading", "reopening"} \subseteq Steps
  BY DEF Kinds, Steps
<1>4. ASSUME NEW r \in Runs, StartFirst(r) PROVE ExecTypeOK'
  BY <1>1, <1>2, <1>3, <1>4 DEF StartFirst, ExecTypeOK
<1>5. ASSUME NEW r \in Runs, StartRetry(r) PROVE ExecTypeOK'
  BY <1>1, <1>2, <1>3, <1>5 DEF StartRetry, ExecTypeOK
<1>6. ASSUME NEW r \in Runs, StartAmend(r) PROVE ExecTypeOK'
  BY <1>1, <1>2, <1>3, <1>6 DEF StartAmend, ExecTypeOK
<1>7. ASSUME NEW r \in Runs, CrashRun(r) PROVE ExecTypeOK'
  BY <1>7, EndType2 DEF CrashRun, ExecTypeOK
<1>8. CASE \/ \E c \in Callers : GatewayStep(c)
           \/ ProviderStep
           \/ UNCHANGED execVars
  BY <1>8 DEF GatewayStep, ProviderStep, execVars, ExecTypeOK
<1>9. CASE CancelWorkflow
  BY <1>9 DEF CancelWorkflow, ExecTypeOK, WorkflowStatuses
<1>10. QED
  BY <1>4, <1>5, <1>6, <1>7, <1>8, <1>9, RunStepType DEF ExecNext

\* The first state is well typed.
LEMMA ExecTypeInit == ExecInit => ExecTypeOK
BY NoRunType DEF ExecInit, ExecTypeOK, WorkflowStatuses

\* Type correctness of the workflow, the results and the runs.
THEOREM ExecTypeCorrect == ExecSpec => []ExecTypeOK
<1>1. ExecSpec => []TypeOK
  BY GatewayOnly, TypeCorrect, PTL DEF UsesTheGateway
<1>2. ExecInit => ExecTypeOK
  BY ExecTypeInit
<1>3. TypeOK /\ ExecTypeOK /\ [ExecNext]_execVars => ExecTypeOK'
  BY ExecTypeStep
<1>4. QED
  BY <1>1, <1>2, <1>3, PTL DEF ExecSpec

-------------------------------------------------------------------------------
(* SUCCESS is said of a commitment *)

\* The caller <<r, t>> only ever calls for t.
OwnCalls ==
  \A r \in Runs, t \in Tasks :
    call[<<r, t>>].phase # "idle" => call[<<r, t>>].task = t

\* A success a run holds of a step that writes, it holds of a commitment.
OutcomeIsReal ==
  \A r \in Runs, t \in WriteTasks : run[r].outcome[t] = "ok" => committed[t] = 1

RInv ==
  /\ IInv
  /\ ExecTypeOK
  /\ OwnCalls
  /\ OutcomeIsReal
  /\ SuccessIsCommitted

\* A call that a step of the gateway or of the provider moves keeps its task.
LEMMA CallsKeepTheirTask ==
  ASSUME TypeOK, NEW c \in Callers,
         \/ \E d \in Callers : \/ PrepareSubmission(d) \/ PrepareSubmissionRaises(d)
                             \/ Send(d) \/ StopWaiting(d) \/ RecordOutcome(d)
         \/ Provider
  PROVE  call'[c].phase # "idle" => call[c].phase # "idle" /\ call'[c].task = call[c].task
<1>1. ASSUME NEW d \in Callers,
             NEW p, NEW k, NEW a, Advance(d, p, k, a), call[d].phase # "idle"
      PROVE  call'[c].phase # "idle" => call[c].phase # "idle" /\ call'[c].task = call[c].task
  BY <1>1 DEF Advance, TypeOK
<1>2. ASSUME NEW d \in Callers,
             \/ PrepareSubmission(d) \/ PrepareSubmissionRaises(d)
             \/ Send(d) \/ StopWaiting(d) \/ RecordOutcome(d)
      PROVE  call'[c].phase # "idle" => call[c].phase # "idle" /\ call'[c].task = call[c].task
  <2>1. call[d].phase # "idle"
    BY <1>2 DEF PrepareSubmission, PrepareSubmissionRaises, Send, StopWaiting,
       RecordOutcome
  <2>2. \E p, k, a : Advance(d, p, k, a)
    BY <1>2 DEF PrepareSubmission, PrepareSubmissionRaises, Send, StopWaiting,
       RecordOutcome
  <2>3. QED
    BY <1>1, <2>1, <2>2
<1>3. ASSUME NEW m \in inFlight, ProviderAccepts(m) \/ ProviderRefuses(m)
      PROVE  call'[c].phase # "idle" => call[c].phase # "idle" /\ call'[c].task = call[c].task
  <2>1. m.caller \in Callers
    BY DEF TypeOK, Messages
  <2>2. \/ UNCHANGED call
        \/ \E a : Respond(m, a)
    BY <1>3 DEF ProviderAccepts, ProviderRefuses
  <2>3. ASSUME NEW a, Respond(m, a)
        PROVE  /\ call[m.caller].phase # "idle"
               /\ Advance(m.caller, "answered", call[m.caller].key, a)
    BY <2>3 DEF Respond
  <2>4. QED
    BY <1>1, <2>1, <2>2, <2>3
<1>4. QED
  BY <1>2, <1>3 DEF Provider

\* Which steps touch a call: the gateway's and the provider's own, and those by
\* which a run begins or ends a call of its own.
LEMMA WhoCalls ==
  ASSUME [ExecNext]_execVars
  PROVE  \/ UNCHANGED call
         \/ \E c \in Callers : GatewayStep(c)
         \/ ProviderStep
         \/ \E q \in Runs, u \in Tasks : CallProvider(q, u) \/ TakeAnswer(q, u)
         \/ \E q \in Runs : CrashRun(q)
<1>1. ASSUME NEW q \in Runs, StartFirst(q) \/ StartRetry(q) \/ StartAmend(q)
      PROVE  UNCHANGED call
  BY <1>1 DEF StartFirst, StartRetry, StartAmend, vars
<1>2. ASSUME NEW q \in Runs,
             \/ ReopenTasks(q) \/ ReopenWorkflow(q) \/ ReadSeeds(q)
             \/ BeginRunning(q)
             \/ Finalize(q) \/ FinishPartly(q) \/ Judge(q) \/ WriteVerdict(q)
             \/ Raise(q) \/ MarkWorkflowFailed(q)
      PROVE  UNCHANGED call
  BY <1>2 DEF ReopenTasks, ReopenCancelledTasks, ReopenWorkflow, ReadSeeds,
     BeginRunning, Finalize, FinishPartly, Judge, WriteVerdict, Raise,
     MarkWorkflowFailed, vars
<1>3. ASSUME NEW q \in Runs, NEW u \in Tasks,
             \/ EnsureTask(q, u) \/ MarkRunning(q, u) \/ FailBlocked(q, u)
             \/ Unresolved(q, u) \/ SaveStatus(q, u) \/ SaveResult(q, u)
      PROVE  UNCHANGED call
  BY <1>3 DEF EnsureTask, CreateTask, MarkRunning, FailBlocked, Unresolved,
     SaveStatus, SaveResult, UpdateTaskStatus, vars
<1>4. ASSUME CancelWorkflow \/ UNCHANGED execVars
      PROVE  UNCHANGED call
  BY <1>4 DEF CancelWorkflow, CancelOpenTasks, execVars, vars
<1>5. QED
  BY <1>1, <1>2, <1>3, <1>4 DEF ExecNext, RunStep

\* A run's step leaves every call alone, or begins or ends one of its own.
LEMMA OwnCallsStep ==
  ASSUME TypeOK, OwnCalls, [ExecNext]_execVars
  PROVE  OwnCalls'
<1> SUFFICES ASSUME NEW r \in Runs, NEW t \in Tasks, call'[<<r, t>>].phase # "idle"
             PROVE  call'[<<r, t>>].task = t
  BY DEF OwnCalls
<1> USE ExecutionAssumptions
<1>1. <<r, t>> \in Callers
  OBVIOUS
<1>2. CASE UNCHANGED call
  BY <1>2 DEF OwnCalls
<1>3. CASE (\E c \in Callers : GatewayStep(c)) \/ ProviderStep
  BY <1>1, <1>3, CallsKeepTheirTask DEF OwnCalls, GatewayStep, ProviderStep
<1>4. ASSUME NEW q \in Runs, NEW u \in Tasks, CallProvider(q, u) \/ TakeAnswer(q, u)
      PROVE  call'[<<r, t>>].task = t
  <2>1. CASE <<q, u>> = <<r, t>>
    BY <1>1, <1>4, <2>1 DEF CallProvider, Enter, EnterGateway, TakeAnswer,
       LeaveGateway, NoCall, TypeOK
  <2>2. CASE <<q, u>> # <<r, t>>
    BY <1>1, <1>4, <2>2 DEF CallProvider, Enter, EnterGateway, TakeAnswer,
       LeaveGateway, TypeOK, OwnCalls
  <2>3. QED
    BY <2>1, <2>2
<1>5. ASSUME NEW q \in Runs, CrashRun(q) PROVE call'[<<r, t>>].task = t
  BY <1>1, <1>5 DEF CrashRun, Crash, NoCall, OwnCalls
<1>6. QED
  BY <1>2, <1>3, <1>4, <1>5, WhoCalls

\* The only step that commits is the provider's.
LEMMA WhoCommits ==
  ASSUME [Next]_vars
  PROVE  UNCHANGED committed \/ \E m \in inFlight : ProviderAccepts(m)
<1>1. CASE Rows
  BY <1>1 DEF Rows, CreateTask, UpdateTaskStatus, ReopenCancelledTasks,
     CancelOpenTasks, SupersedeTaskWithNewAttempt
<1>2. CASE \E c \in Callers : Gateway(c)
  BY <1>2 DEF Gateway, EnterGateway, PrepareSubmission, PrepareSubmissionRaises,
     Send, StopWaiting, RecordOutcome, LeaveGateway, providerVars
<1>3. CASE \E C \in SUBSET Callers : Crash(C)
  BY <1>3 DEF Crash, providerVars
<1>4. CASE Provider
  BY <1>4 DEF Provider, ProviderRefuses, providerVars
<1>5. CASE UNCHANGED vars
  BY <1>5 DEF vars
<1>6. QED
  BY <1>1, <1>2, <1>3, <1>4, <1>5 DEF Next

\* A commitment stays one.
LEMMA CommitmentStays ==
  ASSUME IInv, IInv', [Next]_vars, NEW t \in WriteTasks, committed[t] = 1
  PROVE  committed'[t] = 1
<1>1. committed[t] \in Nat /\ committed'[t] \in Nat /\ t \in Tasks
  BY DEF IInv, TypeOK, WriteTasks
<1>2. committed'[t] <= 1
  BY <1>1 DEF IInv, OneToken, CommittedUnderKey
<1>3. CASE UNCHANGED committed
  BY <1>3
<1>4. ASSUME NEW m \in inFlight, ProviderAccepts(m) PROVE committed'[t] = 1
  <2>1. committed'[t] = committed[t] \/ committed'[t] = committed[t] + 1
    BY <1>1, <1>4 DEF ProviderAccepts, IInv, TypeOK
  <2>2. QED
    BY <1>1, <1>2, <2>1
<1>5. QED
  BY <1>3, <1>4, WhoCommits

\* A run comes to hold a success only from a call that returned with one.
LEMMA OutcomeStep ==
  ASSUME ExecTypeOK, [ExecNext]_execVars, NEW r \in Runs, NEW t \in Tasks,
         run'[r].outcome[t] = "ok"
  PROVE  \/ run[r].outcome[t] = "ok"
         \/ /\ call[<<r, t>>].phase = "returned"
            /\ call[<<r, t>>].answer \in Succeeded
<1> DEFINE Goal == \/ run[r].outcome[t] = "ok"
                   \/ /\ call[<<r, t>>].phase = "returned"
                      /\ call[<<r, t>>].answer \in Succeeded
<1>1. ASSUME NEW q \in Runs, NEW x, Update(q, x), x.outcome = run[q].outcome
      PROVE  Goal
  BY <1>1 DEF Update, ExecTypeOK
<1>2. ASSUME NEW q \in Runs, NEW u \in Tasks, NEW o, NEW x, Update(q, x),
             x.outcome = [run[q].outcome EXCEPT ![u] = o], o # "ok"
      PROVE  Goal
  BY <1>2 DEF Update, ExecTypeOK, RunStates
<1>3. ASSUME NEW q \in Runs, NEW x, Update(q, x),
             x.outcome = [u \in Tasks |-> "none"]
      PROVE  Goal
  BY <1>3 DEF Update, ExecTypeOK
<1>20. ASSUME NEW q \in Runs, NEW s, Update(q, Left(q, s)) PROVE Goal
  <2>1. Left(q, s).outcome = [u \in Tasks |-> "none"]
    BY DEF Left, NoRun
  <2>2. QED
    BY <1>3, <1>20, <2>1
<1>4. ASSUME NEW q \in Runs, End(q) PROVE Goal
  BY <1>4, <1>20 DEF End
<1>5. ASSUME NEW q \in Runs, NEW s, Goto(q, s) PROVE Goal
  BY <1>5 DEF Goto, ExecTypeOK, RunStates
<1>6. ASSUME NEW q \in Runs, NEW k, NEW s, NEW m, Start(q, k, s, m) PROVE Goal
  <2>1. [NoRun EXCEPT !.step = s, !.kind = k, !.memory = m].outcome
          = [u \in Tasks |-> "none"]
    BY DEF NoRun
  <2>2. QED
    BY <1>3, <1>6, <2>1 DEF Start
<1>7. ASSUME NEW q \in Runs, StartFirst(q) \/ StartRetry(q) \/ StartAmend(q)
      PROVE  Goal
  BY <1>6, <1>7 DEF StartFirst, StartRetry, StartAmend
<1>8. ASSUME NEW q \in Runs,
             \/ Finalize(q) \/ WriteVerdict(q) \/ MarkWorkflowFailed(q)
             \/ CrashRun(q) \/ ReopenWorkflow(q) \/ BeginRunning(q)
             \/ FinishPartly(q) \/ Raise(q)
      PROVE  Goal
  BY <1>4, <1>5, <1>8, <1>20 DEF Finalize, WriteVerdict, MarkWorkflowFailed, CrashRun,
     ReopenWorkflow, BeginRunning, FinishPartly, Raise
<1>9. ASSUME NEW q \in Runs, ReopenTasks(q) \/ ReadSeeds(q) \/ Judge(q)
      PROVE  Goal
  <2>1. run[q] \in RunStates
    BY DEF ExecTypeOK
  <2>2. CASE ReopenTasks(q)
    BY <1>1, <2>1, <2>2 DEF ReopenTasks, RunStates
  <2>3. CASE Judge(q)
    BY <1>1, <2>1, <2>3 DEF Judge, RunStates
  <2>4. CASE ReadSeeds(q)
    BY <1>1, <1>4, <2>1, <2>4 DEF ReadSeeds, RunStates
  <2>5. QED
    BY <1>9, <2>2, <2>3, <2>4
<1>10. ASSUME NEW q \in Runs, NEW u \in Tasks,
              \/ EnsureTask(q, u) \/ MarkRunning(q, u)
              \/ CallProvider(q, u) \/ SaveStatus(q, u)
       PROVE  Goal
  <2>1. run[q] \in RunStates
    BY DEF ExecTypeOK
  <2>2. CASE EnsureTask(q, u)
    BY <1>1, <2>1, <2>2 DEF EnsureTask, RunStates
  <2>3. CASE MarkRunning(q, u)
    BY <1>1, <2>1, <2>3 DEF MarkRunning, RunStates
  <2>4. CASE CallProvider(q, u)
    BY <1>1, <2>1, <2>4 DEF CallProvider, RunStates
  <2>5. CASE SaveStatus(q, u)
    BY <1>1, <2>1, <2>5 DEF SaveStatus, RunStates
  <2>6. QED
    BY <1>10, <2>2, <2>3, <2>4, <2>5
<1>11. ASSUME NEW q \in Runs, NEW u \in Tasks,
              FailBlocked(q, u) \/ Unresolved(q, u) \/ SaveResult(q, u)
       PROVE  Goal
  <2>1. run[q] \in RunStates
    BY DEF ExecTypeOK
  <2>2. CASE FailBlocked(q, u)
    <3> DEFINE x == [run[q] EXCEPT !.memory[u] = "FAILED", !.outcome[u] = "dependency"]
    <3>1. Update(q, x)
      BY <2>2 DEF FailBlocked
    <3>2. x.outcome = [run[q].outcome EXCEPT ![u] = "dependency"]
      BY <2>1 DEF RunStates
    <3> HIDE DEF x, Goal
    <3>3. QED
      BY <1>2, <3>1, <3>2
  <2>3. CASE Unresolved(q, u)
    <3> DEFINE x == [run[q] EXCEPT !.outcome[u] = "dependency"]
    <3>1. Update(q, x)
      BY <2>3 DEF Unresolved
    <3>2. x.outcome = [run[q].outcome EXCEPT ![u] = "dependency"]
      BY <2>1 DEF RunStates
    <3> HIDE DEF x, Goal
    <3>3. QED
      BY <1>2, <3>1, <3>2
  <2>4. CASE SaveResult(q, u)
    <3> DEFINE x == [run[q] EXCEPT
                       !.step = IF Wave(q) = {} THEN "scheduling" ELSE @,
                       !.attempt[u] = 0,
                       !.outcome[u] = "none"]
    <3>1. Update(q, x)
      BY <2>4 DEF SaveResult
    <3>2. x.outcome = [run[q].outcome EXCEPT ![u] = "none"]
      BY <2>1 DEF RunStates
    <3> HIDE DEF x, Goal
    <3>3. QED
      BY <1>2, <3>1, <3>2
  <2>5. QED
    BY <1>11, <2>2, <2>3, <2>4
<1>12. ASSUME NEW q \in Runs, NEW u \in Tasks, TakeAnswer(q, u)
       PROVE  Goal
  <2> DEFINE a == call[<<q, u>>].answer
             o == IF Again(q, u, a) THEN "none" ELSE ResultOf(a)
  <2>1. run[q] \in RunStates
    BY DEF ExecTypeOK
  <2>2. Update(q, [run[q] EXCEPT !.outcome[u] = o])
    BY <1>12 DEF TakeAnswer
  <2>3. [run[q] EXCEPT !.outcome[u] = o].outcome
          = [run[q].outcome EXCEPT ![u] = o]
    BY <2>1 DEF RunStates
  <2>4. CASE a \notin Succeeded
    <3>1. o # "ok"
      BY <2>4 DEF ResultOf
    <3> DEFINE x == [run[q] EXCEPT !.outcome[u] = o]
    <3>2. Update(q, x) /\ x.outcome = [run[q].outcome EXCEPT ![u] = o]
      BY <2>2, <2>3
    <3> HIDE DEF x, o, Goal
    <3>3. QED
      BY <1>2, <3>1, <3>2
  <2>5. CASE a \in Succeeded /\ q = r /\ u = t
    BY <1>12, <2>5 DEF TakeAnswer, LeaveGateway
  <2>6. CASE ~(q = r /\ u = t)
    BY <2>1, <2>2, <2>3, <2>6 DEF Update, ExecTypeOK, RunStates
  <2>7. QED
    BY <2>4, <2>5, <2>6
<1>13. CASE \/ \E c \in Callers : GatewayStep(c)
            \/ ProviderStep
            \/ CancelWorkflow
            \/ UNCHANGED execVars
  BY <1>13 DEF GatewayStep, ProviderStep, CancelWorkflow, execVars
<1>14. QED
  BY <1>7, <1>8, <1>9, <1>10, <1>11, <1>12, <1>13 DEF ExecNext, RunStep

\* A row becomes SUCCESS only where a run holds a success of it.
LEMMA SuccessStep ==
  ASSUME TypeOK, [ExecNext]_execVars, NEW t \in Tasks, status'[t] = "SUCCESS"
  PROVE  status[t] = "SUCCESS" \/ \E r \in Runs : run[r].outcome[t] = "ok"
<1>1. CASE UNCHANGED status
  BY <1>1
<1>2. CASE ReopenCancelledTasks \/ CancelOpenTasks
  BY <1>2 DEF ReopenCancelledTasks, CancelOpenTasks
<1>3. CASE \E u \in Tasks : CreateTask(u)
  BY <1>3 DEF CreateTask, TypeOK
<1>4. CASE \E u \in Tasks, s \in {"RUNNING", "FAILED"} : UpdateTaskStatus(u, s)
  BY <1>4 DEF UpdateTaskStatus, TypeOK
<1>5. CASE \E q \in Runs, u \in Tasks : SaveStatus(q, u)
  BY <1>5 DEF SaveStatus, UpdateTaskStatus, TypeOK
<1>6. ASSUME NEW q \in Runs,
             \/ StartFirst(q) \/ StartRetry(q) \/ StartAmend(q)
             \/ ReopenTasks(q) \/ ReopenWorkflow(q) \/ ReadSeeds(q)
             \/ BeginRunning(q)
             \/ Finalize(q) \/ FinishPartly(q) \/ Judge(q) \/ WriteVerdict(q)
             \/ Raise(q) \/ MarkWorkflowFailed(q) \/ CrashRun(q)
      PROVE  UNCHANGED status \/ ReopenCancelledTasks
  BY <1>6 DEF StartFirst, StartRetry, StartAmend, ReopenTasks, ReopenWorkflow,
     ReadSeeds, BeginRunning, Finalize, FinishPartly, Judge, WriteVerdict, Raise,
     MarkWorkflowFailed, CrashRun, Crash, rowVars, vars
<1>7. ASSUME NEW q \in Runs, NEW u \in Tasks,
             \/ EnsureTask(q, u) \/ MarkRunning(q, u) \/ FailBlocked(q, u)
             \/ Unresolved(q, u) \/ CallProvider(q, u) \/ TakeAnswer(q, u)
             \/ SaveResult(q, u)
      PROVE  \/ UNCHANGED status
             \/ CreateTask(u)
             \/ \E s \in {"RUNNING", "FAILED"} : UpdateTaskStatus(u, s)
  BY <1>7 DEF EnsureTask, MarkRunning, FailBlocked, Unresolved, CallProvider,
     Enter, EnterGateway, TakeAnswer, LeaveGateway, SaveResult, rowVars, vars
<1>8. ASSUME NEW c \in Callers, GatewayStep(c) PROVE UNCHANGED status
  BY <1>8 DEF GatewayStep, PrepareSubmission, PrepareSubmissionRaises, Send,
     StopWaiting, RecordOutcome, rowVars
<1>9. CASE ProviderStep \/ CancelWorkflow \/ UNCHANGED execVars
  BY <1>2, <1>9 DEF ProviderStep, Provider, ProviderAccepts, ProviderRefuses,
     CancelWorkflow, rowVars, execVars, vars
<1>10. QED
  BY <1>1, <1>2, <1>3, <1>4, <1>5, <1>6, <1>7, <1>8, <1>9 DEF ExecNext, RunStep

\* The first state has no calls, no successes and no rows.
LEMMA RInvInit == ExecInit => RInv
<1> SUFFICES ASSUME ExecInit PROVE RInv
  OBVIOUS
<1>1. IInv /\ ExecTypeOK
  BY IInvInit, ExecTypeInit DEF ExecInit
<1>2. OwnCalls
  BY ExecutionAssumptions DEF ExecInit, Init, OwnCalls, NoCall
<1>3. OutcomeIsReal
  BY DEF ExecInit, OutcomeIsReal, NoRun, WriteTasks
<1>4. SuccessIsCommitted
  BY DEF ExecInit, Init, SuccessIsCommitted, Absent, WriteTasks
<1>5. QED
  BY <1>1, <1>2, <1>3, <1>4 DEF RInv

\* The invariant is inductive.
LEMMA RInvStep == RInv /\ [ExecNext]_execVars => RInv'
<1> SUFFICES ASSUME RInv, [ExecNext]_execVars PROVE RInv'
  OBVIOUS
<1>1. [Next]_vars
  BY StepRefines
<1>2. IInv /\ TypeOK /\ ExecTypeOK /\ OwnCalls
  BY DEF RInv, IInv
<1>3. IInv' /\ ExecTypeOK' /\ OwnCalls'
  BY <1>1, <1>2, IInvStep, ExecTypeStep, OwnCallsStep
<1>4. ASSUME NEW t \in WriteTasks, committed[t] = 1
      PROVE  committed'[t] = 1
  BY <1>1, <1>2, <1>3, <1>4, CommitmentStays
<1>5. OutcomeIsReal'
  <2> SUFFICES ASSUME NEW r \in Runs, NEW t \in WriteTasks, run'[r].outcome[t] = "ok"
               PROVE  committed'[t] = 1
    BY DEF OutcomeIsReal
  <2>1. t \in Tasks /\ <<r, t>> \in Callers
    BY ExecutionAssumptions DEF WriteTasks
  <2>2. CASE run[r].outcome[t] = "ok"
    BY <1>4, <2>2 DEF RInv, OutcomeIsReal
  <2>3. CASE /\ call[<<r, t>>].phase = "returned"
             /\ call[<<r, t>>].answer \in Succeeded
    <3>1. call[<<r, t>>].task = t
      BY <1>2, <2>1, <2>3 DEF OwnCalls
    <3>2. committed[t] = 1
      BY <1>2, <2>1, <2>3, <3>1 DEF IInv, SuccessIsReal
    <3>3. QED
      BY <1>4, <3>2
  <2>4. QED
    BY <1>2, <2>1, <2>2, <2>3, OutcomeStep
<1>6. SuccessIsCommitted'
  <2> SUFFICES ASSUME NEW t \in WriteTasks, status'[t] = "SUCCESS"
               PROVE  committed'[t] = 1
    BY DEF SuccessIsCommitted
  <2>1. t \in Tasks
    BY DEF WriteTasks
  <2>2. status[t] = "SUCCESS" \/ \E r \in Runs : run[r].outcome[t] = "ok"
    BY <1>2, <2>1, SuccessStep
  <2>3. committed[t] = 1
    BY <2>2 DEF RInv, SuccessIsCommitted, OutcomeIsReal
  <2>4. QED
    BY <1>4, <2>3
<1>7. QED
  BY <1>3, <1>5, <1>6 DEF RInv

\* SUCCESS on a step that writes proves its commitment, for any plan and any
\* number of first runs, retries and amendments, overlapping, cancelled or dead.
THEOREM SuccessProves == ExecSpec => []SuccessIsCommitted
<1>1. RInv => SuccessIsCommitted
  BY DEF RInv
<1>2. QED
  BY <1>1, RInvInit, RInvStep, PTL DEF ExecSpec

-------------------------------------------------------------------------------
(* Nothing is sent before what it depends on is done *)

\* A step that writes and that a run remembers as done, is done.
MemoryIsReal ==
  \A r \in Runs, t \in WriteTasks :
    run[r].memory[t] = "SUCCESS" => committed[t] = 1

\* What a task depends on is done at its provider.
Grounded(t) == \A d \in DependsOn[t] \cap WriteTasks : committed[d] = 1

\* So it is for every task in a wave, and for every call begun for one.
WaveGrounded ==
  \A r \in Runs, t \in Tasks : run[r].memory[t] = "RUNNING" => Grounded(t)
CallsGrounded ==
  \A r \in Runs, t \in Tasks : call[<<r, t>>].phase # "idle" => Grounded(t)

DInv ==
  /\ RInv
  /\ MemoryIsReal
  /\ WaveGrounded
  /\ CallsGrounded
  /\ DependenciesFirst

\* What a step may put into the memory of a run: a success it holds or reads
\* off the row, and a place in the wave after _check_dependencies.
Learned(r, t) ==
  /\ run'[r].memory[t] = "SUCCESS" =>
       \/ run[r].memory[t] = "SUCCESS"
       \/ run[r].outcome[t] = "ok"
       \/ status[t] = "SUCCESS"
  /\ run'[r].memory[t] = "RUNNING" =>
       \/ run[r].memory[t] = "RUNNING"
       \/ CheckDependencies(r, t)

\* A memory that is replaced as a whole ...
LEMMA LearnedWhole ==
  ASSUME ExecTypeOK, NEW r \in Runs, NEW t \in Tasks, NEW q \in Runs, NEW x,
         Update(q, x),
         x.memory[t] \notin {"SUCCESS", "RUNNING"} \/ x.memory = run[q].memory
  PROVE  Learned(r, t)
BY DEF Update, ExecTypeOK, Learned

\* ... or in one place.
LEMMA LearnedOne ==
  ASSUME ExecTypeOK, NEW r \in Runs, NEW t \in Tasks, NEW q \in Runs,
         NEW u \in Tasks, NEW m, NEW x, Update(q, x),
         x.memory = [run[q].memory EXCEPT ![u] = m],
         m = "SUCCESS" => run[q].outcome[u] = "ok",
         m = "RUNNING" => CheckDependencies(q, u)
  PROVE  Learned(r, t)
BY DEF Update, ExecTypeOK, RunStates, Learned

\* Every step does one or the other.
LEMMA MemoryStep ==
  ASSUME ExecTypeOK, [ExecNext]_execVars, NEW r \in Runs, NEW t \in Tasks
  PROVE  Learned(r, t)
<1>1. ASSUME NEW q \in Runs PROVE run[q] \in RunStates
  BY DEF ExecTypeOK
<1>2. PlanFromRows[t] \notin {"SUCCESS", "RUNNING"}
  BY DEF PlanFromRows
<1>19. ASSUME NEW q \in Runs, NEW s, Update(q, Left(q, s)) PROVE Learned(r, t)
  <2>1. Left(q, s).memory[t] = "absent"
    BY DEF Left, NoRun
  <2>2. QED
    BY <1>19, <2>1, LearnedWhole
<1>3. ASSUME NEW q \in Runs, End(q) PROVE Learned(r, t)
  BY <1>3, <1>19 DEF End
<1>4. ASSUME NEW q \in Runs, NEW s, Goto(q, s) PROVE Learned(r, t)
  BY <1>1, <1>4 DEF Goto, ExecTypeOK, RunStates, Learned
<1>5. ASSUME NEW q \in Runs, NEW k, NEW s, NEW m, Start(q, k, s, m),
             m[t] \notin {"SUCCESS", "RUNNING"}
      PROVE  Learned(r, t)
  <2> DEFINE x == [NoRun EXCEPT !.step = s, !.kind = k, !.memory = m]
  <2>1. x.memory = m
    BY DEF NoRun
  <2>2. Update(q, x)
    BY <1>5 DEF Start
  <2> HIDE DEF x
  <2>3. QED
    BY <1>5, <2>1, <2>2, LearnedWhole
<1>6. ASSUME NEW q \in Runs, StartFirst(q) \/ StartRetry(q) \/ StartAmend(q)
      PROVE  Learned(r, t)
  BY <1>2, <1>5, <1>6 DEF StartFirst, StartRetry, StartAmend
<1>7. ASSUME NEW q \in Runs,
             \/ Finalize(q) \/ WriteVerdict(q) \/ MarkWorkflowFailed(q)
             \/ CrashRun(q) \/ ReopenWorkflow(q) \/ BeginRunning(q)
             \/ FinishPartly(q) \/ Raise(q)
      PROVE  Learned(r, t)
  BY <1>3, <1>4, <1>7, <1>19 DEF Finalize, WriteVerdict, MarkWorkflowFailed, CrashRun,
     ReopenWorkflow, BeginRunning, FinishPartly, Raise
<1>8. ASSUME NEW q \in Runs, ReopenTasks(q) PROVE Learned(r, t)
  <2> DEFINE x == [run[q] EXCEPT !.step = "unlocking", !.memory = PlanFromRows]
  <2>1. Update(q, x) /\ x.memory = PlanFromRows
    BY <1>1, <1>8 DEF ReopenTasks, RunStates
  <2> HIDE DEF x
  <2>2. QED
    BY <1>2, <2>1, LearnedWhole
<1>9. ASSUME NEW q \in Runs, ReadSeeds(q) PROVE Learned(r, t)
  <2> DEFINE m == [u \in Tasks |-> Seed(status[u], run[q].memory[u])]
             x == [run[q] EXCEPT
                     !.step = "creating",
                     !.memory = m,
                     !.usable = {u \in Tasks : status[u] = "SUCCESS" /\ result[u] = "ok"}]
  <2>1. CASE End(q)
    BY <1>3, <2>1
  <2>2. CASE Update(q, x)
    <3>1. x.memory = m
      BY <1>1 DEF RunStates
    <3>2. run'[r] = run[r] \/ (r = q /\ run'[r] = x)
      BY <2>2 DEF Update, ExecTypeOK
    <3> HIDE DEF x
    <3>3. m[t] = "SUCCESS" => status[t] = "SUCCESS" \/ run[q].memory[t] = "SUCCESS"
      BY DEF Seed
    <3>4. m[t] = "RUNNING" => run[q].memory[t] = "RUNNING"
      BY DEF Seed
    <3>5. QED
      BY <3>1, <3>2, <3>3, <3>4 DEF Learned
  <2>3. QED
    BY <1>1, <1>9, <2>1, <2>2 DEF ReadSeeds, RunStates
<1>10. ASSUME NEW q \in Runs, Judge(q) PROVE Learned(r, t)
  <2> DEFINE x == [run[q] EXCEPT !.step = "concluding", !.verdict = FinalStatus]
  <2>1. Update(q, x) /\ x.memory = run[q].memory
    BY <1>1, <1>10 DEF Judge, RunStates
  <2> HIDE DEF x
  <2>2. QED
    BY <2>1, LearnedWhole
<1>11. ASSUME NEW q \in Runs, NEW u \in Tasks, EnsureTask(q, u) PROVE Learned(r, t)
  <2> DEFINE x == [run[q] EXCEPT !.memory[u] = "PENDING"]
  <2>1. Update(q, x) /\ x.memory = [run[q].memory EXCEPT ![u] = "PENDING"]
    BY <1>1, <1>11 DEF EnsureTask, RunStates
  <2> HIDE DEF x
  <2>2. QED
    BY <2>1, LearnedOne
<1>12. ASSUME NEW q \in Runs, NEW u \in Tasks, MarkRunning(q, u) PROVE Learned(r, t)
  <2> DEFINE x == [run[q] EXCEPT
                     !.step = IF Ready(q) = {u} THEN "calling" ELSE @,
                     !.memory[u] = "RUNNING"]
  <2>1. Update(q, x) /\ x.memory = [run[q].memory EXCEPT ![u] = "RUNNING"]
    BY <1>1, <1>12 DEF MarkRunning, RunStates
  <2>2. CheckDependencies(q, u)
    BY <1>12 DEF MarkRunning, Ready
  <2> HIDE DEF x
  <2>3. QED
    BY <2>1, <2>2, LearnedOne
<1>13. ASSUME NEW q \in Runs, NEW u \in Tasks, FailBlocked(q, u) PROVE Learned(r, t)
  <2> DEFINE x == [run[q] EXCEPT !.memory[u] = "FAILED", !.outcome[u] = "dependency"]
  <2>1. Update(q, x) /\ x.memory = [run[q].memory EXCEPT ![u] = "FAILED"]
    BY <1>1, <1>13 DEF FailBlocked, RunStates
  <2> HIDE DEF x
  <2>2. QED
    BY <2>1, LearnedOne
<1>14. ASSUME NEW q \in Runs, NEW u \in Tasks, SaveStatus(q, u) PROVE Learned(r, t)
  <2> DEFINE s == IF run[q].outcome[u] = "ok" THEN "SUCCESS" ELSE "FAILED"
             x == [run[q] EXCEPT
                     !.memory[u] = s,
                     !.usable = IF s = "SUCCESS" THEN @ \cup {u} ELSE @]
  <2>1. Update(q, x) /\ x.memory = [run[q].memory EXCEPT ![u] = s]
    BY <1>1, <1>14 DEF SaveStatus, RunStates
  <2>2. s # "RUNNING" /\ (s = "SUCCESS" => run[q].outcome[u] = "ok")
    OBVIOUS
  <2> HIDE DEF x, s
  <2>3. QED
    BY <2>1, <2>2, LearnedOne
<1>15. ASSUME NEW q \in Runs, NEW u \in Tasks,
              Unresolved(q, u) \/ CallProvider(q, u) \/ TakeAnswer(q, u) \/ SaveResult(q, u)
       PROVE  Learned(r, t)
  <2>1. ASSUME NEW x, Update(q, x), x.memory = run[q].memory PROVE Learned(r, t)
    BY <2>1, LearnedWhole
  <2>2. CASE Unresolved(q, u)
    BY <1>1, <2>1, <2>2 DEF Unresolved, RunStates
  <2>3. CASE CallProvider(q, u)
    BY <1>1, <2>1, <2>3 DEF CallProvider, RunStates
  <2>4. CASE TakeAnswer(q, u)
    BY <1>1, <2>1, <2>4 DEF TakeAnswer, RunStates
  <2>5. CASE SaveResult(q, u)
    BY <1>1, <2>1, <2>5 DEF SaveResult, RunStates
  <2>6. QED
    BY <1>15, <2>2, <2>3, <2>4, <2>5
<1>16. CASE UNCHANGED run
  BY <1>16 DEF Learned
<1>17. CASE \/ \E c \in Callers : GatewayStep(c)
            \/ ProviderStep
            \/ CancelWorkflow
            \/ UNCHANGED execVars
  BY <1>16, <1>17 DEF GatewayStep, ProviderStep, CancelWorkflow, execVars
<1>18. QED
  BY <1>6, <1>7, <1>8, <1>9, <1>10, <1>11, <1>12, <1>13, <1>14, <1>15, <1>17
     DEF ExecNext, RunStep

\* A call is begun only for a task of the wave.
LEMMA CallBegins ==
  ASSUME TypeOK, [ExecNext]_execVars, NEW r \in Runs, NEW t \in Tasks,
         call'[<<r, t>>].phase # "idle"
  PROVE  call[<<r, t>>].phase # "idle" \/ run[r].memory[t] = "RUNNING"
<1> USE ExecutionAssumptions
<1>1. <<r, t>> \in Callers
  OBVIOUS
<1>2. CASE UNCHANGED call
  BY <1>2
<1>3. CASE (\E c \in Callers : GatewayStep(c)) \/ ProviderStep
  BY <1>1, <1>3, CallsKeepTheirTask DEF GatewayStep, ProviderStep
<1>4. ASSUME NEW q \in Runs, NEW u \in Tasks, CallProvider(q, u)
      PROVE  call[<<r, t>>].phase # "idle" \/ run[r].memory[t] = "RUNNING"
  <2>1. CASE <<q, u>> = <<r, t>>
    BY <1>4, <2>1 DEF CallProvider, Wave
  <2>2. CASE <<q, u>> # <<r, t>>
    BY <1>1, <1>4, <2>2 DEF CallProvider, Enter, EnterGateway, TypeOK
  <2>3. QED
    BY <2>1, <2>2
<1>5. ASSUME NEW q \in Runs, NEW u \in Tasks, TakeAnswer(q, u)
      PROVE  call[<<r, t>>].phase # "idle"
  BY <1>1, <1>5 DEF TakeAnswer, LeaveGateway, NoCall, TypeOK
<1>6. ASSUME NEW q \in Runs, CrashRun(q) PROVE call[<<r, t>>].phase # "idle"
  BY <1>1, <1>6 DEF CrashRun, Crash, NoCall
<1>7. QED
  BY <1>2, <1>3, <1>4, <1>5, <1>6, WhoCalls

\* A request that is new on the wire was put there by a call with a permit.
LEMMA WhoSends ==
  ASSUME [Next]_vars, NEW m \in inFlight'
  PROVE  m \in inFlight \/ \E c \in Callers : /\ call[c].phase = "permitted"
                                              /\ m.task = call[c].task
<1>1. CASE Rows
  BY <1>1 DEF Rows, CreateTask, UpdateTaskStatus, ReopenCancelledTasks,
     CancelOpenTasks, SupersedeTaskWithNewAttempt
<1>2. CASE \E c \in Callers : Gateway(c)
  BY <1>2 DEF Gateway, EnterGateway, PrepareSubmission, PrepareSubmissionRaises,
     Send, RequestOf, StopWaiting, RecordOutcome, LeaveGateway
<1>3. CASE \E C \in SUBSET Callers : Crash(C)
  BY <1>3 DEF Crash
<1>4. CASE Provider
  BY <1>4 DEF Provider, ProviderAccepts, ProviderRefuses
<1>5. CASE UNCHANGED vars
  BY <1>5 DEF vars
<1>6. QED
  BY <1>1, <1>2, <1>3, <1>4, <1>5 DEF Next

\* At the start no run remembers anything and nothing was called.
LEMMA DInvInit == ExecInit => DInv
<1> SUFFICES ASSUME ExecInit PROVE DInv
  OBVIOUS
<1>1. RInv
  BY RInvInit
<1>2. MemoryIsReal /\ WaveGrounded
  BY DEF ExecInit, MemoryIsReal, WaveGrounded, NoRun, WriteTasks
<1>3. CallsGrounded /\ DependenciesFirst
  BY ExecutionAssumptions
     DEF ExecInit, Init, CallsGrounded, DependenciesFirst, NoCall
<1>4. QED
  BY <1>1, <1>2, <1>3 DEF DInv

\* The invariant is inductive: a commitment stays, so what was grounded once is
\* grounded for good, however old the memory it was read from.
LEMMA DInvStep == DInv /\ [ExecNext]_execVars => DInv'
<1> SUFFICES ASSUME DInv, [ExecNext]_execVars PROVE DInv'
  OBVIOUS
<1>1. RInv /\ RInv' /\ [Next]_vars
  BY RInvStep, StepRefines DEF DInv
<1>2. TypeOK /\ ExecTypeOK /\ OwnCalls
  BY <1>1 DEF RInv, IInv
<1>3. ASSUME NEW t \in WriteTasks, committed[t] = 1 PROVE committed'[t] = 1
  BY <1>1, <1>3, CommitmentStays DEF RInv
<1>4. ASSUME NEW t \in Tasks, Grounded(t) PROVE Grounded(t)'
  BY <1>3, <1>4 DEF Grounded
<1>5. MemoryIsReal'
  <2> SUFFICES ASSUME NEW r \in Runs, NEW t \in WriteTasks,
                      run'[r].memory[t] = "SUCCESS"
               PROVE  committed'[t] = 1
    BY DEF MemoryIsReal
  <2>1. t \in Tasks
    BY DEF WriteTasks
  <2>2. \/ run[r].memory[t] = "SUCCESS"
        \/ run[r].outcome[t] = "ok"
        \/ status[t] = "SUCCESS"
    BY <1>2, <2>1, MemoryStep DEF Learned
  <2>3. committed[t] = 1
    BY <1>1, <2>2 DEF DInv, MemoryIsReal, RInv, OutcomeIsReal, SuccessIsCommitted
  <2>4. QED
    BY <1>3, <2>3
<1>6. WaveGrounded'
  <2> SUFFICES ASSUME NEW r \in Runs, NEW t \in Tasks, run'[r].memory[t] = "RUNNING"
               PROVE  Grounded(t)'
    BY DEF WaveGrounded
  <2>1. run[r].memory[t] = "RUNNING" \/ CheckDependencies(r, t)
    BY <1>2, MemoryStep DEF Learned
  <2>2. Grounded(t)
    BY <2>1 DEF DInv, WaveGrounded, MemoryIsReal, CheckDependencies, Grounded
  <2>3. QED
    BY <1>4, <2>2
<1>7. CallsGrounded'
  <2> SUFFICES ASSUME NEW r \in Runs, NEW t \in Tasks, call'[<<r, t>>].phase # "idle"
               PROVE  Grounded(t)'
    BY DEF CallsGrounded
  <2>1. call[<<r, t>>].phase # "idle" \/ run[r].memory[t] = "RUNNING"
    BY <1>2, CallBegins
  <2>2. Grounded(t)
    BY <2>1 DEF DInv, CallsGrounded, WaveGrounded
  <2>3. QED
    BY <1>4, <2>2
<1>8. DependenciesFirst'
  <2> SUFFICES ASSUME NEW m \in inFlight' PROVE Grounded(m.task)'
    BY DEF DependenciesFirst, Grounded
  <2>1. CASE m \in inFlight
    <3>1. m.task \in Tasks
      BY <1>2, <2>1 DEF TypeOK, Messages
    <3>2. Grounded(m.task)
      BY <2>1 DEF DInv, DependenciesFirst, Grounded
    <3>3. QED
      BY <1>4, <3>1, <3>2
  <2>2. ASSUME NEW c \in Callers, call[c].phase = "permitted", m.task = call[c].task
        PROVE  Grounded(m.task)'
    <3>0. Callers = Runs \X Tasks
      BY ExecutionAssumptions
    <3>1. PICK r \in Runs, t \in Tasks : c = <<r, t>>
      BY <3>0
    <3>2. m.task = t /\ Grounded(t)
      BY <1>2, <2>2, <3>1 DEF OwnCalls, DInv, CallsGrounded
    <3>3. QED
      BY <1>4, <3>2
  <2>3. QED
    BY <1>1, <2>1, <2>2, WhoSends
<1>9. QED
  BY <1>1, <1>5, <1>6, <1>7, <1>8 DEF DInv

\* No request is on its way for a step that depends on one not done yet, for any
\* plan, and for any number of runs that overlap, cancel, crash and come back
\* to what an earlier one left.
THEOREM DependenciesDone == ExecSpec => []DependenciesFirst
<1>1. DInv => DependenciesFirst
  BY DEF DInv
<1>2. QED
  BY <1>1, DInvInit, DInvStep, PTL DEF ExecSpec

-------------------------------------------------------------------------------
(* SUCCESS of a workflow is said of work that is done *)

\* What may be said of a step under SUCCESS.
Told(t) == committed[t] = 1 \/ status[t] \in {"CANCELLED", Absent} \/ t \in later

Executing(r) == run[r].step \notin {"idle", "judging", "concluding", "raised", "over"}
Skips(r, t) == Executing(r) /\ run[r].memory[t] \in {"CANCELLED", "absent"}

\* A run that executes leaves out only what was stopped or is not there, or came
\* beside it ...
SkipsAreTold == \A r \in Runs, t \in WriteTasks : Skips(r, t) => Told(t)
\* ... and a verdict not written yet may be written.
VerdictStands ==
  \A r \in Runs : At(r, "concluding") /\ run[r].verdict = "SUCCESS" =>
    \A t \in WriteTasks : Told(t)

VInv ==
  /\ DInv
  /\ SkipsAreTold
  /\ VerdictStands
  /\ SuccessMeansDone

\* The row of t becomes open by r, with no other run live, and not under SUCCESS.
OpensAlone(r, t) ==
  /\ EnsureTask(r, t) \/ ReopenTasks(r)
  /\ status[t] \in {"CANCELLED", Absent} /\ status'[t] # status[t]
  /\ workflow # "SUCCESS" /\ \A q \in Runs \ {r} : ~Live(q)

\* Only inserting a row or reopening the workflow opens a row that was not open.
LEMMA WhoOpens ==
  ASSUME TypeOK, [ExecNext]_execVars, NEW t \in Tasks,
         status[t] \in {"CANCELLED", Absent}, status'[t] \notin {"CANCELLED", Absent}
  PROVE  \E r \in Runs : EnsureTask(r, t) \/ (ReopenTasks(r) /\ Reopenable(t))
<1>0. ASSUME NEW u \in Tasks, NEW s, UpdateTaskStatus(u, s) PROVE FALSE
  BY <1>0 DEF UpdateTaskStatus, StatusWritable, TypeOK
<1>1. ~(UNCHANGED status) /\ ~CancelOpenTasks
  BY DEF CancelOpenTasks, Unfinished
<1>2. ASSUME NEW q \in Runs, NEW u \in Tasks, EnsureTask(q, u) PROVE u = t
  BY <1>1, <1>2 DEF EnsureTask, CreateTask, TypeOK, vars
<1>3. ASSUME NEW q \in Runs, ReopenTasks(q) PROVE Reopenable(t)
  BY <1>1, <1>3 DEF ReopenTasks, ReopenCancelledTasks, vars
<1>4. ASSUME NEW q \in Runs,
             \/ StartFirst(q) \/ StartRetry(q) \/ StartAmend(q)
             \/ ReopenWorkflow(q) \/ ReadSeeds(q)
             \/ BeginRunning(q)
             \/ Finalize(q) \/ FinishPartly(q) \/ Judge(q) \/ WriteVerdict(q)
             \/ Raise(q) \/ MarkWorkflowFailed(q) \/ CrashRun(q)
      PROVE  UNCHANGED status
  BY <1>4 DEF StartFirst, StartRetry, StartAmend, ReopenWorkflow,
     ReadSeeds, BeginRunning, Finalize, FinishPartly, Judge, WriteVerdict, Raise,
     MarkWorkflowFailed, CrashRun, Crash, rowVars, vars
<1>5. ASSUME NEW q \in Runs, NEW u \in Tasks,
             \/ MarkRunning(q, u) \/ FailBlocked(q, u)
             \/ Unresolved(q, u) \/ CallProvider(q, u) \/ TakeAnswer(q, u)
             \/ SaveStatus(q, u) \/ SaveResult(q, u)
      PROVE  UNCHANGED status \/ \E s \in Statuses : UpdateTaskStatus(u, s)
  BY <1>5 DEF MarkRunning, FailBlocked, Unresolved, CallProvider, Statuses,
     Enter, EnterGateway, TakeAnswer, LeaveGateway, SaveStatus, SaveResult, rowVars, vars
<1>6. ASSUME NEW c \in Callers, GatewayStep(c) PROVE UNCHANGED status
  BY <1>6 DEF GatewayStep, PrepareSubmission, PrepareSubmissionRaises, Send,
     StopWaiting, RecordOutcome, rowVars
<1>7. CASE ProviderStep \/ CancelWorkflow \/ UNCHANGED execVars
  BY <1>1, <1>7 DEF ProviderStep, Provider, ProviderAccepts, ProviderRefuses,
     CancelWorkflow, rowVars, execVars, vars
<1>8. QED
  BY <1>0, <1>1, <1>2, <1>3, <1>4, <1>5, <1>6, <1>7 DEF ExecNext, RunStep

\* The history only grows.
LEMMA LaterGrows == ASSUME [ExecNext]_execVars PROVE later \subseteq later'
<1>1. ASSUME NEW r \in Runs, NEW T, Joins(r, T) PROVE later \subseteq later'
  BY <1>1 DEF Joins
<1>2. ASSUME NEW r \in Runs, RunStep(r) PROVE later \subseteq later'
  BY <1>1, <1>2 DEF RunStep, ReopenTasks, ReopenWorkflow, ReadSeeds, BeginRunning,
     EnsureTask, MarkRunning, FailBlocked, Unresolved, CallProvider, TakeAnswer, SaveStatus,
     SaveResult, Finalize, FinishPartly, Judge, WriteVerdict, Raise, MarkWorkflowFailed
<1>3. QED
  BY <1>2 DEF ExecNext, StartFirst, StartRetry, StartAmend, CrashRun, GatewayStep, ProviderStep,
     CancelWorkflow, execVars

\* So what may be said of a step may still be said of it, unless it is opened by a run
\* that is alone with it.
LEMMA ToldStep ==
  ASSUME DInv, DInv', [ExecNext]_execVars, NEW t \in WriteTasks, Told(t)
  PROVE  Told(t)' \/ \E r \in Runs : OpensAlone(r, t)
<1>1. t \in Tasks /\ TypeOK /\ ExecTypeOK /\ [Next]_vars /\ IInv /\ IInv'
  BY StepRefines DEF DInv, RInv, IInv, WriteTasks
<1>2. CASE committed[t] = 1
  BY <1>1, <1>2, CommitmentStays DEF Told
<1>3. CASE t \in later
  BY <1>3, LaterGrows DEF Told
<1>4. CASE status[t] \in {"CANCELLED", Absent} /\ status'[t] \in {"CANCELLED", Absent}
  BY <1>4 DEF Told
<1>5. CASE status[t] \in {"CANCELLED", Absent} /\ status'[t] \notin {"CANCELLED", Absent}
  <2>1. PICK r \in Runs : EnsureTask(r, t) \/ (ReopenTasks(r) /\ Reopenable(t))
    BY <1>1, <1>5, WhoOpens
  <2>2. CASE workflow = "SUCCESS" \/ \E q \in Runs \ {r} : Live(q)
    <3>1. CASE EnsureTask(r, t)
      <4>1. status[t] = Absent
        BY <1>1, <1>5, <3>1 DEF EnsureTask, CreateTask, vars
      <4>2. later' = later \cup ({t} \cap WriteTasks)
        BY <2>2, <3>1, <4>1 DEF EnsureTask, Joins
      <4>3. QED
        BY <4>2 DEF Told
    <3>2. CASE ReopenTasks(r) /\ Reopenable(t)
      <4>1. later' = later \cup ({u \in Tasks : Reopenable(u)} \cap WriteTasks)
        BY <2>2, <3>2 DEF ReopenTasks, Joins
      <4>2. t \in {u \in Tasks : Reopenable(u)}
        BY <1>1, <3>2
      <4>3. QED
        BY <4>1, <4>2 DEF Told
    <3>3. QED
      BY <2>1, <3>1, <3>2
  <2>3. CASE workflow # "SUCCESS" /\ \A q \in Runs \ {r} : ~Live(q)
    BY <1>5, <2>1, <2>3 DEF OpensAlone
  <2>4. QED
    BY <2>2, <2>3
<1>6. QED
  BY <1>2, <1>3, <1>4, <1>5 DEF Told

\* A run that opens a row alone is between reading and executing, and nobody else moves.
LEMMA AloneThen ==
  ASSUME ExecTypeOK, NEW r \in Runs, NEW t \in Tasks, OpensAlone(r, t)
  PROVE  /\ workflow' = workflow /\ workflow # "SUCCESS"
         /\ \A q \in Runs \ {r} : ~Live(q)'
         /\ ~At(r, "concluding")'
         /\ ~Skips(r, t)'
<1>1. run[r] \in RunStates
  BY DEF ExecTypeOK
<1>2. ASSUME NEW x, Update(r, x) PROVE run'[r] = x /\ \A q \in Runs \ {r} : run'[q] = run[q]
  BY <1>2 DEF Update, ExecTypeOK
<1>3. CASE EnsureTask(r, t)
  <2> DEFINE x == [run[r] EXCEPT !.memory[t] = "PENDING"]
  <2>1. Update(r, x) /\ run[r].step = "creating" /\ workflow' = workflow
    BY <1>3 DEF EnsureTask, At
  <2>2. x.step = "creating" /\ x.memory[t] = "PENDING"
    BY <1>1, <2>1 DEF RunStates
  <2> HIDE DEF x
  <2>3. QED
    BY <1>2, <2>1, <2>2 DEF OpensAlone, Live, At, Skips
<1>4. CASE ReopenTasks(r)
  <2> DEFINE x == [run[r] EXCEPT !.step = "unlocking", !.memory = PlanFromRows]
  <2>1. Update(r, x) /\ workflow' = workflow
    BY <1>4 DEF ReopenTasks
  <2>2. x.step = "unlocking" /\ x.memory = PlanFromRows
    BY <1>1 DEF RunStates
  <2> HIDE DEF x
  <2>3. status[t] # Absent
    BY <1>4 DEF OpensAlone, ReopenTasks, ReopenCancelledTasks, Reopenable, vars, Absent
  <2>4. PlanFromRows[t] = "PENDING"
    BY <2>3 DEF PlanFromRows
  <2>5. QED
    BY <1>2, <2>1, <2>2, <2>4 DEF OpensAlone, Live, At, Skips
<1>5. QED
  BY <1>3, <1>4 DEF OpensAlone

\* A run whose record is replaced leaves a step out if the new record says so.
LEMMA SkipsWhole ==
  ASSUME ExecTypeOK, NEW r \in Runs, NEW t \in Tasks, NEW q \in Runs, NEW x,
         Update(q, x), Skips(r, t)'
  PROVE  \/ Skips(r, t)
         \/ /\ r = q /\ x.memory[t] \in {"CANCELLED", "absent"}
            /\ x.step \notin {"idle", "judging", "concluding", "raised", "over"}
BY DEF Update, ExecTypeOK, Skips, Executing

\* One that executes, and remembers of one task that it is open or has ended, leaves out
\* no more than it did.
LEMMA SkipsOne ==
  ASSUME ExecTypeOK, NEW r \in Runs, NEW t \in Tasks, NEW q \in Runs, NEW u \in Tasks,
         NEW m, m \notin {"CANCELLED", "absent"}, NEW x, Update(q, x),
         x.memory = run[q].memory \/ x.memory = [run[q].memory EXCEPT ![u] = m],
         Executing(q), Skips(r, t)'
  PROVE  Skips(r, t)
<1>1. run[q].memory \in [Tasks -> Memory]
  BY DEF ExecTypeOK, RunStates
<1>2. x.memory[t] \in {"CANCELLED", "absent"} => x.memory[t] = run[q].memory[t]
  BY <1>1
<1>3. QED
  BY <1>2, SkipsWhole DEF Skips

\* A step is left out when its row is read as stopped, or is not among the rows.
LEMMA SkipStep ==
  ASSUME ExecTypeOK, [ExecNext]_execVars, NEW r \in Runs, NEW t \in Tasks, Skips(r, t)'
  PROVE  Skips(r, t) \/ status[t] \in {"CANCELLED", Absent}
<1> DEFINE Fine == Skips(r, t) \/ status[t] \in {"CANCELLED", Absent}
<1> USE DEF At
<1>1. ASSUME NEW q \in Runs PROVE run[q] \in RunStates
  BY DEF ExecTypeOK
<1>2. PlanFromRows[t] \in {"CANCELLED", "absent"} => status[t] = Absent
  BY DEF PlanFromRows
<1>3. ASSUME NEW q \in Runs, NEW s \in {"judging", "raised", "over"}, Update(q, Left(q, s))
      PROVE  Fine
  <2>1. Left(q, s).step = s
    BY DEF Left, NoRun
  <2>2. QED
    BY <1>3, <2>1, SkipsWhole
<1>4. ASSUME NEW q \in Runs, End(q) PROVE Fine
  BY <1>3, <1>4 DEF End
<1>5. ASSUME NEW q \in Runs, NEW s, Goto(q, s), Executing(q) PROVE Fine
  BY <1>1, <1>5 DEF Goto, ExecTypeOK, RunStates, Skips, Executing
<1>6. ASSUME NEW q \in Runs, NEW k, NEW s, NEW m, Start(q, k, s, m),
             m[t] \in {"CANCELLED", "absent"} => status[t] = Absent
      PROVE  Fine
  <2> DEFINE x == [NoRun EXCEPT !.step = s, !.kind = k, !.memory = m]
  <2>1. x.memory = m
    BY DEF NoRun
  <2>2. Update(q, x)
    BY <1>6 DEF Start
  <2> HIDE DEF x
  <2>3. QED
    BY <1>6, <2>1, <2>2, SkipsWhole
<1>7. ASSUME NEW q \in Runs, StartFirst(q) \/ StartRetry(q) \/ StartAmend(q) PROVE Fine
  BY <1>2, <1>6, <1>7 DEF StartFirst, StartRetry, StartAmend
<1>8. ASSUME NEW q \in Runs,
             \/ Finalize(q) \/ WriteVerdict(q) \/ MarkWorkflowFailed(q) \/ CrashRun(q)
             \/ FinishPartly(q) \/ Raise(q)
      PROVE  Fine
  BY <1>3, <1>4, <1>8 DEF Finalize, WriteVerdict, MarkWorkflowFailed, CrashRun,
     FinishPartly, Raise
<1>9. ASSUME NEW q \in Runs, ReopenWorkflow(q) \/ BeginRunning(q) PROVE Fine
  BY <1>5, <1>9 DEF ReopenWorkflow, BeginRunning, Executing
<1>10. ASSUME NEW q \in Runs, ReopenTasks(q) PROVE Fine
  <2> DEFINE x == [run[q] EXCEPT !.step = "unlocking", !.memory = PlanFromRows]
  <2>1. Update(q, x) /\ x.memory = PlanFromRows
    BY <1>1, <1>10 DEF ReopenTasks, RunStates
  <2> HIDE DEF x
  <2>2. QED
    BY <1>2, <2>1, SkipsWhole
<1>11. ASSUME NEW q \in Runs, ReadSeeds(q) PROVE Fine
  <2> DEFINE m == [u \in Tasks |-> Seed(status[u], run[q].memory[u])]
             x == [run[q] EXCEPT
                     !.step = "creating",
                     !.memory = m,
                     !.usable = {u \in Tasks : status[u] = "SUCCESS" /\ result[u] = "ok"}]
  <2>1. CASE End(q)
    BY <1>4, <2>1
  <2>2. CASE Update(q, x)
    <3>1. x.memory = m
      BY <1>1 DEF RunStates
    <3> HIDE DEF x
    <3>2. m[t] \in {"CANCELLED", "absent"} =>
            status[t] = "CANCELLED" \/ run[q].memory[t] \in {"CANCELLED", "absent"}
      BY DEF Seed
    <3>3. Executing(q)
      BY <1>11 DEF ReadSeeds, Executing
    <3>4. QED
      BY <2>2, <3>1, <3>2, <3>3, SkipsWhole DEF Skips
  <2>3. QED
    BY <1>1, <1>11, <2>1, <2>2 DEF ReadSeeds, RunStates
<1>12. ASSUME NEW q \in Runs, Judge(q) PROVE Fine
  <2> DEFINE x == [run[q] EXCEPT !.step = "concluding", !.verdict = FinalStatus]
  <2>1. Update(q, x) /\ x.step = "concluding"
    BY <1>1, <1>12 DEF Judge, RunStates
  <2> HIDE DEF x
  <2>2. QED
    BY <2>1, SkipsWhole
<1>13. ASSUME NEW q \in Runs, NEW u \in Tasks,
              \/ EnsureTask(q, u) \/ MarkRunning(q, u) \/ FailBlocked(q, u) \/ SaveStatus(q, u)
              \/ Unresolved(q, u) \/ CallProvider(q, u) \/ TakeAnswer(q, u) \/ SaveResult(q, u)
       PROVE  Executing(q)
  BY <1>13 DEF EnsureTask, MarkRunning, FailBlocked, SaveStatus, Unresolved, CallProvider,
     TakeAnswer, SaveResult, Executing
<1>14. ASSUME NEW q \in Runs, NEW u \in Tasks, NEW x, Update(q, x), Executing(q),
              \/ x.memory = run[q].memory
              \/ \E m \in {"PENDING", "RUNNING", "SUCCESS", "FAILED"} :
                   x.memory = [run[q].memory EXCEPT ![u] = m]
       PROVE  Fine
  <2>1. PICK m \in {"PENDING", "RUNNING", "SUCCESS", "FAILED"} :
          x.memory = run[q].memory \/ x.memory = [run[q].memory EXCEPT ![u] = m]
    BY <1>14
  <2>2. QED
    BY <1>14, <2>1, SkipsOne
<1>15. ASSUME NEW q \in Runs, NEW u \in Tasks, EnsureTask(q, u) PROVE Fine
  <2> DEFINE x == [run[q] EXCEPT !.memory[u] = "PENDING"]
  <2>1. Update(q, x) /\ x.memory = [run[q].memory EXCEPT ![u] = "PENDING"]
    BY <1>1, <1>15 DEF EnsureTask, RunStates
  <2> HIDE DEF x
  <2>2. QED
    BY <1>13, <1>14, <1>15, <2>1
<1>16. ASSUME NEW q \in Runs, NEW u \in Tasks, MarkRunning(q, u) PROVE Fine
  <2> DEFINE x == [run[q] EXCEPT
                     !.step = IF Ready(q) = {u} THEN "calling" ELSE @,
                     !.memory[u] = "RUNNING"]
  <2>1. Update(q, x) /\ x.memory = [run[q].memory EXCEPT ![u] = "RUNNING"]
    BY <1>1, <1>16 DEF MarkRunning, RunStates
  <2> HIDE DEF x
  <2>2. QED
    BY <1>13, <1>14, <1>16, <2>1
<1>17. ASSUME NEW q \in Runs, NEW u \in Tasks, FailBlocked(q, u) PROVE Fine
  <2> DEFINE x == [run[q] EXCEPT !.memory[u] = "FAILED", !.outcome[u] = "dependency"]
  <2>1. Update(q, x) /\ x.memory = [run[q].memory EXCEPT ![u] = "FAILED"]
    BY <1>1, <1>17 DEF FailBlocked, RunStates
  <2> HIDE DEF x
  <2>2. QED
    BY <1>13, <1>14, <1>17, <2>1
<1>18. ASSUME NEW q \in Runs, NEW u \in Tasks, SaveStatus(q, u) PROVE Fine
  <2> DEFINE s == IF run[q].outcome[u] = "ok" THEN "SUCCESS" ELSE "FAILED"
             x == [run[q] EXCEPT
                     !.memory[u] = s,
                     !.usable = IF s = "SUCCESS" THEN @ \cup {u} ELSE @]
  <2>1. Update(q, x) /\ x.memory = [run[q].memory EXCEPT ![u] = s]
    BY <1>1, <1>18 DEF SaveStatus, RunStates
  <2>2. s \in {"SUCCESS", "FAILED"}
    OBVIOUS
  <2> HIDE DEF x, s
  <2>3. QED
    BY <1>13, <1>14, <1>18, <2>1, <2>2
<1>19. ASSUME NEW q \in Runs, NEW u \in Tasks,
              Unresolved(q, u) \/ CallProvider(q, u) \/ TakeAnswer(q, u) \/ SaveResult(q, u)
       PROVE  Fine
  <2>1. ASSUME NEW x, Update(q, x), x.memory = run[q].memory PROVE Fine
    BY <1>13, <1>14, <1>19, <2>1
  <2>2. CASE Unresolved(q, u)
    BY <1>1, <2>1, <2>2 DEF Unresolved, RunStates
  <2>3. CASE CallProvider(q, u)
    BY <1>1, <2>1, <2>3 DEF CallProvider, RunStates
  <2>4. CASE TakeAnswer(q, u)
    BY <1>1, <2>1, <2>4 DEF TakeAnswer, RunStates
  <2>5. CASE SaveResult(q, u)
    BY <1>1, <2>1, <2>5 DEF SaveResult, RunStates
  <2>6. QED
    BY <1>19, <2>2, <2>3, <2>4, <2>5
<1>20. CASE UNCHANGED run
  BY <1>20 DEF Skips, Executing
<1>21. CASE \/ \E c \in Callers : GatewayStep(c)
            \/ ProviderStep
            \/ CancelWorkflow
            \/ UNCHANGED execVars
  BY <1>20, <1>21 DEF GatewayStep, ProviderStep, CancelWorkflow, execVars
<1>22. QED
  BY <1>7, <1>8, <1>9, <1>10, <1>11, <1>12, <1>15, <1>16, <1>17, <1>18, <1>19, <1>21
     DEF ExecNext, RunStep

\* SUCCESS is written by a run that saw every step of its plan settled, or by a verdict.
LEMMA WhoSucceeds ==
  ASSUME ExecTypeOK, [ExecNext]_execVars, workflow' = "SUCCESS", workflow # "SUCCESS"
  PROVE  \E r \in Runs :
           \/ Finalize(r) /\ AllSettled(r)
           \/ WriteVerdict(r) /\ run[r].verdict = "SUCCESS"
<1>1. ~(UNCHANGED workflow)
  OBVIOUS
<1>2. ASSUME NEW s, UpdateWorkflowStatus(s) PROVE s = "SUCCESS"
  BY <1>2 DEF UpdateWorkflowStatus
<1>3. ASSUME NEW r \in Runs, RunStep(r)
      PROVE  \/ Finalize(r) /\ AllSettled(r)
             \/ WriteVerdict(r) /\ run[r].verdict = "SUCCESS"
  <2>1. CASE Finalize(r)
    BY <1>2, <2>1 DEF Finalize
  <2>2. CASE WriteVerdict(r)
    BY <1>2, <2>2 DEF WriteVerdict
  <2>3. ~BeginRunning(r) /\ ~FinishPartly(r)
    BY <1>1, <1>2 DEF BeginRunning, FinishPartly
  <2>4. ~ReopenWorkflow(r) /\ ~MarkWorkflowFailed(r)
    BY <1>1 DEF ReopenWorkflow, MarkWorkflowFailed
  <2>5. ~(ReopenTasks(r) \/ ReadSeeds(r) \/ Judge(r) \/ Raise(r))
    BY <1>1 DEF ReopenTasks, ReadSeeds, Judge, Raise
  <2>6. ASSUME NEW t \in Tasks
        PROVE ~(\/ EnsureTask(r, t) \/ MarkRunning(r, t) \/ FailBlocked(r, t)
                \/ Unresolved(r, t) \/ CallProvider(r, t) \/ TakeAnswer(r, t)
                \/ SaveStatus(r, t) \/ SaveResult(r, t))
    BY <1>1 DEF EnsureTask, MarkRunning, FailBlocked, Unresolved, CallProvider, TakeAnswer,
       SaveStatus, SaveResult
  <2>7. QED
    BY <1>3, <2>1, <2>2, <2>3, <2>4, <2>5, <2>6 DEF RunStep
<1>4. ASSUME NEW r \in Runs
      PROVE ~(StartFirst(r) \/ StartRetry(r) \/ StartAmend(r) \/ CrashRun(r))
  BY <1>1 DEF StartFirst, StartRetry, StartAmend, CrashRun
<1>5. ~(\/ \E c \in Callers : GatewayStep(c)
        \/ ProviderStep \/ CancelWorkflow \/ UNCHANGED execVars)
  BY <1>1 DEF GatewayStep, ProviderStep, CancelWorkflow, execVars
<1>6. QED
  BY <1>3, <1>4, <1>5 DEF ExecNext

\* A verdict to be written was drawn by that run from the rows.
LEMMA WhoConcludes ==
  ASSUME ExecTypeOK, [ExecNext]_execVars, NEW r \in Runs, At(r, "concluding")',
         run'[r].verdict = "SUCCESS"
  PROVE  \/ At(r, "concluding") /\ run[r].verdict = "SUCCESS"
         \/ Judge(r) /\ FinalStatus = "SUCCESS"
<1> USE DEF At
<1>1. ASSUME NEW q \in Runs PROVE run[q] \in RunStates
  BY DEF ExecTypeOK
<1>2. ASSUME NEW q \in Runs, NEW x, Update(q, x), x.step # "concluding"
      PROVE  run'[r] = run[r]
  BY <1>2 DEF Update, ExecTypeOK
<1>3. ASSUME NEW q \in Runs, NEW s \in {"judging", "raised", "over"}, Update(q, Left(q, s))
      PROVE  run'[r] = run[r]
  <2>1. Left(q, s).step = s
    BY DEF Left, NoRun
  <2>2. QED
    BY <1>2, <1>3, <2>1
<1>4. ASSUME NEW q \in Runs, End(q) PROVE run'[r] = run[r]
  BY <1>3, <1>4 DEF End
<1>5. ASSUME NEW q \in Runs, NEW s \in {"reading", "scheduling"}, Goto(q, s)
      PROVE  run'[r] = run[r]
  BY <1>1, <1>5 DEF Goto, ExecTypeOK, RunStates
<1>6. ASSUME NEW q \in Runs, StartFirst(q) \/ StartRetry(q) \/ StartAmend(q)
      PROVE  run'[r] = run[r]
  <2>1. ASSUME NEW k, NEW s \in {"creating", "reading", "reopening"}, NEW m, Start(q, k, s, m)
        PROVE  run'[r] = run[r]
    <3> DEFINE x == [NoRun EXCEPT !.step = s, !.kind = k, !.memory = m]
    <3>1. Update(q, x) /\ x.step = s
      BY <2>1 DEF Start, NoRun
    <3> HIDE DEF x
    <3>2. QED
      BY <1>2, <2>1, <3>1
  <2>2. QED
    BY <1>6, <2>1 DEF StartFirst, StartRetry, StartAmend
<1>7. ASSUME NEW q \in Runs,
             \/ Finalize(q) \/ WriteVerdict(q) \/ MarkWorkflowFailed(q) \/ CrashRun(q)
             \/ FinishPartly(q) \/ Raise(q) \/ ReopenWorkflow(q) \/ BeginRunning(q)
      PROVE  run'[r] = run[r]
  BY <1>3, <1>4, <1>5, <1>7 DEF Finalize, WriteVerdict, MarkWorkflowFailed, CrashRun,
     FinishPartly, Raise, ReopenWorkflow, BeginRunning
<1>8. ASSUME NEW q \in Runs, NEW x, Update(q, x), x.step = run[q].step,
             run[q].step # "concluding"
      PROVE  run'[r] = run[r]
  BY <1>2, <1>8
<1>9. ASSUME NEW q \in Runs, ReopenTasks(q) \/ ReadSeeds(q) PROVE run'[r] = run[r]
  <2>1. CASE ReopenTasks(q)
    <3> DEFINE x == [run[q] EXCEPT !.step = "unlocking", !.memory = PlanFromRows]
    <3>1. Update(q, x) /\ x.step = "unlocking"
      BY <1>1, <2>1 DEF ReopenTasks, RunStates
    <3> HIDE DEF x
    <3>2. QED
      BY <1>2, <3>1
  <2>2. CASE ReadSeeds(q)
    <3> DEFINE x == [run[q] EXCEPT
                       !.step = "creating",
                       !.memory = [u \in Tasks |-> Seed(status[u], @[u])],
                       !.usable = {u \in Tasks : status[u] = "SUCCESS" /\ result[u] = "ok"}]
    <3>1. x.step = "creating"
      BY <1>1 DEF RunStates
    <3>2. Update(q, x) \/ End(q)
      BY <2>2 DEF ReadSeeds
    <3> HIDE DEF x
    <3>3. QED
      BY <1>2, <1>4, <3>1, <3>2
  <2>3. QED
    BY <1>9, <2>1, <2>2
<1>10. ASSUME NEW q \in Runs, NEW u \in Tasks,
              \/ EnsureTask(q, u) \/ MarkRunning(q, u) \/ FailBlocked(q, u)
              \/ Unresolved(q, u) \/ CallProvider(q, u) \/ TakeAnswer(q, u)
              \/ SaveStatus(q, u) \/ SaveResult(q, u)
       PROVE  run'[r] = run[r]
  <2>1. CASE EnsureTask(q, u)
    BY <1>1, <1>2, <2>1 DEF EnsureTask, RunStates
  <2>2. CASE MarkRunning(q, u)
    BY <1>1, <1>2, <2>2 DEF MarkRunning, RunStates
  <2>3. CASE FailBlocked(q, u)
    BY <1>1, <1>2, <2>3 DEF FailBlocked, RunStates
  <2>4. CASE Unresolved(q, u)
    BY <1>1, <1>2, <2>4 DEF Unresolved, RunStates
  <2>5. CASE CallProvider(q, u)
    BY <1>1, <1>2, <2>5 DEF CallProvider, RunStates
  <2>6. CASE TakeAnswer(q, u)
    BY <1>1, <1>2, <2>6 DEF TakeAnswer, RunStates
  <2>7. CASE SaveStatus(q, u)
    BY <1>1, <1>2, <2>7 DEF SaveStatus, RunStates
  <2>8. CASE SaveResult(q, u)
    BY <1>1, <1>2, <2>8 DEF SaveResult, RunStates
  <2>9. QED
    BY <1>10, <2>1, <2>2, <2>3, <2>4, <2>5, <2>6, <2>7, <2>8
<1>11. ASSUME NEW q \in Runs, Judge(q)
       PROVE  run'[r] = run[r] \/ (q = r /\ FinalStatus = "SUCCESS")
  <2> DEFINE x == [run[q] EXCEPT !.step = "concluding", !.verdict = FinalStatus]
  <2>1. Update(q, x) /\ x.verdict = FinalStatus
    BY <1>1, <1>11 DEF Judge, RunStates
  <2> HIDE DEF x
  <2>2. QED
    BY <2>1 DEF Update, ExecTypeOK
<1>12. CASE \/ \E c \in Callers : GatewayStep(c)
            \/ ProviderStep
            \/ CancelWorkflow
            \/ UNCHANGED execVars
  BY <1>12 DEF GatewayStep, ProviderStep, CancelWorkflow, execVars
<1>13. QED
  BY <1>6, <1>7, <1>9, <1>10, <1>11, <1>12 DEF ExecNext, RunStep

\* At the start nothing runs and nothing is a success.
LEMMA VInvInit == ExecInit => VInv
<1>1. SUFFICES ASSUME ExecInit PROVE VInv
  OBVIOUS
<1>2. DInv
  BY <1>1, DInvInit
<1>3. \A r \in Runs : run[r].step = "idle"
  BY <1>1 DEF ExecInit, NoRun
<1>4. SkipsAreTold /\ VerdictStands
  BY <1>3 DEF SkipsAreTold, VerdictStands, Skips, Executing, At
<1>5. SuccessMeansDone
  BY <1>1 DEF ExecInit, SuccessMeansDone
<1>6. QED
  BY <1>2, <1>4, <1>5 DEF VInv

\* What a run settles, what a verdict is drawn from and what it is written over may
\* be told of every step; and it stays so, for a step is only opened by a run alone.
LEMMA VInvStep == VInv /\ [ExecNext]_execVars => VInv'
<1> SUFFICES ASSUME VInv, [ExecNext]_execVars PROVE VInv'
  OBVIOUS
<1>1. DInv /\ DInv'
  BY DInvStep DEF VInv
<1>2. ExecTypeOK /\ SuccessIsCommitted /\ MemoryIsReal
  BY <1>1 DEF DInv, RInv
<1>3. ASSUME NEW t \in WriteTasks PROVE t \in Tasks
  BY DEF WriteTasks
<1>4. SkipsAreTold'
  <2> SUFFICES ASSUME NEW r \in Runs, NEW t \in WriteTasks, Skips(r, t)' PROVE Told(t)'
    BY DEF SkipsAreTold
  <2>1. Skips(r, t) \/ status[t] \in {"CANCELLED", Absent}
    BY <1>2, <1>3, SkipStep
  <2>2. Told(t)
    BY <2>1 DEF VInv, SkipsAreTold, Told
  <2>3. ASSUME NEW q \in Runs, OpensAlone(q, t) PROVE FALSE
    <3>1. ~Skips(q, t)' /\ \A p \in Runs \ {q} : ~Live(p)'
      BY <1>2, <1>3, <2>3, AloneThen
    <3>2. QED
      BY <3>1 DEF Skips, Executing, Live
  <2>4. QED
    BY <1>1, <2>2, <2>3, ToldStep
<1>5. VerdictStands'
  <2> SUFFICES ASSUME NEW r \in Runs, At(r, "concluding")', run'[r].verdict = "SUCCESS",
                      NEW t \in WriteTasks
               PROVE  Told(t)'
    BY DEF VerdictStands, At
  <2>1. ASSUME At(r, "concluding"), run[r].verdict = "SUCCESS" PROVE Told(t)
    BY <2>1 DEF VInv, VerdictStands
  <2>2. ASSUME FinalStatus = "SUCCESS" PROVE Told(t)
    <3>1. status[t] # Absent => status[t] \in Settled
      BY <1>3, <2>2 DEF FinalStatus
    <3>2. QED
      BY <1>2, <3>1 DEF Settled, Told, SuccessIsCommitted
  <2>3. Told(t)
    BY <1>2, <2>1, <2>2, WhoConcludes
  <2>4. ASSUME NEW q \in Runs, OpensAlone(q, t) PROVE FALSE
    <3>1. ~At(q, "concluding")' /\ \A p \in Runs \ {q} : ~Live(p)'
      BY <1>2, <1>3, <2>4, AloneThen
    <3>2. QED
      BY <3>1 DEF At, Live
  <2>5. QED
    BY <1>1, <2>3, <2>4, ToldStep
<1>6. SuccessMeansDone'
  <2> SUFFICES ASSUME workflow' = "SUCCESS", NEW t \in WriteTasks PROVE Told(t)'
    BY DEF SuccessMeansDone, Told
  <2>1. ASSUME workflow = "SUCCESS" PROVE Told(t)
    BY <2>1 DEF VInv, SuccessMeansDone, Told
  <2>2. ASSUME NEW r \in Runs, Finalize(r), AllSettled(r) PROVE Told(t)
    <3>1. run[r].memory[t] \in {"absent", "SUCCESS", "CANCELLED"}
      BY <1>3, <2>2 DEF AllSettled, InPlan, Settled
    <3>2. Executing(r)
      BY <2>2 DEF Finalize, At, Executing
    <3>3. QED
      BY <1>2, <3>1, <3>2 DEF VInv, SkipsAreTold, Skips, MemoryIsReal, Told
  <2>3. ASSUME NEW r \in Runs, WriteVerdict(r), run[r].verdict = "SUCCESS" PROVE Told(t)
    BY <2>3 DEF WriteVerdict, VInv, VerdictStands
  <2>4. Told(t)
    BY <1>2, <2>1, <2>2, <2>3, WhoSucceeds
  <2>5. ASSUME NEW q \in Runs, OpensAlone(q, t) PROVE FALSE
    BY <1>2, <1>3, <2>5, AloneThen
  <2>6. QED
    BY <1>1, <2>4, <2>5, ToldStep
<1>7. QED
  BY <1>1, <1>4, <1>5, <1>6 DEF VInv

\* A workflow is not called a success over a step that was neither done nor stopped, for any
\* plan and any number of runs that overlap, cancel and crash: each draws its verdict
\* from a memory or a read that the others leave behind.
THEOREM SuccessStands == ExecSpec => []SuccessMeansDone
<1>1. VInv => SuccessMeansDone
  BY DEF VInv
<1>2. QED
  BY <1>1, VInvInit, VInvStep, PTL DEF ExecSpec
===============================================================================
