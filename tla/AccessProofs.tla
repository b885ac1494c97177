---------------------------- MODULE AccessProofs ----------------------------
(***************************************************************************)
(* For any number of workers, banks, logins, consents, sessions and codes: *)
(* types; an authorisation code is exchanged at most once; codes, bindings *)
(* and listings rest on what customers agreed to.                          *)
(***************************************************************************)
EXTENDS Access, SequenceTheorems, FiniteSetTheorems, TLAPS

-----------------------------------------------------------------------------
(* Codes are exchanged once. *)

(* A code in the dict was issued and has not been exchanged; one that was  *)
(* never issued has not been exchanged either.  The second half is what    *)
(* makes the first inductive: a new code must not have been one before.    *)
CodeInv(c) ==
  /\ redeemed[c] \in {0, 1}
  /\ c \in DOMAIN codes => c \in issued /\ redeemed[c] = 0
  /\ c \notin issued => redeemed[c] = 0

CodesInv ==
  /\ DOMAIN codes \subseteq Codes
  /\ DOMAIN redeemed = Codes
  /\ \A c \in Codes : CodeInv(c)

-----------------------------------------------------------------------------

(* Every action but two leaves codes alone and only adds to the ids.       *)
LEMMA CodesUntouched ==
  ASSUME CodesInv, codes' = codes, redeemed' = redeemed, issued \subseteq issued'
  PROVE  CodesInv'
BY DEF CodesInv, CodeInv

LEMMA InitCodes == Init => CodesInv
BY DEF Init, CodesInv, CodeInv

(* The steps that write nothing but the frame of their worker, and the     *)
(* number of payments there have been.                                     *)
Quiet(w) ==
  \/ ListAccounts(w) \/ ScopeToCustomer(w) \/ MatchCustomer(w) \/ KeepOthers(w)
  \/ PurgePayments(w) \/ PaymentsPurged(w) \/ AddPayment(w)

QuietLabels ==
  {"list_accounts", "scope", "match", "purging", "purge_payments", "purging_payments",
   "add_payment"}

LEMMA QuietKeeps ==
  ASSUME NEW w \in Workers, Quiet(w)
  PROVE  /\ UNCHANGED <<banks, customers, credentials, sessions, live, consents, stores, codes,
                        issued, registered, grants, shown, redeemed, revoked, late, disturbed,
                        restarts>>
         /\ UNCHANGED <<rows, objects, history>>
         /\ frame[w].pc \in QuietLabels
BY DEF Quiet, ListAccounts, ScopeToCustomer, MatchCustomer, KeepOthers, PurgePayments,
       PaymentsPurged, AddPayment, rows, objects, counters, history, QuietLabels

(* The heads of requests, and the requests served in one step.             *)
LEMMA AcceptsKeep ==
  ASSUME CodesInv, NEW w \in Workers, Accepts(w) PROVE CodesInv'
<1>1. codes' = codes /\ redeemed' = redeemed /\ issued' = issued
  BY DEF Accepts, BeginCreateCustomer, BeginRegister, BeginLogin, BeginAuthorize,
         BeginConsentCall, BeginFinishSca, BeginToken, BeginDeleteBank, BeginCreateConsent,
         BeginPayment, Logout, rows, objects, history
<1> QED BY <1>1, CodesUntouched

(* A code is new: it was not in the dict, nor ever exchanged.              *)
LEMMA IssueCodeKeeps ==
  ASSUME CodesInv, NEW w \in Workers, IssueCode(w) PROVE CodesInv'
<1>1. PICK c \in NewId(Codes) :
        /\ codes' = Extend(codes, c, [bank |-> frame[w].bank, consent |-> frame[w].consent,
                                      session |-> frame[w].session])
        /\ issued' = issued \union {c}
  BY DEF IssueCode
<1>2. c \in Codes /\ c \notin issued
  BY <1>1 DEF NewId
<1>3. DOMAIN codes' = DOMAIN codes \union {c}
  BY <1>1 DEF Extend
<1>4. redeemed' = redeemed
  BY DEF IssueCode, history
<1> QED BY <1>1, <1>2, <1>3, <1>4 DEF CodesInv, CodeInv

(* The code leaves the dict in the step that exchanges it; who finds it    *)
(* gone exchanges nothing.                                                 *)
LEMMA DropCodeKeeps ==
  ASSUME CodesInv, NEW w \in Workers, DropCode(w) PROVE CodesInv'
<1>1. issued' = issued
  BY DEF DropCode
<1>2. CASE frame[w].code \notin DOMAIN codes
  <2>1. codes' = codes /\ redeemed' = redeemed
    BY <1>2 DEF DropCode
  <2> QED BY <1>1, <2>1, CodesUntouched
<1>3. CASE frame[w].code \in DOMAIN codes
  <2> DEFINE d == frame[w].code
  <2>1. d \in Codes /\ redeemed[d] = 0 /\ d \in issued
    BY <1>3 DEF CodesInv, CodeInv
  <2>2. DOMAIN codes' = DOMAIN codes \ {d}
    BY <1>3 DEF DropCode
  <2>3. redeemed' = [redeemed EXCEPT ![d] = redeemed[d] + 1]
    BY <1>3 DEF DropCode
  <2>4. DOMAIN redeemed' = Codes /\ redeemed'[d] = 1
    BY <2>1, <2>3 DEF CodesInv
  <2>5. ASSUME NEW c \in Codes PROVE CodeInv(c)'
    <3>1. CASE c = d
      BY <3>1, <1>1, <2>1, <2>2, <2>4 DEF CodeInv
    <3>2. CASE c # d
      BY <3>2, <1>1, <2>2, <2>3, <2>5 DEF CodesInv, CodeInv
    <3> QED BY <3>1, <3>2
  <2> QED BY <2>2, <2>4, <2>5 DEF CodesInv
<1> QED BY <1>2, <1>3

LEMMA WorksKeep ==
  ASSUME CodesInv, NEW w \in Workers, Works(w) PROVE CodesInv'
<1>1. CASE IssueCode(w)
  BY <1>1, IssueCodeKeeps
<1>2. CASE DropCode(w)
  BY <1>2, DropCodeKeeps
<1>3. CASE \/ AddCustomer(w) \/ CheckCustomer(w) \/ AddCredential(w)
           \/ FindCredential(w) \/ OpenSession(w)
  <2>1. codes' = codes /\ redeemed' = redeemed /\ issued \subseteq issued'
    BY <1>3 DEF AddCustomer, CheckCustomer, AddCredential, FindCredential, OpenSession,
                rows, objects, history
  <2> QED BY <2>1, CodesUntouched
<1>4. CASE ConsentPsu(w) \/ Approve(w) \/ BindCustomer(w) \/ Narrow(w)
  <2>1. codes' = codes /\ redeemed' = redeemed /\ issued' = issued
    BY <1>4 DEF ConsentPsu, Approve, BindCustomer, Narrow, rows, objects, history
  <2> QED BY <2>1, CodesUntouched
<1>5. CASE \/ AddConsent(w) \/ LoadConsent(w) \/ StartSca(w) \/ VerifyPsu(w)
           \/ Finalise(w) \/ Terminate(w) \/ List(w)
  <2>1. codes' = codes /\ redeemed' = redeemed /\ issued \subseteq issued'
    BY <1>5 DEF AddConsent, LoadConsent, StartSca, VerifyPsu, Finalise, Terminate, List,
                rows, objects, history
  <2> QED BY <2>1, CodesUntouched
<1>6. CASE \/ RemoveBank(w) \/ RemoveCustomers(w) \/ PurgeConsents(w) \/ Purged(w)
           \/ PurgeCredentials(w)
  <2>1. codes' = codes /\ redeemed' = redeemed /\ issued' = issued
    BY <1>6 DEF RemoveBank, RemoveCustomers, PurgeConsents, Purged, PurgeCredentials,
                rows, objects, history
  <2> QED BY <2>1, CodesUntouched
<1>7. CASE Quiet(w)
  BY <1>7, QuietKeeps, CodesUntouched
<1> QED BY <1>1, <1>2, <1>3, <1>4, <1>5, <1>6, <1>7 DEF Works, Quiet

-----------------------------------------------------------------------------

(* Two exchanges may both have looked a code up before either deletes it   *)
(* (BeginToken, DropCode); still the code is exchanged at most once,       *)
(* whatever logins, approvals, revocations, deletions and restarts run next *)
(* to them.                                                                *)
THEOREM CodesWorkOnce == Spec => []CodeRedeemedOnce
<1>1. CodesInv /\ [Next]_vars => CodesInv'
  <2> SUFFICES ASSUME CodesInv, [Next]_vars PROVE CodesInv'
    OBVIOUS
  <2>1. CASE UNCHANGED vars
    BY <2>1, CodesUntouched DEF vars
  <2>2. CASE AllServed
    BY <2>2, CodesUntouched DEF AllServed, vars
  <2>3. CASE \E w \in Workers : Accepts(w) \/ Works(w)
    BY <2>3, AcceptsKeep, WorksKeep
  <2>4. CASE Restart
    <3>1. DOMAIN codes' = {}
      BY <2>4 DEF Restart
    <3>2. redeemed' = redeemed /\ issued' = issued
      BY <2>4 DEF Restart, history
    <3> QED BY <3>1, <3>2 DEF CodesInv, CodeInv
  <2> QED BY <2>1, <2>2, <2>3, <2>4 DEF Next
<1>2. CodesInv => CodeRedeemedOnce
  BY DEF CodesInv, CodeInv, CodeRedeemedOnce
<1> QED BY InitCodes, <1>1, <1>2, PTL DEF Spec

-----------------------------------------------------------------------------
(* Types. *)

Redirected == {"consent_psu", "approve", "bind_customer", "narrow", "issue_code"}
Listing == {"list_accounts", "scope", "match", "list"}
Loaded == {"start", "verify_psu", "finalise", "terminate"} \union Listing
Named == {"add_customer", "check_customer", "add_credential", "find_credential", "open_session"}

(* What a request has in its hands at a label, given the sessions, the ids *)
(* of the consents and the number of dicts there have been.                *)
Ready(f, label, ss, ids, dicts) ==
  /\ label # "idle" => f.bank \in Banks
  /\ label \in Named \union Redirected => f.user \in Users
  /\ label \in {"check_customer", "add_credential", "open_session"} \union Redirected =>
       f.customer \in CustomerIds
  /\ label \in {"load_consent"} \union Redirected \union Loaded => f.consent \in ids
  /\ label \in {"find_credential", "open_session"} /\ f.op = "authorize" => f.consent \in ids
  /\ label \in Redirected => f.session \in DOMAIN ss /\ ss[f.session].customer = f.customer
  /\ label = "load_consent" /\ f.op = "finish_sca" => f.session \in DOMAIN ss
  /\ label = "verify_psu" => f.session \in DOMAIN ss
  /\ label = "add_consent" => f.ticked \in SUBSET AccountIds
  /\ label = "drop_code" => f.code \in Codes
  /\ label = "purging" => f.dict \in 1..dicts
  /\ label = "replace" => f.kept \in SUBSET ids /\ IsFiniteSet(f.kept)

Equipped(f, ss, ids, dicts) == Ready(f, f.pc, ss, ids, dicts)

(* There is a dict, and all dicts are finite sets of the ids of consents.  *)
StoresTyped(dicts, ids) ==
  /\ dicts \in Seq(SUBSET ids) /\ Len(dicts) > 0
  /\ \A i \in 1..Len(dicts) : IsFiniteSet(dicts[i])

(* TypeOK without the frames, and what new ids need. *)
DataTyped ==
  /\ banks \subseteq Banks
  /\ customers \subseteq Customer
  /\ credentials \subseteq Credential
  /\ DOMAIN sessions \subseteq Tokens
  /\ \A t \in DOMAIN sessions : sessions[t] \in Credential
  /\ live \subseteq DOMAIN sessions
  /\ DOMAIN consents \subseteq ConsentIds
  /\ \A id \in DOMAIN consents : consents[id] \in Consent
  /\ StoresTyped(stores, DOMAIN consents)
  /\ DOMAIN codes \subseteq Codes
  /\ \A c \in DOMAIN codes : codes[c] \in OAuthCode
  /\ issued \subseteq CustomerIds \union Tokens \union ConsentIds \union Codes
  /\ DOMAIN sessions \union DOMAIN consents \subseteq issued
  /\ redeemed \in [Codes -> Nat]

FrameTyped(f, ss, ids, dicts) == f \in Frame /\ Equipped(f, ss, ids, dicts)

Typed ==
  /\ DataTyped
  /\ payments \in Nat
  /\ frame \in [Workers -> Frame]
  /\ \A w \in Workers : FrameTyped(frame[w], sessions, DOMAIN consents, Len(stores))

(* Sessions, consents and dicts stay. *)
Grows ==
  /\ \A t \in DOMAIN sessions : t \in DOMAIN sessions' /\ sessions'[t] = sessions[t]
  /\ DOMAIN consents \subseteq DOMAIN consents'
  /\ Len(stores) <= Len(stores')

(* The worker's frame is replaced by one that is equipped for its label.   *)
Moves(w) ==
  \E f \in Frame : /\ frame' = [frame EXCEPT ![w] = f]
                   /\ Equipped(f, sessions', DOMAIN consents', Len(stores'))

-----------------------------------------------------------------------------

LEMMA EquippedStays ==
  ASSUME NEW f, NEW ss, NEW ids, NEW n \in Nat, Equipped(f, ss, ids, n),
         NEW ss2, \A t \in DOMAIN ss : t \in DOMAIN ss2 /\ ss2[t] = ss[t],
         NEW ids2, ids \subseteq ids2, NEW n2 \in Nat, n <= n2
  PROVE  Equipped(f, ss2, ids2, n2)
BY DEF Equipped, Ready

LEMMA MovesKeepTypes ==
  ASSUME Typed, DataTyped', payments' \in Nat, Grows, NEW w \in Workers, Moves(w) PROVE Typed'
<1>1. PICK f \in Frame : /\ frame' = [frame EXCEPT ![w] = f]
                        /\ Equipped(f, sessions', DOMAIN consents', Len(stores'))
  BY DEF Moves
<1>2. frame' \in [Workers -> Frame] /\ frame'[w] = f
  BY <1>1 DEF Typed
<1>3. Len(stores) \in Nat /\ Len(stores') \in Nat
  BY LenProperties DEF Typed, DataTyped, StoresTyped
<1>4. ASSUME NEW v \in Workers
      PROVE  FrameTyped(frame'[v], sessions', DOMAIN consents', Len(stores'))
  <2>1. CASE v = w
    BY <1>1, <1>2, <2>1 DEF FrameTyped
  <2>2. CASE v # w
    <3>1. frame'[v] = frame[v]
      BY <1>1, <2>2 DEF Typed
    <3>2. FrameTyped(frame[v], sessions, DOMAIN consents, Len(stores))
      BY DEF Typed
    <3>3. Equipped(frame[v], sessions', DOMAIN consents', Len(stores'))
      BY <1>3, <3>2, EquippedStays DEF FrameTyped, Grows
    <3> QED BY <3>1, <3>2, <3>3 DEF FrameTyped
  <2> QED BY <2>1, <2>2
<1> QED BY <1>2, <1>4 DEF Typed

LEMMA LabelsTyped ==
  {"purging", "replace", "purging_payments", "scope", "match", "list"} \subseteq AccessLabels
BY DEF AccessLabels

LEMMA IdleTyped == IdleFrame \in Frame /\ IdleFrame.pc = "idle"
BY DEF IdleFrame, Frame, AccessLabels

LEMMA IdleEquipped == ASSUME NEW ss, NEW ids, NEW n PROVE Equipped(IdleFrame, ss, ids, n)
BY IdleTyped DEF Equipped, Ready, Named, Redirected, Loaded, Listing

LEMMA EndMoves == ASSUME NEW w \in Workers, End(w) PROVE Moves(w)
BY IdleTyped, IdleEquipped DEF End, Moves

(* A frame at another label is the same in everything else. *)
LEMMA Relabelled ==
  ASSUME NEW f \in Frame, NEW label \in AccessLabels
  PROVE  /\ [f EXCEPT !.pc = label] \in Frame
         /\ [f EXCEPT !.pc = label].pc = label
         /\ [f EXCEPT !.pc = label].op = f.op
         /\ [f EXCEPT !.pc = label].bank = f.bank
         /\ [f EXCEPT !.pc = label].user = f.user
         /\ [f EXCEPT !.pc = label].customer = f.customer
         /\ [f EXCEPT !.pc = label].consent = f.consent
         /\ [f EXCEPT !.pc = label].session = f.session
         /\ [f EXCEPT !.pc = label].code = f.code
         /\ [f EXCEPT !.pc = label].ticked = f.ticked
         /\ [f EXCEPT !.pc = label].dict = f.dict
         /\ [f EXCEPT !.pc = label].size = f.size
         /\ [f EXCEPT !.pc = label].kept = f.kept
BY DEF Frame

LEMMA GotoMoves ==
  ASSUME Typed, NEW w \in Workers, NEW label \in AccessLabels, Goto(w, label),
         Ready(frame[w], label, sessions', DOMAIN consents', Len(stores'))
  PROVE  Moves(w)
<1> DEFINE g == [frame[w] EXCEPT !.pc = label]
<1>1. frame[w] \in Frame
  BY DEF Typed, FrameTyped
<1>2. frame' = [frame EXCEPT ![w] = g]
  BY DEF Goto
<1>3. /\ g \in Frame /\ g.pc = label /\ g.op = frame[w].op /\ g.bank = frame[w].bank
      /\ g.user = frame[w].user /\ g.customer = frame[w].customer
      /\ g.consent = frame[w].consent /\ g.session = frame[w].session
      /\ g.code = frame[w].code /\ g.ticked = frame[w].ticked /\ g.dict = frame[w].dict
      /\ g.kept = frame[w].kept
  BY <1>1, Relabelled
<1> HIDE DEF g
<1>4. Equipped(g, sessions', DOMAIN consents', Len(stores'))
  BY <1>3 DEF Equipped, Ready
<1> QED BY <1>2, <1>3, <1>4 DEF Moves

(* Saving a consent that exists keeps the dicts as they should be. *)
LEMMA SaveTyped ==
  ASSUME Typed, NEW id \in DOMAIN consents', DOMAIN consents \subseteq DOMAIN consents', Save(id)
  PROVE  StoresTyped(stores', DOMAIN consents') /\ Len(stores') = Len(stores)
<1> DEFINE n == Len(stores)
           d == stores[n] \union {id}
<1>1. stores \in Seq(SUBSET DOMAIN consents') /\ n \in 1..n
  BY LenProperties DEF Typed, DataTyped, StoresTyped
<1>2. d \in SUBSET DOMAIN consents'
  BY <1>1, ElementOfSeq
<1>3. IsFiniteSet(d)
  BY <1>1, FS_AddElement DEF Typed, DataTyped, StoresTyped
<1>4. stores' = [stores EXCEPT ![n] = d]
  BY DEF Save
<1> HIDE DEF d
<1>5. /\ stores' \in Seq(SUBSET DOMAIN consents') /\ Len(stores') = n
      /\ \A j \in 1..n : stores'[j] = IF j = n THEN d ELSE stores[j]
  BY <1>1, <1>2, <1>4, ExceptSeq
<1> QED BY <1>3, <1>5 DEF Typed, DataTyped, StoresTyped

(* A new id is of its kind and was not handed out before. *)
LEMMA NewIds ==
  ASSUME NEW S, NEW id \in NewId(S) PROVE id \in S /\ id \notin issued
BY DEF NewId

(* A step of one worker: the data stays typed, and so does the frame.      *)
Steps(w) == DataTyped' /\ Grows /\ Moves(w)

(* A request that only reads. *)
LEMMA ReadsKeep ==
  ASSUME Typed, UNCHANGED <<rows, objects, redeemed>> PROVE DataTyped' /\ Grows
<1>1. Len(stores) \in Nat
  BY LenProperties DEF Typed, DataTyped, StoresTyped
<1> QED BY <1>1 DEF Typed, DataTyped, Grows, rows, objects

(* The frame of a request that has just been accepted. *)
LEMMA Requested ==
  ASSUME NEW op \in AccessOps, NEW label \in AccessLabels, NEW b \in Banks
  PROVE  /\ Request(op, label, b) \in Frame
         /\ Request(op, label, b).op = op
         /\ Request(op, label, b).pc = label
         /\ Request(op, label, b).bank = b
BY IdleTyped DEF Frame, Request

(* Where requests start. *)
Heads == {"add_customer", "check_customer", "find_credential", "load_consent",
          "add_consent", "drop_code", "remove_bank", "add_payment"}

Deleting ==
  {"remove_bank", "remove_customers", "purge_consents", "purging", "replace",
   "purge_payments", "purging_payments", "purge_credentials"}
Enrolling == {"add_customer", "check_customer", "add_credential"}
Writing(f) == f.pc \in Redirected \union {"start", "verify_psu", "finalise", "terminate"}

(* Which requests get to which labels. *)
Serving(f) ==
  /\ f.op = "delete_bank" <=> f.pc \in Deleting
  /\ f.pc \in Enrolling => f.op \in {"create_customer", "register"}
  /\ f.pc = "add_consent" => f.op = "create_consent"
  /\ f.pc = "add_payment" => f.op = "payment"
  /\ Writing(f) => f.op \in ConsentWriters

(* A request is accepted: nothing but its frame is written. *)
Headed(w) ==
  /\ frame'[w].pc \in Heads
  /\ Accept(w, frame'[w])
  /\ Serving(frame'[w])
  /\ UNCHANGED <<rows, objects, history>>

(* What a head has to put into the frame. *)
LEMMA BeginSteps ==
  ASSUME Typed, NEW w \in Workers, NEW f \in Frame,
         Begin(w, f), UNCHANGED <<rows, objects, history>>, f.bank \in Banks, f.pc \in Heads,
         f.pc \in {"add_customer", "check_customer", "find_credential"} => f.user \in Users,
         f.pc = "check_customer" => f.customer \in CustomerIds,
         f.pc = "load_consent" \/ f.op = "authorize" => f.consent \in DOMAIN consents,
         f.op = "finish_sca" => f.session \in DOMAIN sessions,
         f.pc = "add_consent" => f.ticked \in SUBSET AccountIds,
         f.pc = "drop_code" => f.code \in Codes, Serving(f)
  PROVE  Steps(w) /\ Headed(w)
<1>1. DataTyped' /\ Grows
  BY ReadsKeep DEF history
<1>2. frame' = [frame EXCEPT ![w] = f] /\ Accept(w, f)
  BY DEF Begin
<1>3. Equipped(f, sessions', DOMAIN consents', Len(stores'))
  BY DEF Equipped, Ready, Named, Redirected, Loaded, Listing, objects, Heads
<1>4. frame'[w] = f
  BY <1>2 DEF Typed
<1> QED BY <1>1, <1>2, <1>3, <1>4 DEF Moves, Steps, Headed

LEMMA LoginHeadsStep ==
  ASSUME Typed, NEW w \in Workers,
         \/ BeginCreateCustomer(w) \/ BeginRegister(w) \/ BeginLogin(w) \/ BeginDeleteBank(w)
         \/ BeginPayment(w)
  PROVE  Steps(w) /\ Headed(w)
<1>1. UNCHANGED <<rows, objects, history>>
  BY DEF BeginCreateCustomer, BeginRegister, BeginLogin, BeginDeleteBank, BeginPayment
<1>2. CASE BeginCreateCustomer(w)
  <2>1. PICK b \in Banks, u \in Users :
          Begin(w, [Request("create_customer", "add_customer", b) EXCEPT !.user = u])
    BY <1>2 DEF BeginCreateCustomer
  <2> DEFINE r == Request("create_customer", "add_customer", b)
             f == [r EXCEPT !.user = u]
  <2>2. r \in Frame /\ r.op = "create_customer" /\ r.pc = "add_customer" /\ r.bank = b
    BY Requested DEF AccessLabels, AccessOps
  <2>3. Begin(w, f)
    BY <2>1
  <2> HIDE DEF r
  <2>4. /\ f \in Frame /\ f.op = "create_customer" /\ f.pc = "add_customer" /\ f.bank \in Banks
        /\ f.user \in Users
    BY <2>1, <2>2 DEF Frame
  <2> HIDE DEF f
  <2>5. Serving(f)
    BY <2>4 DEF Serving, Writing, Deleting, Enrolling, Redirected
  <2> QED BY <1>1, <2>3, <2>4, <2>5, BeginSteps DEF Heads
<1>3. CASE BeginRegister(w)
  <2>1. PICK b \in Banks, u \in Users, cu \in CustomerIds :
          Begin(w, [Request("register", "check_customer", b) EXCEPT !.user = u, !.customer = cu])
    BY <1>3 DEF BeginRegister
  <2> DEFINE r == Request("register", "check_customer", b)
             f == [r EXCEPT !.user = u, !.customer = cu]
  <2>2. r \in Frame /\ r.op = "register" /\ r.pc = "check_customer" /\ r.bank = b
    BY Requested DEF AccessLabels, AccessOps
  <2>3. Begin(w, f)
    BY <2>1
  <2> HIDE DEF r
  <2>4. /\ f \in Frame /\ f.op = "register" /\ f.pc = "check_customer" /\ f.bank \in Banks
        /\ f.user \in Users /\ f.customer \in CustomerIds
    BY <2>1, <2>2 DEF Frame
  <2> HIDE DEF f
  <2>5. Serving(f)
    BY <2>4 DEF Serving, Writing, Deleting, Enrolling, Redirected
  <2> QED BY <1>1, <2>3, <2>4, <2>5, BeginSteps DEF Heads
<1>4. CASE BeginLogin(w)
  <2>1. PICK b \in Banks, u \in Users :
          Begin(w, [Request("login", "find_credential", b) EXCEPT !.user = u])
    BY <1>4 DEF BeginLogin
  <2> DEFINE r == Request("login", "find_credential", b)
             f == [r EXCEPT !.user = u]
  <2>2. r \in Frame /\ r.op = "login" /\ r.pc = "find_credential" /\ r.bank = b
    BY Requested DEF AccessLabels, AccessOps
  <2>3. Begin(w, f)
    BY <2>1
  <2> HIDE DEF r
  <2>4. /\ f \in Frame /\ f.op = "login" /\ f.pc = "find_credential" /\ f.bank \in Banks
        /\ f.user \in Users
    BY <2>1, <2>2 DEF Frame
  <2> HIDE DEF f
  <2>5. Serving(f)
    BY <2>4 DEF Serving, Writing, Deleting, Enrolling, Redirected
  <2> QED BY <1>1, <2>3, <2>4, <2>5, BeginSteps DEF Heads
<1>5. CASE BeginDeleteBank(w)
  <2>1. PICK b \in Banks :
          Begin(w, Request("delete_bank", "remove_bank", b))
    BY <1>5 DEF BeginDeleteBank
  <2> DEFINE r == Request("delete_bank", "remove_bank", b)
             f == r
  <2>2. r \in Frame /\ r.op = "delete_bank" /\ r.pc = "remove_bank" /\ r.bank = b
    BY Requested DEF AccessLabels, AccessOps
  <2>3. Begin(w, f)
    BY <2>1
  <2> HIDE DEF r
  <2>4. f \in Frame /\ f.op = "delete_bank" /\ f.pc = "remove_bank" /\ f.bank \in Banks
    BY <2>1, <2>2 DEF Frame
  <2> HIDE DEF f
  <2>5. Serving(f)
    BY <2>4 DEF Serving, Writing, Deleting, Enrolling, Redirected
  <2> QED BY <1>1, <2>3, <2>4, <2>5, BeginSteps DEF Heads
<1>6. CASE BeginPayment(w)
  <2>1. PICK b \in Banks :
          Begin(w, Request("payment", "add_payment", b))
    BY <1>6 DEF BeginPayment
  <2> DEFINE f == Request("payment", "add_payment", b)
  <2>2. f \in Frame /\ f.op = "payment" /\ f.pc = "add_payment" /\ f.bank \in Banks
    BY Requested DEF AccessLabels, AccessOps
  <2>3. Begin(w, f)
    BY <2>1
  <2> HIDE DEF f
  <2>4. Serving(f)
    BY <2>2 DEF Serving, Writing, Deleting, Enrolling, Redirected
  <2> QED BY <1>1, <2>2, <2>3, <2>4, BeginSteps DEF Heads
<1> QED BY <1>2, <1>3, <1>4, <1>5, <1>6

LEMMA ConsentHeadsStep ==
  ASSUME AccessAssumption, Typed, NEW w \in Workers,
         \/ BeginAuthorize(w) \/ BeginConsentCall(w) \/ BeginFinishSca(w)
         \/ BeginCreateConsent(w) \/ BeginToken(w)
  PROVE  Steps(w) /\ Headed(w)
<1>1. UNCHANGED <<rows, objects, history>>
  BY DEF BeginAuthorize, BeginConsentCall, BeginFinishSca, BeginCreateConsent, BeginToken
<1>2. CASE BeginAuthorize(w)
  <2>1. PICK b \in Banks, u \in Users, id \in DOMAIN consents,
             ticked \in {None} \union SUBSET AccountIds :
          Begin(w, [Request("authorize", "find_credential", b) EXCEPT !.user = u, !.consent = id, !.ticked = ticked])
    BY <1>2 DEF BeginAuthorize
  <2> DEFINE r == Request("authorize", "find_credential", b)
             f == [r EXCEPT !.user = u, !.consent = id, !.ticked = ticked]
  <2>2. r \in Frame /\ r.op = "authorize" /\ r.pc = "find_credential" /\ r.bank = b
    BY Requested DEF AccessLabels, AccessOps
  <2>3. Begin(w, f)
    BY <2>1
  <2> HIDE DEF r
  <2>4. /\ f \in Frame /\ f.op = "authorize" /\ f.pc = "find_credential" /\ f.bank \in Banks
        /\ f.user \in Users /\ f.consent \in DOMAIN consents
    BY <2>1, <2>2 DEF Frame, Typed, DataTyped
  <2> HIDE DEF f
  <2>5. Serving(f)
    BY <2>4 DEF Serving, Writing, Deleting, Enrolling, Redirected
  <2> QED BY <1>1, <2>3, <2>4, <2>5, BeginSteps DEF Heads
<1>3. CASE BeginConsentCall(w)
  <2>1. PICK b \in Banks, id \in DOMAIN consents, op \in {"start_sca", "revoke", "accounts"} :
          Begin(w, [Request(op, "load_consent", b) EXCEPT !.consent = id])
    BY <1>3 DEF BeginConsentCall
  <2> DEFINE r == Request(op, "load_consent", b)
             f == [r EXCEPT !.consent = id]
  <2>2. r \in Frame /\ r.op = op /\ r.pc = "load_consent" /\ r.bank = b
    BY Requested DEF AccessLabels, AccessOps
  <2>3. Begin(w, f)
    BY <2>1
  <2> HIDE DEF r
  <2>4. /\ f \in Frame /\ f.op = op /\ f.pc = "load_consent" /\ f.bank \in Banks
        /\ f.consent \in DOMAIN consents
    BY <2>1, <2>2 DEF Frame, Typed, DataTyped
  <2> HIDE DEF f
  <2>5. Serving(f)
    BY <2>4 DEF Serving, Writing, Deleting, Enrolling, Redirected
  <2> QED BY <1>1, <2>3, <2>4, <2>5, BeginSteps DEF Heads
<1>4. CASE BeginFinishSca(w)
  <2>1. PICK b \in Banks, id \in DOMAIN consents, t \in DOMAIN sessions :
          Begin(w, [Request("finish_sca", "load_consent", b) EXCEPT !.consent = id, !.session = t])
    BY <1>4 DEF BeginFinishSca
  <2> DEFINE r == Request("finish_sca", "load_consent", b)
             f == [r EXCEPT !.consent = id, !.session = t]
  <2>2. r \in Frame /\ r.op = "finish_sca" /\ r.pc = "load_consent" /\ r.bank = b
    BY Requested DEF AccessLabels, AccessOps
  <2>3. Begin(w, f)
    BY <2>1
  <2> HIDE DEF r
  <2>4. /\ f \in Frame /\ f.op = "finish_sca" /\ f.pc = "load_consent" /\ f.bank \in Banks
        /\ f.consent \in DOMAIN consents /\ f.session \in DOMAIN sessions
    BY <2>1, <2>2 DEF Frame, Typed, DataTyped
  <2> HIDE DEF f
  <2>5. Serving(f)
    BY <2>4 DEF Serving, Writing, Deleting, Enrolling, Redirected
  <2> QED BY <1>1, <2>3, <2>4, <2>5, BeginSteps DEF Heads
<1>5. CASE BeginCreateConsent(w)
  <2>1. PICK b \in Banks, psu \in Users \union {None}, scope \in Scopes :
          Begin(w, [Request("create_consent", "add_consent", b) EXCEPT !.user = psu, !.ticked = scope])
    BY <1>5 DEF BeginCreateConsent
  <2> DEFINE r == Request("create_consent", "add_consent", b)
             f == [r EXCEPT !.user = psu, !.ticked = scope]
  <2>2. r \in Frame /\ r.op = "create_consent" /\ r.pc = "add_consent" /\ r.bank = b
    BY Requested DEF AccessLabels, AccessOps
  <2>3. Begin(w, f)
    BY <2>1
  <2> HIDE DEF r
  <2>4. /\ f \in Frame /\ f.op = "create_consent" /\ f.pc = "add_consent" /\ f.bank \in Banks
        /\ f.ticked \in SUBSET AccountIds
    BY <2>1, <2>2, AccessAssumption DEF Frame
  <2> HIDE DEF f
  <2>5. Serving(f)
    BY <2>4 DEF Serving, Writing, Deleting, Enrolling, Redirected
  <2> QED BY <1>1, <2>3, <2>4, <2>5, BeginSteps DEF Heads
<1>6. CASE BeginToken(w)
  <2>1. PICK b \in Banks, c \in DOMAIN codes :
          Begin(w, [Request("token", "drop_code", b) EXCEPT !.code = c, !.consent = codes[c].consent, !.session = codes[c].session])
    BY <1>6 DEF BeginToken
  <2> DEFINE r == Request("token", "drop_code", b)
             f == [r EXCEPT !.code = c, !.consent = codes[c].consent, !.session = codes[c].session]
  <2>2. r \in Frame /\ r.op = "token" /\ r.pc = "drop_code" /\ r.bank = b
    BY Requested DEF AccessLabels, AccessOps
  <2>3. Begin(w, f)
    BY <2>1
  <2> HIDE DEF r
  <2>4. /\ f \in Frame /\ f.op = "token" /\ f.pc = "drop_code" /\ f.bank \in Banks
        /\ f.code \in Codes
    BY <2>1, <2>2 DEF Frame, Typed, DataTyped, OAuthCode
  <2> HIDE DEF f
  <2>5. Serving(f)
    BY <2>4 DEF Serving, Writing, Deleting, Enrolling, Redirected
  <2> QED BY <1>1, <2>3, <2>4, <2>5, BeginSteps DEF Heads
<1> QED BY <1>2, <1>3, <1>4, <1>5, <1>6

LEMMA LogoutTyped == ASSUME Typed, NEW w \in Workers, Logout(w) PROVE Typed'
<1>1. Len(stores) \in Nat
  BY LenProperties DEF Typed, DataTyped, StoresTyped
<1>2. DataTyped'
  BY <1>1 DEF Logout, Typed, DataTyped, rows, history
<1> QED BY <1>2 DEF Logout, Accept, Typed

(* The frame of a worker at work. *)
LEMMA FrameFacts ==
  ASSUME Typed, NEW w \in Workers
  PROVE  /\ frame[w] \in Frame
         /\ Equipped(frame[w], sessions, DOMAIN consents, Len(stores))
         /\ Len(stores) \in Nat
BY LenProperties DEF Typed, FrameTyped, DataTyped, StoresTyped

LEMMA AddCustomerSteps ==
  ASSUME Typed, NEW w \in Workers, AddCustomer(w) PROVE Steps(w)
<1> DEFINE f == frame[w]
<1>1. f \in Frame /\ f.bank \in Banks /\ f.user \in Users /\ f.pc = "add_customer"
  BY FrameFacts DEF AddCustomer, Equipped, Ready, Named
<1>2. PICK id \in NewId(CustomerIds) :
        /\ customers' = customers \union {[id |-> id, bank |-> f.bank]}
        /\ issued' = issued \union {id}
        /\ frame' = [frame EXCEPT ![w] = [f EXCEPT !.customer = id, !.pc = "check_customer"]]
  BY DEF AddCustomer
<1>3. id \in CustomerIds
  BY NewIds
<1> DEFINE g == [f EXCEPT !.customer = id, !.pc = "check_customer"]
<1> HIDE DEF f
<1>4. g \in Frame /\ g.pc = "check_customer" /\ g.bank \in Banks /\ g.user \in Users
      /\ g.customer \in CustomerIds
  BY <1>1, <1>3 DEF Frame, AccessLabels
<1>5. frame' = [frame EXCEPT ![w] = g]
  BY <1>2 DEF f
<1> HIDE DEF g
<1>6. Equipped(g, sessions', DOMAIN consents', Len(stores'))
  BY <1>4 DEF Equipped, Ready, Named, Redirected, Loaded, Listing
<1>7. DataTyped' /\ Grows
  BY <1>1, <1>2, <1>3, FrameFacts DEF AddCustomer, Typed, DataTyped, Grows, Customer, history
<1> QED BY <1>4, <1>5, <1>6, <1>7 DEF Steps, Moves

LEMMA CheckCustomerSteps ==
  ASSUME Typed, NEW w \in Workers, CheckCustomer(w) PROVE Steps(w)
<1>1. DataTyped' /\ Grows
  BY ReadsKeep DEF CheckCustomer, history
<1>2. CASE End(w)
  BY <1>1, <1>2, EndMoves DEF Steps
<1>3. CASE Goto(w, "add_credential")
  <2>1. Ready(frame[w], "add_credential", sessions', DOMAIN consents', Len(stores'))
    BY FrameFacts DEF CheckCustomer, Equipped, Ready, Named, Redirected, Loaded, Listing
  <2> QED BY <1>1, <1>3, <2>1, GotoMoves DEF Steps, AccessLabels
<1> QED BY <1>2, <1>3 DEF CheckCustomer

LEMMA AddCredentialSteps ==
  ASSUME Typed, NEW w \in Workers, AddCredential(w) PROVE Steps(w)
<1>1. frame[w].bank \in Banks /\ frame[w].user \in Users /\ frame[w].customer \in CustomerIds
  BY FrameFacts DEF AddCredential, Equipped, Ready, Named
<1>2. DataTyped' /\ Grows
  BY <1>1, FrameFacts DEF AddCredential, Typed, DataTyped, Grows, Credential, objects
<1>3. End(w)
  BY DEF AddCredential
<1> QED BY <1>2, <1>3, EndMoves DEF Steps

LEMMA FindCredentialSteps ==
  ASSUME Typed, NEW w \in Workers, FindCredential(w) PROVE Steps(w)
<1> DEFINE f == frame[w]
<1>1. DataTyped' /\ Grows
  BY ReadsKeep DEF FindCredential, history
<1>2. CASE End(w)
  BY <1>1, <1>2, EndMoves DEF Steps
<1>3. CASE \E c \in credentials :
             /\ c.bank = f.bank /\ c.user = f.user
             /\ frame' = [frame EXCEPT ![w].customer = c.customer, ![w].pc = "open_session"]
  <2>1. PICK c \in credentials :
          frame' = [frame EXCEPT ![w] = [f EXCEPT !.customer = c.customer, !.pc = "open_session"]]
    BY <1>3
  <2>2. c.customer \in CustomerIds
    BY DEF Typed, DataTyped, Credential
  <2>3. f \in Frame /\ f.pc = "find_credential" /\ f.bank \in Banks /\ f.user \in Users
        /\ (f.op = "authorize" => f.consent \in DOMAIN consents)
    BY FrameFacts DEF FindCredential, Equipped, Ready, Named
  <2> DEFINE g == [f EXCEPT !.customer = c.customer, !.pc = "open_session"]
  <2>4. frame' = [frame EXCEPT ![w] = g]
    BY <2>1
  <2> HIDE DEF f
  <2>5. /\ g \in Frame /\ g.pc = "open_session" /\ g.op = f.op /\ g.bank = f.bank
        /\ g.user = f.user /\ g.consent = f.consent /\ g.customer \in CustomerIds
    BY <2>2, <2>3 DEF Frame, AccessLabels
  <2> HIDE DEF g
  <2>6. Equipped(g, sessions', DOMAIN consents', Len(stores'))
    BY <2>3, <2>5 DEF Equipped, Ready, Named, Redirected, Loaded, Listing, FindCredential, objects
  <2> QED BY <1>1, <2>4, <2>5, <2>6 DEF Steps, Moves
<1> QED BY <1>2, <1>3 DEF FindCredential

LEMMA OpenSessionSteps ==
  ASSUME Typed, NEW w \in Workers, OpenSession(w) PROVE Steps(w)
<1> DEFINE f == frame[w]
<1>1. /\ f \in Frame /\ f.pc = "open_session" /\ f.bank \in Banks /\ f.user \in Users
      /\ f.customer \in CustomerIds /\ (f.op = "authorize" => f.consent \in DOMAIN consents)
  BY FrameFacts DEF OpenSession, Equipped, Ready, Named
<1>2. PICK t \in NewId(Tokens) :
        /\ sessions' = Extend(sessions, t,
             [bank |-> f.bank, user |-> f.user, customer |-> f.customer])
        /\ live' = live \union {t}
        /\ issued' = issued \union {t}
        /\ \/ f.op = "login" /\ End(w)
           \/ /\ f.op = "authorize"
              /\ frame' = [frame EXCEPT ![w] = [f EXCEPT !.session = t, !.pc = "consent_psu"]]
  BY DEF OpenSession
<1>3. t \in Tokens /\ t \notin issued
  BY NewIds
<1>4. /\ DOMAIN sessions' = DOMAIN sessions \union {t}
      /\ sessions'[t] = [bank |-> f.bank, user |-> f.user, customer |-> f.customer]
      /\ \A x \in DOMAIN sessions : sessions'[x] = sessions[x]
  BY <1>2, <1>3 DEF Extend, Typed, DataTyped
<1> HIDE DEF f
<1>5. sessions'[t] \in Credential /\ sessions'[t].customer = f.customer
  BY <1>1, <1>4 DEF Credential
<1>6. DataTyped' /\ Grows
  <2>1. \A x \in DOMAIN sessions' : sessions'[x] \in Credential
    BY <1>4, <1>5 DEF Typed, DataTyped
  <2>2. /\ UNCHANGED <<rows, consents, stores, codes, redeemed>>
        /\ live' = live \union {t} /\ issued' = issued \union {t}
    BY <1>2 DEF OpenSession, history
  <2>3. /\ DOMAIN sessions' \subseteq Tokens /\ live' \subseteq DOMAIN sessions'
        /\ DOMAIN sessions' \union DOMAIN consents' \subseteq issued'
        /\ issued' \subseteq CustomerIds \union Tokens \union ConsentIds \union Codes
    BY <1>3, <1>4, <2>2 DEF Typed, DataTyped
  <2> QED BY <1>4, <2>1, <2>2, <2>3, FrameFacts DEF Typed, DataTyped, Grows, rows
<1>7. CASE End(w)
  BY <1>6, <1>7, EndMoves DEF Steps
<1>8. CASE /\ f.op = "authorize"
           /\ frame' = [frame EXCEPT ![w] = [f EXCEPT !.session = t, !.pc = "consent_psu"]]
  <2> DEFINE g == [f EXCEPT !.session = t, !.pc = "consent_psu"]
  <2>1. /\ g \in Frame /\ g.pc = "consent_psu" /\ g.op = f.op /\ g.bank = f.bank
        /\ g.user = f.user /\ g.consent = f.consent /\ g.customer = f.customer /\ g.session = t
    BY <1>1, <1>3 DEF Frame, AccessLabels
  <2>2. frame' = [frame EXCEPT ![w] = g]
    BY <1>8
  <2> HIDE DEF g
  <2>3. consents' = consents
    BY DEF OpenSession
  <2>4. Equipped(g, sessions', DOMAIN consents', Len(stores'))
    BY <1>1, <1>4, <1>5, <1>8, <2>1, <2>3 DEF Equipped, Ready, Named, Redirected, Loaded, Listing
  <2> QED BY <1>6, <2>1, <2>2, <2>4 DEF Steps, Moves
<1> QED BY <1>2, <1>7, <1>8

LEMMA ConsentPsuSteps ==
  ASSUME Typed, NEW w \in Workers, ConsentPsu(w) PROVE Steps(w)
<1> DEFINE f == frame[w]
<1>1. DataTyped' /\ Grows
  BY ReadsKeep DEF ConsentPsu, history
<1>2. CASE End(w)
  BY <1>1, <1>2, EndMoves DEF Steps
<1>3. CASE ~End(w)
  <2> DEFINE ticks == IF f.ticked = None THEN None
                      ELSE f.ticked \intersect Eligible(f.bank, f.customer)
             g == [f EXCEPT !.pc = "approve", !.ticked = ticks]
  <2>1. frame' = [frame EXCEPT ![w] = g]
    BY <1>3 DEF ConsentPsu
  <2>2. /\ f \in Frame /\ f.pc = "consent_psu" /\ f.bank \in Banks /\ f.user \in Users
        /\ f.customer \in CustomerIds /\ f.consent \in DOMAIN consents
        /\ f.session \in DOMAIN sessions /\ sessions[f.session].customer = f.customer
    BY FrameFacts DEF ConsentPsu, Equipped, Ready, Redirected
  <2> HIDE DEF f
  <2>3. ticks \in (SUBSET AccountIds) \union {None}
    BY <2>2 DEF Frame
  <2> HIDE DEF ticks
  <2>4. /\ g \in Frame /\ g.pc = "approve" /\ g.op = f.op /\ g.bank = f.bank
        /\ g.user = f.user /\ g.consent = f.consent /\ g.customer = f.customer
        /\ g.session = f.session
    BY <2>2, <2>3 DEF Frame, AccessLabels
  <2> HIDE DEF g
  <2>5. Equipped(g, sessions', DOMAIN consents', Len(stores'))
    BY <2>2, <2>4 DEF Equipped, Ready, Named, Redirected, Loaded, Listing, ConsentPsu, objects
  <2> QED BY <1>1, <2>1, <2>4, <2>5 DEF Steps, Moves
<1> QED BY <1>2, <1>3

(* Consents are rewritten one at a time. *)
LEMMA ConsentsTyped ==
  ASSUME Typed, NEW id \in DOMAIN consents, NEW c \in Consent,
         consents' = [consents EXCEPT ![id] = c]
  PROVE  /\ DOMAIN consents' = DOMAIN consents
         /\ \A x \in DOMAIN consents : consents'[x] \in Consent
BY DEF Typed, DataTyped

LEMMA ApproveSteps ==
  ASSUME Typed, NEW w \in Workers, Approve(w) PROVE Steps(w)
<1> DEFINE f == frame[w]
<1>1. /\ f.bank \in Banks /\ f.user \in Users /\ f.customer \in CustomerIds
      /\ f.consent \in DOMAIN consents /\ f.session \in DOMAIN sessions
      /\ sessions[f.session].customer = f.customer
  BY FrameFacts DEF Approve, Equipped, Ready, Redirected
<1>2. CASE End(w) /\ UNCHANGED consents
  <2>1. DataTyped' /\ Grows
    BY <1>2, ReadsKeep DEF Approve, rows, objects
  <2> QED BY <1>2, <2>1, EndMoves DEF Steps
<1>3. CASE /\ consents' = [consents EXCEPT ![f.consent].auth = TRUE,
                                           ![f.consent].status = "valid"]
           /\ Goto(w, "bind_customer")
  <2> DEFINE c == consents[f.consent]
             d == [c EXCEPT !.auth = TRUE, !.status = "valid"]
  <2>1. c \in Consent
    BY <1>1 DEF Typed, DataTyped
  <2>2. consents' = [consents EXCEPT ![f.consent] = d]
    BY <1>3
  <2> HIDE DEF c
  <2>3. d \in Consent
    BY <2>1 DEF Consent, Statuses
  <2> HIDE DEF d
  <2>4. /\ DOMAIN consents' = DOMAIN consents
        /\ \A x \in DOMAIN consents : consents'[x] \in Consent
    BY <1>1, <2>2, <2>3, ConsentsTyped
  <2>5. DataTyped' /\ Grows
    BY <2>4, FrameFacts DEF Approve, Typed, DataTyped, Grows, rows
  <2>6. Ready(frame[w], "bind_customer", sessions', DOMAIN consents', Len(stores'))
    BY <1>1, <2>4 DEF Approve, Ready, Named, Redirected, Loaded, Listing
  <2> QED BY <1>3, <2>5, <2>6, GotoMoves DEF Steps, AccessLabels
<1> QED BY <1>2, <1>3 DEF Approve

LEMMA BindCustomerSteps ==
  ASSUME Typed, NEW w \in Workers, BindCustomer(w) PROVE Steps(w)
<1> DEFINE f == frame[w]
           c == consents[f.consent]
           d == [c EXCEPT !.customer = f.customer]
<1>1. /\ f.bank \in Banks /\ f.user \in Users /\ f.customer \in CustomerIds
      /\ f.consent \in DOMAIN consents /\ f.session \in DOMAIN sessions
      /\ sessions[f.session].customer = f.customer
  BY FrameFacts DEF BindCustomer, Equipped, Ready, Redirected
<1>2. c \in Consent /\ consents' = [consents EXCEPT ![f.consent] = d]
  BY <1>1 DEF BindCustomer, Typed, DataTyped
<1> HIDE DEF c
<1>3. d \in Consent
  BY <1>1, <1>2 DEF Consent
<1> HIDE DEF d
<1>4. /\ DOMAIN consents' = DOMAIN consents
      /\ \A x \in DOMAIN consents : consents'[x] \in Consent
  BY <1>1, <1>2, <1>3, ConsentsTyped
<1>5. DataTyped' /\ Grows
  BY <1>4, FrameFacts DEF BindCustomer, Typed, DataTyped, Grows, rows, history
<1>6. Ready(frame[w], "narrow", sessions', DOMAIN consents', Len(stores'))
  BY <1>1, <1>4 DEF BindCustomer, Ready, Named, Redirected, Loaded, Listing
<1>7. Goto(w, "narrow")
  BY DEF BindCustomer
<1> QED BY <1>5, <1>6, <1>7, GotoMoves DEF Steps, AccessLabels

LEMMA NarrowSteps ==
  ASSUME Typed, NEW w \in Workers, Narrow(w) PROVE Steps(w)
<1> DEFINE f == frame[w]
           c == consents[f.consent]
           d == [c EXCEPT !.allowed = IF f.ticked = None THEN c.allowed ELSE f.ticked]
<1>1. /\ f \in Frame /\ f.bank \in Banks /\ f.user \in Users /\ f.customer \in CustomerIds
      /\ f.consent \in DOMAIN consents /\ f.session \in DOMAIN sessions
      /\ sessions[f.session].customer = f.customer
  BY FrameFacts DEF Narrow, Equipped, Ready, Redirected
<1>2. c \in Consent /\ consents' = [consents EXCEPT ![f.consent] = d]
  BY <1>1 DEF Narrow, Typed, DataTyped
<1>3. f.ticked \in (SUBSET AccountIds) \union {None}
  BY <1>1 DEF Frame
<1> HIDE DEF c
<1>4. d \in Consent
  BY <1>2, <1>3 DEF Consent
<1> HIDE DEF d
<1>5. /\ DOMAIN consents' = DOMAIN consents
      /\ \A x \in DOMAIN consents : consents'[x] \in Consent
  BY <1>1, <1>2, <1>4, ConsentsTyped
<1>6. StoresTyped(stores', DOMAIN consents') /\ Len(stores') = Len(stores)
  BY <1>1, <1>5, SaveTyped DEF Narrow
<1>7. DataTyped' /\ Grows
  BY <1>5, <1>6, FrameFacts DEF Narrow, Typed, DataTyped, Grows, rows, history
<1>8. Ready(frame[w], "issue_code", sessions', DOMAIN consents', Len(stores'))
  BY <1>1, <1>5 DEF Narrow, Ready, Named, Redirected, Loaded, Listing
<1>9. Goto(w, "issue_code")
  BY DEF Narrow
<1> QED BY <1>7, <1>8, <1>9, GotoMoves DEF Steps, AccessLabels

LEMMA IssueCodeSteps ==
  ASSUME Typed, NEW w \in Workers, IssueCode(w) PROVE Steps(w)
<1> DEFINE f == frame[w]
           d == [bank |-> f.bank, consent |-> f.consent, session |-> f.session]
<1>1. f.bank \in Banks /\ f.consent \in DOMAIN consents /\ f.session \in DOMAIN sessions
  BY FrameFacts DEF IssueCode, Equipped, Ready, Redirected
<1>2. d \in OAuthCode
  BY <1>1 DEF OAuthCode, Typed, DataTyped
<1>3. PICK c \in NewId(Codes) : codes' = Extend(codes, c, d) /\ issued' = issued \union {c}
  BY DEF IssueCode
<1>4. c \in Codes
  BY NewIds
<1> HIDE DEF d
<1>5. DOMAIN codes' \subseteq Codes /\ \A x \in DOMAIN codes' : codes'[x] \in OAuthCode
  BY <1>2, <1>3, <1>4 DEF Extend, Typed, DataTyped
<1>6. DataTyped' /\ Grows
  <2>1. UNCHANGED <<rows, sessions, live, consents, stores, redeemed>>
    BY DEF IssueCode, history
  <2>2. /\ issued' \subseteq CustomerIds \union Tokens \union ConsentIds \union Codes
        /\ DOMAIN sessions \union DOMAIN consents \subseteq issued'
    BY <1>3, <1>4 DEF Typed, DataTyped
  <2> QED BY <1>5, <2>1, <2>2, FrameFacts DEF Typed, DataTyped, Grows, rows
<1>7. End(w)
  BY DEF IssueCode
<1> QED BY <1>6, <1>7, EndMoves DEF Steps

LEMMA DropCodeSteps ==
  ASSUME Typed, NEW w \in Workers, DropCode(w) PROVE Steps(w)
<1>1. frame[w].code \in Codes
  BY FrameFacts DEF DropCode, Equipped, Ready
<1>2. /\ DOMAIN codes' \subseteq Codes /\ \A x \in DOMAIN codes' : codes'[x] \in OAuthCode
      /\ redeemed' \in [Codes -> Nat]
  BY <1>1 DEF DropCode, Typed, DataTyped
<1>3. DataTyped' /\ Grows
  BY <1>2, FrameFacts DEF DropCode, Typed, DataTyped, Grows, rows
<1>4. End(w)
  BY DEF DropCode
<1> QED BY <1>3, <1>4, EndMoves DEF Steps

(* A new consent. *)
Asked(f) ==
  [bank |-> f.bank, psu |-> f.user, scope |-> f.ticked, customer |-> None,
   auth |-> FALSE, allowed |-> None, status |-> "received"]

LEMMA AddConsentSteps ==
  ASSUME Typed, NEW w \in Workers, AddConsent(w) PROVE Steps(w)
<1>1. frame[w] \in Frame /\ frame[w].bank \in Banks /\ frame[w].ticked \in SUBSET AccountIds
  BY FrameFacts DEF AddConsent, Equipped, Ready
<1>2. Asked(frame[w]) \in Consent
  BY <1>1 DEF Asked, Consent, Statuses, Frame
<1>3. PICK id \in NewId(ConsentIds) :
        /\ consents' = Extend(consents, id, Asked(frame[w]))
        /\ Save(id)
        /\ issued' = issued \union {id}
  BY DEF AddConsent, Asked
<1>4. id \in ConsentIds /\ id \notin issued
  BY NewIds
<1>5. DOMAIN consents' = DOMAIN consents \union {id}
  BY <1>3 DEF Extend
<1>6. \A x \in DOMAIN consents' : consents'[x] \in Consent
  BY <1>2, <1>3 DEF Extend, Typed, DataTyped
<1>7. StoresTyped(stores', DOMAIN consents') /\ Len(stores') = Len(stores)
  BY <1>3, <1>5, SaveTyped
<1>8. DataTyped' /\ Grows
  <2>1. UNCHANGED <<rows, sessions, live, codes, redeemed>>
    BY DEF AddConsent, history
  <2>2. /\ issued' \subseteq CustomerIds \union Tokens \union ConsentIds \union Codes
        /\ DOMAIN consents' \subseteq ConsentIds
        /\ DOMAIN sessions \union DOMAIN consents' \subseteq issued'
    BY <1>3, <1>4, <1>5 DEF Typed, DataTyped
  <2> QED BY <1>5, <1>6, <1>7, <2>1, <2>2, FrameFacts DEF Typed, DataTyped, Grows, rows
<1>9. End(w)
  BY DEF AddConsent
<1> QED BY <1>8, <1>9, EndMoves DEF Steps

LEMMA LoadConsentSteps ==
  ASSUME Typed, NEW w \in Workers, LoadConsent(w) PROVE Steps(w)
<1>1. DataTyped' /\ Grows
  BY ReadsKeep DEF LoadConsent, history
<1>2. CASE End(w)
  BY <1>1, <1>2, EndMoves DEF Steps
<1>3. ASSUME NEW label \in {"start", "verify_psu", "terminate", "list_accounts"},
             Goto(w, label), label = "verify_psu" => frame[w].op = "finish_sca"
      PROVE  Steps(w)
  <2>1. Ready(frame[w], label, sessions', DOMAIN consents', Len(stores'))
    BY <1>3, FrameFacts DEF LoadConsent, Equipped, Ready, Named, Redirected, Loaded, Listing, objects
  <2>2. label \in AccessLabels
    BY DEF AccessLabels
  <2> QED BY <1>1, <1>3, <2>1, <2>2, GotoMoves DEF Steps
<1> QED BY <1>2, <1>3 DEF LoadConsent

(* The last step of a request that rewrites a consent and saves it. *)
LEMMA RewriteSteps ==
  ASSUME Typed, NEW w \in Workers, NEW id \in DOMAIN consents, NEW c \in Consent,
         consents' = [consents EXCEPT ![id] = c], Save(id), End(w),
         UNCHANGED <<rows, sessions, live, codes, issued, redeemed>>
  PROVE  Steps(w)
<1>1. /\ DOMAIN consents' = DOMAIN consents
      /\ \A x \in DOMAIN consents : consents'[x] \in Consent
  BY ConsentsTyped
<1>2. StoresTyped(stores', DOMAIN consents') /\ Len(stores') = Len(stores)
  BY <1>1, SaveTyped
<1>3. DataTyped' /\ Grows
  BY <1>1, <1>2, FrameFacts DEF Typed, DataTyped, Grows, rows
<1> QED BY <1>3, EndMoves DEF Steps

LEMMA ConsentChangesStep ==
  ASSUME Typed, NEW w \in Workers, StartSca(w) \/ Finalise(w) \/ Terminate(w)
  PROVE  Steps(w)
<1> DEFINE id == frame[w].consent
           c == consents[id]
           on == [c EXCEPT !.auth = TRUE]
           valid == [c EXCEPT !.status = "valid"]
           gone == [c EXCEPT !.status = "terminatedByTpp"]
<1>1. id \in DOMAIN consents
  BY FrameFacts DEF StartSca, Finalise, Terminate, Equipped, Ready, Loaded, Listing
<1>2. c \in Consent
  BY <1>1 DEF Typed, DataTyped
<1>3. /\ End(w) /\ Save(id)
      /\ UNCHANGED <<rows, sessions, live, codes, issued, redeemed>>
  BY DEF StartSca, Finalise, Terminate, history
<1>4. \/ consents' = [consents EXCEPT ![id] = on]
      \/ consents' = [consents EXCEPT ![id] = valid]
      \/ consents' = [consents EXCEPT ![id] = gone]
  BY DEF StartSca, Finalise, Terminate
<1> HIDE DEF id, c
<1>5. on \in Consent /\ valid \in Consent /\ gone \in Consent
  BY <1>2 DEF Consent, Statuses
<1> HIDE DEF on, valid, gone
<1> QED BY <1>1, <1>3, <1>4, <1>5, RewriteSteps

LEMMA VerifyPsuSteps ==
  ASSUME Typed, NEW w \in Workers, VerifyPsu(w) PROVE Steps(w)
<1> DEFINE f == frame[w]
           c == consents[f.consent]
           d == [c EXCEPT !.customer = sessions[f.session].customer]
<1>1. f.bank \in Banks /\ f.consent \in DOMAIN consents /\ f.session \in DOMAIN sessions
  BY FrameFacts DEF VerifyPsu, Equipped, Ready, Loaded, Listing
<1>2. CASE End(w) /\ UNCHANGED consents
  <2>1. DataTyped' /\ Grows
    BY <1>2, ReadsKeep DEF VerifyPsu, rows, objects
  <2> QED BY <1>2, <2>1, EndMoves DEF Steps
<1>3. CASE consents' = [consents EXCEPT ![f.consent] = d] /\ Goto(w, "finalise")
  <2>1. c \in Consent /\ sessions[f.session].customer \in CustomerIds
    BY <1>1 DEF Typed, DataTyped, Credential
  <2> HIDE DEF c
  <2>2. d \in Consent
    BY <2>1 DEF Consent
  <2> HIDE DEF d
  <2>3. /\ DOMAIN consents' = DOMAIN consents
        /\ \A x \in DOMAIN consents : consents'[x] \in Consent
    BY <1>1, <1>3, <2>2, ConsentsTyped
  <2>4. DataTyped' /\ Grows
    BY <2>3, FrameFacts DEF VerifyPsu, Typed, DataTyped, Grows, rows
  <2>5. Ready(frame[w], "finalise", sessions', DOMAIN consents', Len(stores'))
    BY <1>1, <2>3 DEF VerifyPsu, Ready, Named, Redirected, Loaded, Listing
  <2> QED BY <1>3, <2>4, <2>5, GotoMoves DEF Steps, AccessLabels
<1> QED BY <1>2, <1>3 DEF VerifyPsu

LEMMA ListSteps ==
  ASSUME Typed, NEW w \in Workers, List(w) PROVE Steps(w)
<1>1. DataTyped' /\ Grows
  BY ReadsKeep DEF List
<1>2. End(w)
  BY DEF List
<1> QED BY <1>1, <1>2, EndMoves DEF Steps

LEMMA DeletionSteps ==
  ASSUME Typed, NEW w \in Workers, RemoveBank(w) \/ RemoveCustomers(w) \/ PurgeCredentials(w)
  PROVE  Steps(w)
<1>1. DataTyped' /\ Grows
  BY FrameFacts DEF RemoveBank, RemoveCustomers, PurgeCredentials, Typed, DataTyped, Grows,
                    objects, history
<1>2. CASE PurgeCredentials(w)
  BY <1>1, <1>2, EndMoves DEF PurgeCredentials, Steps
<1>3. CASE RemoveBank(w)
  <2>1. Ready(frame[w], "remove_customers", sessions', DOMAIN consents', Len(stores'))
    BY <1>3, FrameFacts DEF RemoveBank, Equipped, Ready, Named, Redirected, Loaded, Listing
  <2> QED BY <1>1, <1>3, <2>1, GotoMoves DEF RemoveBank, Steps, AccessLabels
<1>4. CASE RemoveCustomers(w)
  <2>1. Ready(frame[w], "purge_consents", sessions', DOMAIN consents', Len(stores'))
    BY <1>4, FrameFacts DEF RemoveCustomers, Equipped, Ready, Named, Redirected, Loaded, Listing
  <2> QED BY <1>1, <1>4, <2>1, GotoMoves DEF RemoveCustomers, Steps, AccessLabels
<1> QED BY <1>2, <1>3, <1>4

LEMMA PurgeConsentsSteps ==
  ASSUME Typed, NEW w \in Workers, PurgeConsents(w) PROVE Steps(w)
<1> DEFINE f == frame[w]
           m == Cardinality(Current)
           n == Len(stores)
           g == [f EXCEPT !.dict = n, !.size = m, !.pc = "purging"]
<1>1. DataTyped' /\ Grows
  BY ReadsKeep DEF PurgeConsents, history
<1>2. f \in Frame /\ f.bank \in Banks /\ n \in Nat /\ n > 0
  BY FrameFacts DEF PurgeConsents, Equipped, Ready, Typed, DataTyped, StoresTyped
<1>3. frame' = [frame EXCEPT ![w] = g]
  BY DEF PurgeConsents
<1>4. m \in Nat /\ Len(stores') = n
  <2>1. IsFiniteSet(Current)
    BY <1>2 DEF Current, Typed, DataTyped, StoresTyped
  <2> QED BY <2>1, FS_CardinalityType DEF PurgeConsents, objects
<1> HIDE DEF f, m, n
<1>5. g \in Frame /\ g.pc = "purging" /\ g.bank = f.bank /\ g.dict = n
  BY <1>2, <1>4, LabelsTyped DEF Frame
<1> HIDE DEF g
<1>6. Equipped(g, sessions', DOMAIN consents', Len(stores'))
  BY <1>2, <1>4, <1>5 DEF Equipped, Ready, Named, Redirected, Loaded, Listing
<1> QED BY <1>1, <1>3, <1>5, <1>6 DEF Steps, Moves

LEMMA KeepOthersSteps ==
  ASSUME Typed, NEW w \in Workers, KeepOthers(w) PROVE Steps(w)
<1> DEFINE f == frame[w]
           left == {id \in stores[f.dict] : consents[id].bank # f.bank}
           g == [f EXCEPT !.kept = left, !.pc = "replace"]
<1>1. DataTyped' /\ Grows /\ UNCHANGED consents
  BY ReadsKeep DEF KeepOthers, history, objects
<1>2. f \in Frame /\ f.bank \in Banks /\ f.dict \in 1..Len(stores)
  BY FrameFacts DEF KeepOthers, Equipped, Ready
<1>3. CASE End(w)
  BY <1>1, <1>3, EndMoves DEF Steps
<1>4. CASE frame' = [frame EXCEPT ![w] = g]
  <2>1. stores \in Seq(SUBSET DOMAIN consents)
    BY DEF Typed, DataTyped, StoresTyped
  <2>2. left \in SUBSET DOMAIN consents
    BY <1>2, <2>1, ElementOfSeq
  <2>3. IsFiniteSet(left)
    BY <1>2, FS_Subset DEF Typed, DataTyped, StoresTyped
  <2>4. left \in SUBSET ConsentIds
    BY <2>2 DEF Typed, DataTyped
  <2> HIDE DEF left, f
  <2>5. g \in Frame /\ g.pc = "replace" /\ g.bank = f.bank /\ g.kept = left
    BY <1>2, <2>4, LabelsTyped DEF Frame
  <2> HIDE DEF g
  <2>6. Equipped(g, sessions', DOMAIN consents', Len(stores'))
    BY <1>1, <1>2, <2>2, <2>3, <2>5 DEF Equipped, Ready, Named, Redirected, Loaded, Listing
  <2> QED BY <1>1, <1>4, <2>5, <2>6 DEF Steps, Moves
<1> QED BY <1>3, <1>4 DEF KeepOthers

LEMMA PurgedSteps ==
  ASSUME Typed, NEW w \in Workers, Purged(w) PROVE Steps(w)
<1> DEFINE f == frame[w]
           left == f.kept
<1>1. f.bank \in Banks /\ left \in SUBSET DOMAIN consents /\ IsFiniteSet(left)
  BY FrameFacts DEF Purged, Equipped, Ready
<1>2. stores' = Append(stores, left) /\ Goto(w, "purge_payments")
  BY DEF Purged
<1>3. stores \in Seq(SUBSET DOMAIN consents) /\ Len(stores) \in Nat
  BY FrameFacts DEF Typed, DataTyped, StoresTyped
<1> HIDE DEF left
<1>4. /\ stores' \in Seq(SUBSET DOMAIN consents) /\ Len(stores') = Len(stores) + 1
      /\ \A i \in 1..Len(stores) : stores'[i] = stores[i]
      /\ stores'[Len(stores) + 1] = left
  BY <1>1, <1>2, <1>3, AppendProperties
<1>5. \A i \in 1..Len(stores') : i \in 1..Len(stores) \/ i = Len(stores) + 1
  BY <1>3, <1>4
<1>6. StoresTyped(stores', DOMAIN consents)
  BY <1>1, <1>3, <1>4, <1>5 DEF Typed, DataTyped, StoresTyped
<1>7. DataTyped' /\ Grows
  BY <1>4, <1>6, FrameFacts DEF Purged, Typed, DataTyped, Grows, rows, history
<1>8. Ready(frame[w], "purge_payments", sessions', DOMAIN consents', Len(stores'))
  BY <1>1 DEF Purged, Ready, Named, Redirected, Loaded, Listing
<1> QED BY <1>2, <1>7, <1>8, GotoMoves DEF Steps, AccessLabels

(* The purge of the payments, and a payment put into their store.          *)
LEMMA PaymentSteps ==
  ASSUME Typed, NEW w \in Workers, PurgePayments(w) \/ PaymentsPurged(w) \/ AddPayment(w)
  PROVE  Steps(w)
<1> DEFINE f == frame[w]
<1>1. DataTyped' /\ Grows
  BY ReadsKeep DEF PurgePayments, PaymentsPurged, AddPayment, history
<1>2. CASE End(w)
  BY <1>1, <1>2, EndMoves DEF Steps
<1>3. CASE PaymentsPurged(w) /\ Goto(w, "purge_credentials")
  <2>1. Ready(frame[w], "purge_credentials", sessions', DOMAIN consents', Len(stores'))
    BY <1>3, FrameFacts DEF PaymentsPurged, Equipped, Ready, Named, Redirected, Loaded, Listing
  <2> QED BY <1>1, <1>3, <2>1, GotoMoves DEF Steps, AccessLabels
<1>4. CASE PurgePayments(w)
  <2> DEFINE g == [f EXCEPT !.size = payments, !.pc = "purging_payments"]
  <2>1. frame' = [frame EXCEPT ![w] = g]
    BY <1>4 DEF PurgePayments
  <2>2. f \in Frame /\ f.bank \in Banks /\ payments \in Nat
    BY <1>4, FrameFacts DEF PurgePayments, Equipped, Ready, Typed
  <2> HIDE DEF f
  <2>3. g \in Frame /\ g.pc = "purging_payments" /\ g.bank = f.bank
    BY <2>2 DEF Frame, AccessLabels
  <2> HIDE DEF g
  <2>4. Equipped(g, sessions', DOMAIN consents', Len(stores'))
    BY <2>2, <2>3 DEF Equipped, Ready, Named, Redirected, Loaded, Listing
  <2> QED BY <1>1, <2>1, <2>3, <2>4 DEF Steps, Moves
<1> QED BY <1>2, <1>3, <1>4 DEF PaymentsPurged, AddPayment

(* A listing on its way through the accounts. *)
LEMMA ListingSteps ==
  ASSUME Typed, NEW w \in Workers, ListAccounts(w) \/ ScopeToCustomer(w) \/ MatchCustomer(w)
  PROVE  Steps(w)
<1> DEFINE f == frame[w]
           customer == consents[f.consent].customer
<1>1. DataTyped' /\ Grows /\ UNCHANGED consents
  BY ReadsKeep DEF ListAccounts, ScopeToCustomer, MatchCustomer, history, objects
<1>2. f \in Frame /\ f.bank \in Banks /\ f.consent \in DOMAIN consents
  BY FrameFacts DEF ListAccounts, ScopeToCustomer, MatchCustomer, Equipped, Ready, Loaded, Listing
<1>3. customer \in CustomerIds \union {None}
  BY <1>2 DEF Typed, DataTyped, Consent
<1>4. HalfApproved(f.consent) \in BOOLEAN
  BY DEF HalfApproved
<1>5. ASSUME NEW g \in Frame, g.pc \in {"scope", "match", "list"},
             g.bank = f.bank, g.consent = f.consent, frame' = [frame EXCEPT ![w] = g]
      PROVE  Steps(w)
  <2>1. Equipped(g, sessions', DOMAIN consents', Len(stores'))
    BY <1>1, <1>2, <1>5 DEF Equipped, Ready, Named, Redirected, Loaded, Listing
  <2> QED BY <1>1, <1>5, <2>1 DEF Steps, Moves
<1>6. CASE ListAccounts(w)
  <2> DEFINE all == {a \in AccountIds : Seed.holder[a] \in CustomersOf(f.bank)}
             g == [f EXCEPT !.todo = all, !.seen = {}, !.bound = {}, !.pc = "scope"]
  <2>1. frame' = [frame EXCEPT ![w] = g]
    BY <1>6 DEF ListAccounts
  <2>2. all \in SUBSET AccountIds
    OBVIOUS
  <2> HIDE DEF all, f
  <2>3. g \in Frame /\ g.pc = "scope" /\ g.bank = f.bank /\ g.consent = f.consent
    BY <1>2, <2>2, LabelsTyped DEF Frame
  <2> HIDE DEF g
  <2> QED BY <1>5, <2>1, <2>3
<1>7. CASE ScopeToCustomer(w)
  <2> DEFINE half == HalfApproved(f.consent)
             g == [f EXCEPT !.seen = f.todo, !.half = half, !.pc = "list"]
             h == [f EXCEPT !.half = half, !.pc = "match"]
  <2>1. frame' = [frame EXCEPT ![w] = g] \/ frame' = [frame EXCEPT ![w] = h]
    BY <1>7 DEF ScopeToCustomer
  <2>2. half \in BOOLEAN
    BY <1>4
  <2> HIDE DEF half, f
  <2>3. /\ g \in Frame /\ g.pc = "list" /\ g.bank = f.bank /\ g.consent = f.consent
        /\ h \in Frame /\ h.pc = "match" /\ h.bank = f.bank /\ h.consent = f.consent
    BY <1>2, <2>2, LabelsTyped DEF Frame
  <2> HIDE DEF g, h
  <2> QED BY <1>5, <2>1, <2>3
<1>8. CASE MatchCustomer(w)
  <2>1. PICK a \in f.todo :
          frame' = [frame EXCEPT
            ![w].todo = f.todo \ {a},
            ![w].seen = IF Seed.holder[a] = customer THEN f.seen \union {a} ELSE f.seen,
            ![w].bound = f.bound \union {customer},
            ![w].half = f.half \/ HalfApproved(f.consent),
            ![w].pc = IF f.todo = {a} THEN "list" ELSE "match"]
    BY <1>8 DEF MatchCustomer
  <2> DEFINE todo == f.todo \ {a}
             seen == IF Seed.holder[a] = customer THEN f.seen \union {a} ELSE f.seen
             bound == f.bound \union {customer}
             half == f.half \/ HalfApproved(f.consent)
             label == IF f.todo = {a} THEN "list" ELSE "match"
             g == [f EXCEPT !.todo = todo, !.seen = seen, !.bound = bound, !.half = half,
                            !.pc = label]
  <2>2. frame' = [frame EXCEPT ![w] = g]
    BY <2>1
  <2>3. half \in BOOLEAN
    OBVIOUS
  <2>4. /\ todo \in SUBSET AccountIds /\ seen \in SUBSET AccountIds
        /\ bound \in SUBSET (CustomerIds \union {None}) /\ label \in {"match", "list"}
    BY <1>2, <1>3, <2>1 DEF Frame
  <2> HIDE DEF f, todo, seen, bound, half, label
  <2>5. g \in Frame /\ g.pc = label /\ g.bank = f.bank /\ g.consent = f.consent
    BY <1>2, <2>3, <2>4, LabelsTyped DEF Frame
  <2> HIDE DEF g
  <2> QED BY <1>5, <2>2, <2>4, <2>5
<1> QED BY <1>6, <1>7, <1>8

LEMMA QuietSteps == ASSUME Typed, NEW w \in Workers, Quiet(w) PROVE Steps(w)
BY ListingSteps, KeepOthersSteps, PaymentSteps DEF Quiet

(* Payments are only ever added. *)
LEMMA PaymentsCount ==
  ASSUME payments \in Nat, NEW w \in Workers, Accepts(w) \/ Works(w) PROVE payments' \in Nat
<1>1. CASE Accepts(w)
  BY <1>1 DEF Accepts, BeginCreateCustomer, BeginRegister, BeginLogin, BeginAuthorize,
     BeginConsentCall, BeginFinishSca, BeginToken, BeginDeleteBank, BeginCreateConsent,
     BeginPayment, Logout, Begin, Accept
<1>2. CASE AddPayment(w)
  BY <1>2 DEF AddPayment
<1>3. CASE Works(w) /\ ~AddPayment(w)
  <2>1. UNCHANGED counters
    BY <1>3 DEF Works, AddCustomer, CheckCustomer, AddCredential, FindCredential, OpenSession,
         ConsentPsu, Approve, BindCustomer, Narrow, IssueCode, DropCode, AddConsent, LoadConsent,
         StartSca, VerifyPsu, Finalise, Terminate, ListAccounts, ScopeToCustomer, MatchCustomer,
         List, RemoveBank, RemoveCustomers, PurgeConsents, KeepOthers, Purged, PurgePayments,
         PaymentsPurged, PurgeCredentials
  <2> QED BY <2>1 DEF counters
<1> QED BY <1>1, <1>2, <1>3

LEMMA AcceptsStep ==
  ASSUME AccessAssumption, Typed, NEW w \in Workers, Accepts(w), ~Logout(w)
  PROVE  Steps(w) /\ Headed(w)
BY LoginHeadsStep, ConsentHeadsStep DEF Accepts

LEMMA WorksStep == ASSUME Typed, NEW w \in Workers, Works(w) PROVE Steps(w)
<1>2. CASE \/ AddCustomer(w) \/ CheckCustomer(w) \/ AddCredential(w)
           \/ FindCredential(w) \/ OpenSession(w)
  BY <1>2, AddCustomerSteps, CheckCustomerSteps, AddCredentialSteps, FindCredentialSteps,
     OpenSessionSteps
<1>3. CASE \/ ConsentPsu(w) \/ Approve(w) \/ BindCustomer(w) \/ Narrow(w)
           \/ IssueCode(w) \/ DropCode(w)
  BY <1>3, ConsentPsuSteps, ApproveSteps, BindCustomerSteps, NarrowSteps, IssueCodeSteps,
     DropCodeSteps
<1>4. CASE \/ AddConsent(w) \/ LoadConsent(w) \/ StartSca(w) \/ VerifyPsu(w)
           \/ Finalise(w) \/ Terminate(w) \/ List(w)
  BY <1>4, AddConsentSteps, LoadConsentSteps, ConsentChangesStep, VerifyPsuSteps, ListSteps
<1>5. CASE \/ RemoveBank(w) \/ RemoveCustomers(w) \/ PurgeConsents(w) \/ Purged(w)
           \/ PurgeCredentials(w)
  BY <1>5, DeletionSteps, PurgeConsentsSteps, PurgedSteps
<1>6. CASE Quiet(w)
  BY <1>6, QuietSteps
<1> QED BY <1>2, <1>3, <1>4, <1>5, <1>6 DEF Works, Quiet

LEMMA FirstDict == ASSUME NEW ids PROVE StoresTyped(<<{}>>, ids)
BY FS_EmptySet DEF StoresTyped

LEMMA InitTyped == ASSUME AccessAssumption, Init PROVE Typed
<1>1. /\ DOMAIN sessions = {} /\ DOMAIN consents = {} /\ DOMAIN codes = {}
      /\ stores = <<{}>>
  BY DEF Init
<1>2. StoresTyped(stores, DOMAIN consents)
  BY <1>1, FirstDict
<1>3. issued \subseteq CustomerIds
  BY DEF Init, AccessAssumption, Customer
<1>4. DataTyped
  BY <1>1, <1>2, <1>3 DEF Init, DataTyped, AccessAssumption
<1>5. \A w \in Workers : frame[w] = IdleFrame
  BY DEF Init
<1>6. frame \in [Workers -> Frame] /\ payments \in Nat
  BY IdleTyped DEF Init
<1> QED BY <1>4, <1>5, <1>6, IdleTyped, IdleEquipped DEF Typed, FrameTyped

LEMMA RestartTyped == ASSUME Typed, Restart PROVE Typed'
<1>1. DOMAIN codes' = {} /\ stores' = <<{}>> /\ live' = {}
  BY DEF Restart
<1>2. StoresTyped(stores', DOMAIN consents')
  BY <1>1, FirstDict
<1>3. DataTyped'
  BY <1>1, <1>2 DEF Restart, Typed, DataTyped, rows, history
<1>4. /\ frame' \in [Workers -> Frame]
      /\ \A w \in Workers : frame'[w] = IdleFrame
      /\ payments' \in Nat
  BY IdleTyped DEF Restart, Typed
<1> QED BY <1>3, <1>4, IdleTyped, IdleEquipped DEF Typed, FrameTyped

LEMMA TypedKept == ASSUME AccessAssumption, Typed, [Next]_vars PROVE Typed'
<1>1. CASE UNCHANGED vars
  BY <1>1 DEF Typed, DataTyped, vars
<1>2. CASE AllServed
  BY <1>2 DEF AllServed, Typed, DataTyped, vars
<1>3. CASE Restart
  BY <1>3, RestartTyped
<1>4. ASSUME NEW w \in Workers, Accepts(w) \/ Works(w) PROVE Typed'
  <2>1. payments' \in Nat
    BY <1>4, PaymentsCount DEF Typed
  <2> QED BY <1>4, <2>1, LogoutTyped, AcceptsStep, WorksStep, MovesKeepTypes DEF Steps
<1> QED BY <1>1, <1>2, <1>3, <1>4 DEF Next

(* Rows, sessions, consents, codes and requests keep their types, whatever *)
(* workers do to the objects they share and wherever the process restarts: *)
(* what a request has loaded is there for as long as it works with it.     *)
THEOREM TypeCorrect == Spec => []TypeOK
<1>1. Typed => TypeOK
  BY DEF Typed, FrameTyped, DataTyped, StoresTyped, TypeOK
<1> QED BY <1>1, InitTyped, TypedKept, AccessAssumption, PTL DEF Spec

-----------------------------------------------------------------------------
(* What steps do to frames. *)

LEMMA OthersStay ==
  ASSUME Typed, NEW w \in Workers, Moves(w)
  PROVE  \A v \in Workers \ {w} : frame'[v] = frame[v]
BY DEF Moves, Typed

LEMMA EndFields ==
  ASSUME Typed, NEW w \in Workers, End(w) PROVE frame'[w] = IdleFrame
BY DEF End, Typed

LEMMA GotoFields ==
  ASSUME Typed, NEW w \in Workers, NEW label \in AccessLabels, Goto(w, label)
  PROVE  /\ frame'[w].pc = label /\ frame'[w].op = frame[w].op
         /\ frame'[w].bank = frame[w].bank /\ frame'[w].user = frame[w].user
         /\ frame'[w].customer = frame[w].customer /\ frame'[w].consent = frame[w].consent
         /\ frame'[w].session = frame[w].session /\ frame'[w].ticked = frame[w].ticked
<1>1. frame' = [frame EXCEPT ![w] = [frame[w] EXCEPT !.pc = label]]
  BY DEF Goto
<1>2. frame'[w] = [frame[w] EXCEPT !.pc = label]
  BY <1>1 DEF Typed
<1> QED BY <1>2, FrameFacts, Relabelled

(* A login that was found: the row of that name in that bank.              *)
LEMMA FoundFields ==
  ASSUME Typed, NEW w \in Workers, FindCredential(w), ~End(w)
  PROVE  /\ frame'[w].pc = "open_session" /\ frame'[w].consent = frame[w].consent
         /\ frame'[w].op = frame[w].op /\ frame'[w].bank = frame[w].bank
         /\ [bank |-> frame'[w].bank, user |-> frame'[w].user,
             customer |-> frame'[w].customer] \in credentials
<1> DEFINE f == frame[w]
<1>1. PICK c \in credentials :
        /\ c.bank = f.bank /\ c.user = f.user
        /\ frame' = [frame EXCEPT ![w] = [f EXCEPT !.customer = c.customer, !.pc = "open_session"]]
  BY DEF FindCredential
<1>2. c \in Credential
  BY DEF Typed, DataTyped
<1>3. c = [bank |-> c.bank, user |-> c.user, customer |-> c.customer]
  BY <1>2 DEF Credential
<1>4. frame'[w] = [f EXCEPT !.customer = c.customer, !.pc = "open_session"]
  BY <1>1 DEF Typed
<1>5. f \in Frame
  BY FrameFacts
<1> HIDE DEF f
<1>6. /\ frame'[w].pc = "open_session" /\ frame'[w].bank = f.bank /\ frame'[w].user = f.user
      /\ frame'[w].customer = c.customer /\ frame'[w].consent = f.consent /\ frame'[w].op = f.op
  BY <1>4, <1>5 DEF Frame
<1> QED BY <1>1, <1>3, <1>6 DEF f

LEMMA OpenedFields ==
  ASSUME Typed, NEW w \in Workers, OpenSession(w), ~End(w)
  PROVE  /\ frame'[w].pc = "consent_psu" /\ frame'[w].consent = frame[w].consent
         /\ frame[w].op = "authorize" /\ frame'[w].op = frame[w].op
         /\ frame'[w].bank = frame[w].bank /\ frame'[w].user = frame[w].user
         /\ frame'[w].customer = frame[w].customer
<1> DEFINE f == frame[w]
<1>1. /\ f.op = "authorize"
      /\ \E t \in NewId(Tokens) :
           frame' = [frame EXCEPT ![w] = [f EXCEPT !.session = t, !.pc = "consent_psu"]]
  BY DEF OpenSession
<1>2. PICK t \in NewId(Tokens) : frame'[w] = [f EXCEPT !.session = t, !.pc = "consent_psu"]
  BY <1>1 DEF Typed
<1>3. f \in Frame
  BY FrameFacts
<1> HIDE DEF f
<1>4. /\ frame'[w].pc = "consent_psu" /\ frame'[w].bank = f.bank /\ frame'[w].user = f.user
      /\ frame'[w].customer = f.customer /\ frame'[w].consent = f.consent /\ frame'[w].op = f.op
  BY <1>2, <1>3 DEF Frame
<1> QED BY <1>1, <1>4 DEF f

LEMMA VettedFields ==
  ASSUME Typed, NEW w \in Workers, ConsentPsu(w), ~End(w)
  PROVE  /\ InStore(frame[w]) /\ PsuMatches(consents[frame[w].consent], frame[w].user)
         /\ frame'[w].pc = "approve" /\ frame'[w].consent = frame[w].consent
         /\ frame'[w].op = frame[w].op
         /\ frame'[w].bank = frame[w].bank /\ frame'[w].user = frame[w].user
         /\ frame'[w].customer = frame[w].customer
<1> DEFINE f == frame[w]
           ticks == IF f.ticked = None THEN None
                    ELSE f.ticked \intersect Eligible(f.bank, f.customer)
<1>1. /\ InStore(f) /\ PsuMatches(consents[f.consent], f.user)
      /\ frame' = [frame EXCEPT ![w] = [f EXCEPT !.pc = "approve", !.ticked = ticks]]
  BY DEF ConsentPsu
<1>2. frame'[w] = [f EXCEPT !.pc = "approve", !.ticked = ticks]
  BY <1>1 DEF Typed
<1>3. f \in Frame
  BY FrameFacts
<1> HIDE DEF f, ticks
<1>4. /\ frame'[w].pc = "approve" /\ frame'[w].bank = f.bank /\ frame'[w].user = f.user
      /\ frame'[w].customer = f.customer /\ frame'[w].consent = f.consent /\ frame'[w].op = f.op
  BY <1>2, <1>3 DEF Frame
<1> QED BY <1>1, <1>4 DEF f

(* The labels at which nothing is known of a customer or a consent.        *)
LEMMA AddedFields ==
  ASSUME Typed, NEW w \in Workers, AddCustomer(w)
  PROVE  /\ frame'[w].pc = "check_customer" /\ frame'[w].consent = frame[w].consent
         /\ frame'[w].op = frame[w].op /\ frame'[w].bank = frame[w].bank
<1> DEFINE f == frame[w]
<1>1. PICK id \in NewId(CustomerIds) :
        frame' = [frame EXCEPT ![w] = [f EXCEPT !.customer = id, !.pc = "check_customer"]]
  BY DEF AddCustomer
<1>2. frame'[w] = [f EXCEPT !.customer = id, !.pc = "check_customer"]
  BY <1>1 DEF Typed
<1>3. f \in Frame
  BY FrameFacts
<1> HIDE DEF f
<1>4. /\ frame'[w].pc = "check_customer" /\ frame'[w].op = f.op /\ frame'[w].bank = f.bank
      /\ frame'[w].consent = f.consent
  BY <1>2, <1>3 DEF Frame
<1> QED BY <1>4 DEF f

LEMMA PurgingFields ==
  ASSUME Typed, NEW w \in Workers, PurgeConsents(w)
  PROVE  /\ frame'[w].pc = "purging" /\ frame'[w].consent = frame[w].consent
         /\ frame'[w].op = frame[w].op /\ frame'[w].bank = frame[w].bank
         /\ frame'[w].dict = Len(stores) /\ frame'[w].size = Cardinality(Current)
<1> DEFINE f == frame[w]
           n == Len(stores)
           m == Cardinality(Current)
<1>1. frame' = [frame EXCEPT ![w] = [f EXCEPT !.dict = n, !.size = m, !.pc = "purging"]]
  BY DEF PurgeConsents
<1>2. frame'[w] = [f EXCEPT !.dict = n, !.size = m, !.pc = "purging"]
  BY <1>1 DEF Typed
<1>3. f \in Frame
  BY FrameFacts
<1> HIDE DEF f, n, m
<1>4. /\ frame'[w].pc = "purging" /\ frame'[w].op = f.op /\ frame'[w].bank = f.bank
      /\ frame'[w].dict = n /\ frame'[w].size = m /\ frame'[w].consent = f.consent
  BY <1>2, <1>3 DEF Frame
<1> QED BY <1>4 DEF f, n, m

(* What a quiet step leaves of a frame, and where it goes.                 *)
Follows(f, g) ==
  /\ g.op = f.op /\ g.bank = f.bank /\ g.consent = f.consent
  /\ \/ f.pc = "list_accounts" /\ g.pc = "scope"
     \/ f.pc \in {"scope", "match"} /\ g.pc \in {"match", "list"}
     \/ f.pc = "purging" /\ g.pc = "replace"
     \/ f.pc = "purge_payments" /\ g.pc = "purging_payments"
     \/ f.pc = "purging_payments" /\ g.pc = "purge_credentials"

(* Each of the three steps of a listing, in what it gathers.               *)
LEMMA ListedFields ==
  ASSUME Typed, NEW w \in Workers, ListAccounts(w)
  PROVE  /\ frame'[w].pc = "scope" /\ frame'[w].seen = {} /\ frame'[w].bound = {}
         /\ Follows(frame[w], frame'[w])
<1> DEFINE f == frame[w]
           all == {a \in AccountIds : Seed.holder[a] \in CustomersOf(f.bank)}
           g == [f EXCEPT !.todo = all, !.seen = {}, !.bound = {}, !.pc = "scope"]
<1>1. frame' = [frame EXCEPT ![w] = g] /\ f.pc = "list_accounts"
  BY DEF ListAccounts
<1>2. frame'[w] = g /\ f \in Frame
  BY <1>1, FrameFacts DEF Typed
<1> HIDE DEF f, all
<1>3. /\ g.pc = "scope" /\ g.seen = {} /\ g.bound = {}
      /\ g.op = f.op /\ g.bank = f.bank /\ g.consent = f.consent
  BY <1>2 DEF Frame
<1> QED BY <1>1, <1>2, <1>3 DEF Follows, f

LEMMA ScopedFields ==
  ASSUME Typed, NEW w \in Workers, ScopeToCustomer(w)
  PROVE  /\ Follows(frame[w], frame'[w])
         /\ frame'[w].half = HalfApproved(frame[w].consent)
         /\ frame'[w].bound = frame[w].bound
         /\ frame'[w].pc = "list" =>
              /\ frame'[w].seen = frame[w].todo
              /\ consents[frame[w].consent].customer = None \/ frame[w].todo = {}
         /\ frame'[w].pc = "match" => frame'[w].seen = frame[w].seen
<1> DEFINE f == frame[w]
           half == HalfApproved(f.consent)
           g == [f EXCEPT !.seen = f.todo, !.half = half, !.pc = "list"]
           h == [f EXCEPT !.half = half, !.pc = "match"]
<1>1. /\ f.pc = "scope"
      /\ \/ /\ frame' = [frame EXCEPT ![w] = g]
            /\ consents[f.consent].customer = None \/ f.todo = {}
         \/ frame' = [frame EXCEPT ![w] = h]
  BY DEF ScopeToCustomer
<1>2. f \in Frame
  BY FrameFacts
<1>3. \/ frame'[w] = g /\ (consents[f.consent].customer = None \/ f.todo = {})
      \/ frame'[w] = h
  BY <1>1 DEF Typed
<1> HIDE DEF f, half
<1>4. /\ g.pc = "list" /\ g.op = f.op /\ g.bank = f.bank /\ g.consent = f.consent
      /\ g.seen = f.todo /\ g.half = half /\ g.bound = f.bound
      /\ h.pc = "match" /\ h.op = f.op /\ h.bank = f.bank /\ h.consent = f.consent
      /\ h.seen = f.seen /\ h.half = half /\ h.bound = f.bound
  BY <1>2 DEF Frame
<1> HIDE DEF g, h
<1>5. /\ Follows(f, frame'[w]) /\ frame'[w].half = half /\ frame'[w].bound = f.bound
      /\ frame'[w].pc = "list" =>
           /\ frame'[w].seen = f.todo
           /\ consents[f.consent].customer = None \/ f.todo = {}
      /\ frame'[w].pc = "match" => frame'[w].seen = f.seen
  BY <1>1, <1>3, <1>4 DEF Follows
<1> QED BY <1>5 DEF f, half

LEMMA MatchedFields ==
  ASSUME Typed, NEW w \in Workers, MatchCustomer(w)
  PROVE  LET f == frame[w]
             customer == consents[f.consent].customer IN
         /\ Follows(f, frame'[w])
         /\ ~frame'[w].half => ~f.half /\ ~HalfApproved(f.consent)
         /\ frame'[w].bound = f.bound \union {customer}
         /\ \A a \in frame'[w].seen : a \in f.seen \/ Seed.holder[a] = customer
<1> DEFINE f == frame[w]
           customer == consents[f.consent].customer
<1>1. PICK a \in f.todo :
        frame' = [frame EXCEPT
          ![w].todo = f.todo \ {a},
          ![w].seen = IF Seed.holder[a] = customer THEN f.seen \union {a} ELSE f.seen,
          ![w].bound = f.bound \union {customer},
          ![w].half = f.half \/ HalfApproved(f.consent),
          ![w].pc = IF f.todo = {a} THEN "list" ELSE "match"]
  BY DEF MatchCustomer
<1> DEFINE todo == f.todo \ {a}
           seen == IF Seed.holder[a] = customer THEN f.seen \union {a} ELSE f.seen
           bound == f.bound \union {customer}
           half == f.half \/ HalfApproved(f.consent)
           label == IF f.todo = {a} THEN "list" ELSE "match"
           g == [f EXCEPT !.todo = todo, !.seen = seen, !.bound = bound, !.half = half,
                          !.pc = label]
<1>2. frame' = [frame EXCEPT ![w] = g]
  BY <1>1
<1>3. frame'[w] = g /\ f \in Frame
  BY <1>2, FrameFacts DEF Typed
<1>4. /\ f.pc = "match" /\ label \in {"match", "list"}
      /\ \A x \in seen : x \in f.seen \/ Seed.holder[x] = customer
  BY DEF MatchCustomer
<1>5. ~half => ~f.half /\ ~HalfApproved(f.consent)
  OBVIOUS
<1> HIDE DEF f, todo, seen, half, label
<1>6. /\ g.pc = label /\ g.op = f.op /\ g.bank = f.bank /\ g.consent = f.consent
      /\ g.seen = seen /\ g.half = half /\ g.bound = bound
  BY <1>3 DEF Frame
<1> HIDE DEF g
<1>7. Follows(f, frame'[w])
  BY <1>3, <1>4, <1>6 DEF Follows
<1> QED BY <1>3, <1>4, <1>5, <1>6, <1>7 DEF f

(* The steps of a purge that leave the store alone. *)
LEMMA KeptFields ==
  ASSUME Typed, NEW w \in Workers, KeepOthers(w), ~End(w)
  PROVE  /\ Follows(frame[w], frame'[w]) /\ frame'[w].pc = "replace"
         /\ frame'[w].kept = {id \in stores[frame[w].dict] : consents[id].bank # frame[w].bank}
<1> DEFINE f == frame[w]
           left == {id \in stores[f.dict] : consents[id].bank # f.bank}
           g == [f EXCEPT !.kept = left, !.pc = "replace"]
<1>1. frame' = [frame EXCEPT ![w] = g] /\ f.pc = "purging"
  BY DEF KeepOthers
<1>2. frame'[w] = g /\ f \in Frame
  BY <1>1, FrameFacts DEF Typed
<1> HIDE DEF f, left
<1>3. /\ g.pc = "replace" /\ g.kept = left
      /\ g.op = f.op /\ g.bank = f.bank /\ g.consent = f.consent
  BY <1>2 DEF Frame
<1> QED BY <1>1, <1>2, <1>3 DEF Follows, f, left

LEMMA CountedFields ==
  ASSUME Typed, NEW w \in Workers, PurgePayments(w)
  PROVE  /\ Follows(frame[w], frame'[w]) /\ frame'[w].pc = "purging_payments"
         /\ frame'[w].size = payments
<1> DEFINE f == frame[w]
           g == [f EXCEPT !.size = payments, !.pc = "purging_payments"]
<1>1. frame' = [frame EXCEPT ![w] = g] /\ f.pc = "purge_payments"
  BY DEF PurgePayments
<1>2. frame'[w] = g /\ f \in Frame
  BY <1>1, FrameFacts DEF Typed
<1> HIDE DEF f
<1>3. /\ g.pc = "purging_payments" /\ g.size = payments
      /\ g.op = f.op /\ g.bank = f.bank /\ g.consent = f.consent
  BY <1>2 DEF Frame
<1> QED BY <1>1, <1>2, <1>3 DEF Follows, f

(* A quiet step ends its request only where a dict has grown or a payment  *)
(* is in place.                                                            *)
LEMMA QuietFields ==
  ASSUME Typed, NEW w \in Workers, Quiet(w)
  PROVE  \/ /\ End(w) /\ frame'[w] = IdleFrame
            /\ frame[w].pc \in {"purging", "purging_payments", "add_payment"}
         \/ ~End(w) /\ Follows(frame[w], frame'[w])
<1>1. CASE ListAccounts(w) \/ ScopeToCustomer(w) \/ MatchCustomer(w) \/ PurgePayments(w)
  <2>1. Follows(frame[w], frame'[w])
    BY <1>1, ListedFields, ScopedFields, MatchedFields, CountedFields
  <2> QED BY <2>1, EndFields, IdleTyped DEF Follows
<1>2. CASE KeepOthers(w)
  <2>1. frame[w].pc = "purging"
    BY <1>2 DEF KeepOthers
  <2> QED BY <1>2, <2>1, KeptFields, EndFields
<1>3. CASE PaymentsPurged(w)
  <2>1. frame[w].pc = "purging_payments"
    BY <1>3 DEF PaymentsPurged
  <2>2. CASE Goto(w, "purge_credentials")
    BY <2>1, <2>2, EndFields, IdleTyped, GotoFields DEF Follows, AccessLabels
  <2> QED BY <1>3, <2>1, <2>2, EndFields DEF PaymentsPurged
<1>4. CASE AddPayment(w)
  BY <1>4, EndFields DEF AddPayment
<1> QED BY <1>1, <1>2, <1>3, <1>4 DEF Quiet

LEMMA QuietIs ==
  ASSUME NEW w \in Workers, Quiet(w)
  PROVE  /\ frame[w].pc = "scope" => ScopeToCustomer(w)
         /\ frame[w].pc = "match" => MatchCustomer(w)
         /\ frame[w].pc = "list_accounts" => ListAccounts(w)
         /\ frame[w].pc = "purging" => KeepOthers(w)
         /\ frame[w].pc = "purge_payments" => PurgePayments(w)
         /\ frame[w].pc = "purging_payments" => PaymentsPurged(w)
         /\ frame[w].pc = "add_payment" => AddPayment(w)
BY DEF Quiet, ListAccounts, ScopeToCustomer, MatchCustomer, KeepOthers, PurgePayments,
       PaymentsPurged, AddPayment

(* Where a request knows who its customer is. *)
Known == {"open_session"} \union Redirected

LEMMA HeadsAreElsewhere == Heads \intersect (Known \union Loaded \union {"idle"}) = {}
BY DEF Heads, Known, Redirected, Loaded, Listing

LEMMA QuietElsewhere ==
  ASSUME Typed, NEW w \in Workers, Quiet(w) PROVE frame'[w].pc \notin Known
BY QuietFields, IdleTyped DEF Follows, Known, Redirected

(* Most steps do not go to those labels. *)
LEMMA ElsewhereSteps ==
  ASSUME Typed, NEW w \in Workers,
         \/ AddCustomer(w) \/ CheckCustomer(w) \/ AddCredential(w) \/ IssueCode(w) \/ DropCode(w)
         \/ AddConsent(w) \/ LoadConsent(w) \/ StartSca(w) \/ VerifyPsu(w) \/ Finalise(w)
         \/ Terminate(w) \/ List(w) \/ RemoveBank(w) \/ RemoveCustomers(w) \/ PurgeConsents(w)
         \/ Purged(w) \/ PurgeCredentials(w) \/ Quiet(w)
  PROVE  frame'[w].pc \notin Known
<1>1. CASE End(w)
  BY <1>1, EndFields, IdleTyped DEF Known, Redirected
<1>2. CASE \E label \in {"add_credential", "start", "verify_psu", "terminate", "finalise",
                        "list_accounts", "remove_customers", "purge_consents",
                        "purge_payments"} : Goto(w, label)
  BY <1>2, GotoFields DEF Known, Redirected, AccessLabels
<1>3. CASE AddCustomer(w) \/ PurgeConsents(w)
  BY <1>3, AddedFields, PurgingFields DEF Known, Redirected
<1>4. CASE CheckCustomer(w)
  BY <1>1, <1>2, <1>4 DEF CheckCustomer
<1>5. CASE LoadConsent(w)
  BY <1>1, <1>2, <1>5 DEF LoadConsent
<1>6. CASE VerifyPsu(w)
  BY <1>1, <1>2, <1>6 DEF VerifyPsu
<1>7. CASE RemoveBank(w) \/ RemoveCustomers(w) \/ Purged(w)
  BY <1>1, <1>2, <1>7 DEF RemoveBank, RemoveCustomers, Purged
<1> QED BY <1>1, <1>3, <1>4, <1>5, <1>6, <1>7, QuietElsewhere
        DEF AddCredential, IssueCode, DropCode, AddConsent, StartSca, Finalise, Terminate, List,
            PurgeCredentials

-----------------------------------------------------------------------------
(* Whoever is let in has been registered. *)

Claims(f, reg) ==
  f.pc \in Known => [bank |-> f.bank, user |-> f.user, customer |-> f.customer] \in reg

RegisteredInv ==
  /\ credentials \subseteq registered
  /\ \A t \in DOMAIN sessions : sessions[t] \in registered
  /\ \A w \in Workers : Claims(frame[w], registered)

(* A step that leaves logins and sessions alone. *)
LEMMA RegisteredStays ==
  ASSUME Typed, RegisteredInv, NEW w \in Workers, Moves(w),
         UNCHANGED sessions, credentials' \subseteq credentials, UNCHANGED registered,
         Claims(frame'[w], registered)
  PROVE  RegisteredInv'
<1>1. \A v \in Workers : Claims(frame'[v], registered)
  BY OthersStay DEF RegisteredInv
<1> QED BY <1>1 DEF RegisteredInv

LEMMA RegisteredWorks ==
  ASSUME Typed, RegisteredInv, NEW w \in Workers, Works(w), Steps(w) PROVE RegisteredInv'
<1>1. CASE AddCredential(w)
  <2>1. registered \subseteq registered' /\ credentials' \subseteq registered' /\ UNCHANGED sessions
    BY <1>1 DEF AddCredential, RegisteredInv, objects
  <2>2. frame'[w].pc \notin Known
    BY <1>1, ElsewhereSteps
  <2>3. \A v \in Workers : Claims(frame'[v], registered')
    BY <2>1, <2>2, OthersStay DEF Steps, RegisteredInv, Claims
  <2> QED BY <2>1, <2>3 DEF RegisteredInv
<1>2. CASE OpenSession(w)
  <2> DEFINE s == [bank |-> frame[w].bank, user |-> frame[w].user, customer |-> frame[w].customer]
  <2>1. s \in registered
    BY <1>2 DEF OpenSession, RegisteredInv, Claims, Known
  <2>2. PICK t \in NewId(Tokens) : sessions' = Extend(sessions, t, s)
    BY <1>2 DEF OpenSession
  <2>3. UNCHANGED <<credentials, registered>>
    BY <1>2 DEF OpenSession, rows, history
  <2>4. Claims(frame'[w], registered)
    BY <1>2, <2>1, EndFields, IdleTyped, OpenedFields DEF Claims, Known, Redirected
  <2> HIDE DEF s
  <2>5. \A x \in DOMAIN sessions' : sessions'[x] \in registered
    BY <2>1, <2>2 DEF Extend, RegisteredInv
  <2>6. \A v \in Workers : Claims(frame'[v], registered)
    BY <2>4, OthersStay DEF Steps, RegisteredInv
  <2> QED BY <2>3, <2>5, <2>6 DEF RegisteredInv
<1>3. CASE FindCredential(w) \/ ConsentPsu(w) \/ Approve(w) \/ BindCustomer(w) \/ Narrow(w)
  <2>1. UNCHANGED <<credentials, sessions, registered>>
    BY <1>3 DEF FindCredential, ConsentPsu, Approve, BindCustomer, Narrow, rows, objects, history
  <2>2. CASE End(w)
    <3>1. Claims(frame'[w], registered)
      BY <2>2, EndFields, IdleTyped DEF Claims, Known, Redirected
    <3> QED BY <2>1, <3>1, RegisteredStays DEF Steps
  <2>3. CASE FindCredential(w) /\ ~End(w)
    <3>1. Claims(frame'[w], registered)
      BY <2>3, FoundFields DEF Claims, RegisteredInv
    <3> QED BY <2>1, <3>1, RegisteredStays DEF Steps
  <2>4. CASE ConsentPsu(w) /\ ~End(w)
    <3>1. Claims(frame'[w], registered)
      BY <2>4, VettedFields DEF Claims, RegisteredInv, Known, Redirected, ConsentPsu
    <3> QED BY <2>1, <3>1, RegisteredStays DEF Steps
  <2>5. CASE \E label \in {"bind_customer", "narrow", "issue_code"} :
               Goto(w, label) /\ frame[w].pc \in Redirected
    <3>1. Claims(frame'[w], registered)
      BY <2>5, GotoFields DEF Claims, RegisteredInv, Known, AccessLabels
    <3> QED BY <2>1, <3>1, RegisteredStays DEF Steps
  <2> QED BY <1>3, <2>2, <2>3, <2>4, <2>5 DEF Approve, BindCustomer, Narrow, Redirected
<1>4. CASE \/ AddCustomer(w) \/ CheckCustomer(w) \/ IssueCode(w) \/ DropCode(w)
           \/ AddConsent(w) \/ LoadConsent(w) \/ StartSca(w) \/ VerifyPsu(w) \/ Finalise(w)
           \/ Terminate(w) \/ List(w) \/ RemoveBank(w) \/ RemoveCustomers(w) \/ PurgeConsents(w)
           \/ Purged(w) \/ PurgeCredentials(w) \/ Quiet(w)
  <2>1. UNCHANGED sessions /\ credentials' \subseteq credentials /\ UNCHANGED registered
    BY <1>4, QuietKeeps DEF AddCustomer, CheckCustomer, IssueCode, DropCode, AddConsent, LoadConsent, StartSca,
         VerifyPsu, Finalise, Terminate, List, RemoveBank, RemoveCustomers, PurgeConsents,
         Purged, PurgeCredentials, rows, objects, history
  <2>2. Claims(frame'[w], registered)
    BY <1>4, ElsewhereSteps DEF Claims
  <2> QED BY <2>1, <2>2, RegisteredStays DEF Steps
<1> QED BY <1>1, <1>2, <1>3, <1>4 DEF Works, Quiet

LEMMA RegisteredKept ==
  ASSUME AccessAssumption, Typed, RegisteredInv, [Next]_vars PROVE RegisteredInv'
<1>1. CASE UNCHANGED vars
  BY <1>1 DEF RegisteredInv, vars
<1>2. CASE AllServed
  BY <1>2 DEF AllServed, RegisteredInv, vars
<1>3. CASE Restart
  BY <1>3, IdleTyped DEF Restart, RegisteredInv, Claims, Known, Redirected, rows, history
<1>4. ASSUME NEW w \in Workers, Accepts(w) PROVE RegisteredInv'
  <2>1. CASE Logout(w)
    BY <2>1 DEF Logout, RegisteredInv, rows, history
  <2>2. CASE ~Logout(w)
    <3>1. Steps(w) /\ Headed(w)
      BY <1>4, <2>2, AcceptsStep
    <3>2. Claims(frame'[w], registered)
      BY <3>1, HeadsAreElsewhere DEF Headed, Claims
    <3> QED BY <3>1, <3>2, RegisteredStays DEF Headed, Steps, rows, objects, history
  <2> QED BY <2>1, <2>2
<1>5. ASSUME NEW w \in Workers, Works(w) PROVE RegisteredInv'
  BY <1>5, WorksStep, RegisteredWorks
<1> QED BY <1>1, <1>2, <1>3, <1>4, <1>5 DEF Next

-----------------------------------------------------------------------------
(* Consents are bound to the PSU they name. *)

Binders == {"approve", "bind_customer", "narrow"}

Bound(c, reg) ==
  c.psu # None /\ c.customer # None =>
    [bank |-> c.bank, user |-> c.psu, customer |-> c.customer] \in reg

(* What was compared before a consent is written.                          *)
Vetted(f, cs) ==
  /\ f.pc \in Binders =>
       cs[f.consent].bank = f.bank /\ PsuMatches(cs[f.consent], f.user)
  /\ f.pc = "verify_psu" => cs[f.consent].bank = f.bank

BoundInv ==
  /\ \A id \in DOMAIN consents : Bound(consents[id], registered)
  /\ \A w \in Workers : Vetted(frame[w], consents)

(* Of what bank, for which PSU and which accounts a consent is never       *)
(* changes.                                                                *)
Lasting ==
  \A id \in DOMAIN consents :
    /\ id \in DOMAIN consents'
    /\ consents'[id].bank = consents[id].bank
    /\ consents'[id].psu = consents[id].psu
    /\ consents'[id].scope = consents[id].scope

(* The consents, the new ones excepted, are bound as they were.            *)
BindsNone ==
  \A id \in DOMAIN consents' :
    IF id \in DOMAIN consents THEN consents'[id].customer = consents[id].customer
    ELSE consents'[id].customer = None

LEMMA WorksLast == ASSUME Typed, NEW w \in Workers, Works(w) PROVE Lasting
<1> DEFINE id == frame[w].consent
<1>1. \A x \in DOMAIN consents : consents[x] \in Consent
  BY DEF Typed, DataTyped
<1>2. CASE AddConsent(w)
  <2>1. PICK new \in NewId(ConsentIds) : consents' = Extend(consents, new, Asked(frame[w]))
    BY <1>2 DEF AddConsent, Asked
  <2>2. new \notin DOMAIN consents
    BY <2>1, NewIds DEF Typed, DataTyped
  <2> QED BY <2>1, <2>2 DEF Extend, Lasting
<1>3. CASE Approve(w)
  BY <1>1, <1>3 DEF Approve, Lasting, Consent
<1>4. CASE BindCustomer(w) \/ Narrow(w)
  BY <1>1, <1>4 DEF BindCustomer, Narrow, Lasting, Consent
<1>5. CASE StartSca(w) \/ Finalise(w) \/ Terminate(w) \/ VerifyPsu(w)
  BY <1>1, <1>5 DEF StartSca, Finalise, Terminate, VerifyPsu, Lasting, Consent
<1>6. CASE UNCHANGED consents
  BY <1>6 DEF Lasting
<1> QED BY <1>2, <1>3, <1>4, <1>5, <1>6, QuietKeeps
        DEF Works, Quiet, AddCustomer, CheckCustomer, AddCredential, FindCredential, OpenSession,
            ConsentPsu, IssueCode, DropCode, LoadConsent, List, RemoveBank, RemoveCustomers,
            PurgeConsents, Purged, PurgeCredentials, objects

(* Two steps bind; a third creates a consent, bound to nobody.             *)
LEMMA WorksBindNone ==
  ASSUME Typed, NEW w \in Workers, Works(w), ~BindCustomer(w), ~VerifyPsu(w) PROVE BindsNone
<1>1. \A x \in DOMAIN consents : consents[x] \in Consent
  BY DEF Typed, DataTyped
<1>2. CASE AddConsent(w)
  <2>1. PICK new \in NewId(ConsentIds) : consents' = Extend(consents, new, Asked(frame[w]))
    BY <1>2 DEF AddConsent, Asked
  <2>2. new \notin DOMAIN consents /\ Asked(frame[w]).customer = None
    BY <2>1, NewIds DEF Typed, DataTyped, Asked
  <2> QED BY <2>1, <2>2 DEF Extend, BindsNone
<1>3. CASE Approve(w)
  BY <1>1, <1>3 DEF Approve, BindsNone, Consent
<1>4. CASE Narrow(w)
  BY <1>1, <1>4 DEF Narrow, BindsNone, Consent
<1>5. CASE StartSca(w) \/ Finalise(w) \/ Terminate(w)
  BY <1>1, <1>5 DEF StartSca, Finalise, Terminate, BindsNone, Consent
<1>6. CASE UNCHANGED consents
  BY <1>6 DEF BindsNone
<1> QED BY <1>2, <1>3, <1>4, <1>5, <1>6, QuietKeeps
        DEF Works, Quiet, AddCustomer, CheckCustomer, AddCredential, FindCredential, OpenSession,
            ConsentPsu, IssueCode, DropCode, LoadConsent, List, RemoveBank, RemoveCustomers,
            PurgeConsents, Purged, PurgeCredentials, objects

(* Each of these labels is reached from one place. *)
LEMMA ComesFrom ==
  ASSUME Typed, NEW w \in Workers, Works(w)
  PROVE  /\ frame'[w].pc = "approve" => ConsentPsu(w) /\ ~End(w)
         /\ frame'[w].pc = "bind_customer" => Approve(w) /\ Goto(w, "bind_customer")
         /\ frame'[w].pc = "narrow" => BindCustomer(w)
         /\ frame'[w].pc = "issue_code" => Narrow(w)
         /\ frame'[w].pc \in {"start", "verify_psu", "terminate", "list_accounts"} =>
              LoadConsent(w) /\ ~End(w) /\ \E label \in AccessLabels : Goto(w, label)
         /\ frame'[w].pc = "finalise" => VerifyPsu(w) /\ Goto(w, "finalise")
         /\ frame'[w].pc \in {"scope", "match", "list"} => Quiet(w) /\ ~End(w)
         /\ frame'[w].pc = "replace" => KeepOthers(w) /\ ~End(w)
<1>1. CASE End(w)
  BY <1>1, EndFields, IdleTyped
<1>2. CASE ConsentPsu(w)
  BY <1>1, <1>2, VettedFields
<1>3. CASE Approve(w)
  BY <1>1, <1>3, GotoFields DEF Approve, AccessLabels
<1>4. CASE BindCustomer(w)
  BY <1>4, GotoFields DEF BindCustomer, AccessLabels
<1>5. CASE Narrow(w)
  BY <1>5, GotoFields DEF Narrow, AccessLabels
<1>6. CASE LoadConsent(w)
  <2>1. CASE ~End(w)
    <3>1. PICK label \in {"start", "verify_psu", "terminate", "list_accounts"} : Goto(w, label)
      BY <1>6, <2>1 DEF LoadConsent
    <3>2. label \in AccessLabels
      BY DEF AccessLabels
    <3> QED BY <1>6, <2>1, <3>1, <3>2, GotoFields
  <2> QED BY <1>1, <2>1
<1>7. CASE VerifyPsu(w)
  BY <1>1, <1>7, GotoFields DEF VerifyPsu, AccessLabels
<1>8. CASE FindCredential(w) \/ OpenSession(w)
  BY <1>1, <1>8, FoundFields, OpenedFields
<1>9. CASE AddCustomer(w) \/ PurgeConsents(w)
  BY <1>9, AddedFields, PurgingFields
<1>10. CASE \E label \in {"add_credential", "remove_customers", "purge_consents",
                         "purge_payments"} : Goto(w, label)
  BY <1>10, GotoFields DEF AccessLabels
<1>11. CASE Quiet(w)
  BY <1>11, QuietFields, QuietIs, IdleTyped DEF Follows
<1>12. CASE CheckCustomer(w) \/ RemoveBank(w) \/ RemoveCustomers(w) \/ Purged(w)
  BY <1>1, <1>10, <1>12 DEF CheckCustomer, RemoveBank, RemoveCustomers, Purged
<1> QED BY <1>1, <1>2, <1>3, <1>4, <1>5, <1>6, <1>7, <1>8, <1>9, <1>11, <1>12
        DEF Works, Quiet, AddCredential, IssueCode, DropCode, AddConsent, StartSca, Finalise, Terminate,
            List, PurgeCredentials

LEMMA RegisteredGrows ==
  ASSUME NEW w \in Workers, Works(w) PROVE registered \subseteq registered'
BY QuietKeeps DEF Works, Quiet, AddCustomer, CheckCustomer, AddCredential, FindCredential, OpenSession, ConsentPsu,
       Approve, BindCustomer, Narrow, IssueCode, DropCode, AddConsent, LoadConsent, StartSca,
       VerifyPsu, Finalise, Terminate, List, RemoveBank, RemoveCustomers, PurgeConsents, Purged,
       PurgeCredentials, history

(* The two steps that bind a consent have compared the PSU before.         *)
LEMMA BindersBind ==
  ASSUME Typed, RegisteredInv, BoundInv, NEW w \in Workers, BindCustomer(w) \/ VerifyPsu(w),
         Lasting, NEW id \in DOMAIN consents'
  PROVE  Bound(consents'[id], registered)
<1> DEFINE f == frame[w]
<1>1. DOMAIN consents' = DOMAIN consents
  BY DEF BindCustomer, VerifyPsu
<1>2. Bound(consents[id], registered)
  BY <1>1 DEF BoundInv
<1>3. CASE consents'[id].customer = consents[id].customer
  BY <1>1, <1>2, <1>3 DEF Bound, Lasting
<1>4. CASE BindCustomer(w) /\ consents'[id].customer # consents[id].customer
  <2>1. id = f.consent
    BY <1>1, <1>4 DEF BindCustomer
  <2>2. consents[id] \in Consent
    BY <1>1 DEF Typed, DataTyped
  <2>3. consents'[id].customer = f.customer
    BY <1>1, <1>4, <2>1, <2>2 DEF BindCustomer, Consent
  <2>4. [bank |-> f.bank, user |-> f.user, customer |-> f.customer] \in registered
    BY <1>4 DEF BindCustomer, RegisteredInv, Claims, Known, Redirected
  <2>5. consents[id].bank = f.bank /\ PsuMatches(consents[id], f.user)
    BY <1>4, <2>1 DEF BindCustomer, BoundInv, Vetted, Binders
  <2> QED BY <1>1, <2>3, <2>4, <2>5 DEF Bound, Lasting, PsuMatches
<1>5. CASE VerifyPsu(w) /\ consents'[id].customer # consents[id].customer
  <2> DEFINE s == sessions[f.session]
  <2>1. id = f.consent
    BY <1>1, <1>5 DEF VerifyPsu
  <2>2. consents[id] \in Consent /\ f.session \in DOMAIN sessions
    BY <1>1, <1>5, FrameFacts DEF Typed, DataTyped, VerifyPsu, Equipped, Ready
  <2>3. /\ consents'[id].customer = s.customer /\ s.bank = f.bank
        /\ PsuMatches(consents[id], s.user)
    BY <1>1, <1>5, <2>1, <2>2 DEF VerifyPsu, Consent
  <2>4. s \in registered /\ s = [bank |-> s.bank, user |-> s.user, customer |-> s.customer]
    BY <2>2 DEF RegisteredInv, Typed, DataTyped, Credential
  <2>5. consents[id].bank = f.bank
    BY <1>5, <2>1 DEF VerifyPsu, BoundInv, Vetted
  <2> QED BY <1>1, <2>3, <2>4, <2>5 DEF Bound, Lasting, PsuMatches
<1> QED BY <1>3, <1>4, <1>5

LEMMA BoundWorks ==
  ASSUME Typed, RegisteredInv, BoundInv, NEW w \in Workers, Works(w), Steps(w)
  PROVE  BoundInv'
<1>1. Lasting /\ registered \subseteq registered'
  BY WorksLast, RegisteredGrows
<1>2. ASSUME NEW id \in DOMAIN consents' PROVE Bound(consents'[id], registered')
  <2>1. CASE BindCustomer(w) \/ VerifyPsu(w)
    BY <1>1, <2>1, BindersBind DEF Bound
  <2>2. CASE BindsNone
    BY <1>1, <2>2 DEF BindsNone, Lasting, BoundInv, Bound
  <2> QED BY <2>1, <2>2, WorksBindNone
<1>3. ASSUME NEW v \in Workers, v # w PROVE Vetted(frame'[v], consents')
  <2>1. frame'[v] = frame[v]
    BY <1>3, OthersStay DEF Steps
  <2>2. frame[v].pc \in Binders \union {"verify_psu"} => frame[v].consent \in DOMAIN consents
    BY FrameFacts DEF Equipped, Ready, Binders, Redirected, Loaded, Listing
  <2> QED BY <1>1, <2>1, <2>2 DEF BoundInv, Vetted, Lasting, PsuMatches
<1>4. Vetted(frame'[w], consents')
  <2>1. CASE frame'[w].pc = "approve"
    <3>1. UNCHANGED consents
      BY <2>1, ComesFrom DEF ConsentPsu, objects
    <3> QED BY <2>1, <3>1, ComesFrom, VettedFields DEF Vetted, InStore
  <2>2. CASE frame'[w].pc \in {"bind_customer", "narrow"}
    <3>1. /\ frame[w].pc \in Binders /\ frame'[w].consent = frame[w].consent
          /\ frame'[w].bank = frame[w].bank /\ frame'[w].user = frame[w].user
      BY <2>2, ComesFrom, GotoFields DEF Approve, BindCustomer, Binders, AccessLabels
    <3>2. frame[w].consent \in DOMAIN consents
      BY <3>1, FrameFacts DEF Equipped, Ready, Binders, Redirected
    <3> QED BY <1>1, <2>2, <3>1, <3>2 DEF BoundInv, Vetted, Lasting, PsuMatches
  <2>3. CASE frame'[w].pc = "verify_psu"
    <3>1. /\ InStore(frame[w]) /\ UNCHANGED consents
          /\ frame'[w].consent = frame[w].consent /\ frame'[w].bank = frame[w].bank
      BY <2>3, ComesFrom, GotoFields DEF LoadConsent, objects
    <3> QED BY <2>3, <3>1 DEF Vetted, InStore, Binders
  <2> QED BY <2>1, <2>2, <2>3 DEF Vetted, Binders
<1> QED BY <1>2, <1>3, <1>4 DEF BoundInv

LEMMA BoundKept ==
  ASSUME AccessAssumption, Typed, RegisteredInv, BoundInv, [Next]_vars PROVE BoundInv'
<1>1. CASE UNCHANGED vars
  BY <1>1 DEF BoundInv, vars
<1>2. CASE AllServed
  BY <1>2 DEF AllServed, BoundInv, vars
<1>3. CASE Restart
  BY <1>3, IdleTyped DEF Restart, BoundInv, Vetted, Binders, history
<1>4. ASSUME NEW w \in Workers, Accepts(w) PROVE BoundInv'
  <2>1. CASE Logout(w)
    BY <2>1 DEF Logout, BoundInv, history
  <2>2. CASE ~Logout(w)
    <3>1. Steps(w) /\ Headed(w)
      BY <1>4, <2>2, AcceptsStep
    <3>2. \A v \in Workers : Vetted(frame'[v], consents)
      BY <3>1, OthersStay DEF Steps, Headed, Heads, Vetted, Binders, BoundInv
    <3> QED BY <3>1, <3>2 DEF Headed, BoundInv, objects, history
  <2> QED BY <2>1, <2>2
<1>5. ASSUME NEW w \in Workers, Works(w) PROVE BoundInv'
  BY <1>5, WorksStep, BoundWorks
<1> QED BY <1>1, <1>2, <1>3, <1>4, <1>5 DEF Next

-----------------------------------------------------------------------------
(* Codes are about what their customer agreed to. *)

Agreed(gs, id, cu) == \E g \in gs : g.consent = id /\ g.customer = cu
AgreedTo(gs, id, accounts) == \E g \in gs : g.consent = id /\ accounts \subseteq g.accounts

(* The accounts the customer of a request has agreed to show.              *)
Ticked(f) == IF f.ticked = None THEN Owned(f.customer) ELSE f.ticked

Approved(f, gs) ==
  /\ f.pc \in {"bind_customer", "narrow", "issue_code"} => Agreed(gs, f.consent, f.customer)
  /\ f.pc \in {"bind_customer", "narrow"} => AgreedTo(gs, f.consent, Ticked(f))

AgreedInv ==
  /\ \A w \in Workers : Approved(frame[w], grants)
  /\ \A c \in DOMAIN codes :
       /\ codes[c].session \in DOMAIN sessions
       /\ Agreed(grants, codes[c].consent, sessions[codes[c].session].customer)

LEMMA GrantsGrow == ASSUME NEW w \in Workers, Works(w) PROVE grants \subseteq grants'
BY QuietKeeps DEF Works, Quiet, AddCustomer, CheckCustomer, AddCredential, FindCredential, OpenSession, ConsentPsu,
       Approve, BindCustomer, Narrow, IssueCode, DropCode, AddConsent, LoadConsent, StartSca,
       VerifyPsu, Finalise, Terminate, List, RemoveBank, RemoveCustomers, PurgeConsents, Purged,
       PurgeCredentials, history, Grant

LEMMA AgreedWorks ==
  ASSUME Typed, AgreedInv, NEW w \in Workers, Works(w), Steps(w) PROVE AgreedInv'
<1>1. grants \subseteq grants'
  BY GrantsGrow
<1>2. ASSUME NEW v \in Workers, v # w PROVE Approved(frame'[v], grants')
  BY <1>1, <1>2, OthersStay DEF Steps, AgreedInv, Approved, Agreed, AgreedTo
<1>3. Approved(frame'[w], grants')
  <2>1. CASE frame'[w].pc = "bind_customer"
    <3> DEFINE f == frame[w]
               g == [consent |-> f.consent, customer |-> f.customer, accounts |-> Ticked(f)]
    <3>1. frame'[w].consent = f.consent /\ frame'[w].customer = f.customer
          /\ frame'[w].ticked = f.ticked
      BY <2>1, ComesFrom, GotoFields DEF AccessLabels
    <3>2. Approve(w) /\ ~End(w)
      BY <2>1, ComesFrom, EndFields, IdleTyped
    <3>3. g \in grants'
      BY <3>2 DEF Approve, Grant, Ticked
    <3>4. g.consent = f.consent /\ g.customer = f.customer /\ g.accounts = Ticked(f)
      OBVIOUS
    <3>5. Ticked(frame'[w]) = Ticked(f)
      BY <3>1 DEF Ticked
    <3> HIDE DEF g
    <3> QED BY <2>1, <3>1, <3>3, <3>4, <3>5 DEF Approved, Agreed, AgreedTo
  <2>2. CASE frame'[w].pc \in {"narrow", "issue_code"}
    <3>1. /\ frame[w].pc \in {"bind_customer", "narrow"}
          /\ frame'[w].pc = "narrow" => frame[w].pc = "bind_customer"
          /\ frame'[w].consent = frame[w].consent /\ frame'[w].customer = frame[w].customer
          /\ frame'[w].ticked = frame[w].ticked
      BY <2>2, ComesFrom, GotoFields DEF BindCustomer, Narrow, AccessLabels
    <3> QED BY <1>1, <2>2, <3>1 DEF AgreedInv, Approved, Agreed, AgreedTo, Ticked
  <2> QED BY <2>1, <2>2 DEF Approved
<1>4. ASSUME NEW c \in DOMAIN codes'
      PROVE  /\ codes'[c].session \in DOMAIN sessions'
             /\ Agreed(grants', codes'[c].consent, sessions'[codes'[c].session].customer)
  <2>1. CASE IssueCode(w)
    <3> DEFINE f == frame[w]
               d == [bank |-> f.bank, consent |-> f.consent, session |-> f.session]
    <3>1. /\ f.session \in DOMAIN sessions /\ sessions[f.session].customer = f.customer
          /\ Agreed(grants, f.consent, f.customer)
      BY <2>1, FrameFacts DEF IssueCode, Equipped, Ready, Redirected, AgreedInv, Approved
    <3>2. PICK new \in NewId(Codes) : codes' = Extend(codes, new, d)
      BY <2>1 DEF IssueCode
    <3>3. UNCHANGED <<sessions, grants>>
      BY <2>1 DEF IssueCode, history
    <3>4. d.consent = f.consent /\ d.session = f.session
      OBVIOUS
    <3> HIDE DEF d
    <3>5. IF c = new THEN codes'[c] = d ELSE c \in DOMAIN codes /\ codes'[c] = codes[c]
      BY <1>4, <3>2 DEF Extend
    <3> QED BY <3>1, <3>3, <3>4, <3>5 DEF AgreedInv
  <2>2. CASE ~IssueCode(w)
    <3>1. c \in DOMAIN codes /\ codes'[c] = codes[c]
      BY <1>4, <2>2, QuietKeeps DEF Works, Quiet, AddCustomer, CheckCustomer, AddCredential, FindCredential,
         OpenSession, ConsentPsu, Approve, BindCustomer, Narrow, DropCode, AddConsent,
         LoadConsent, StartSca, VerifyPsu, Finalise, Terminate, List, RemoveBank,
         RemoveCustomers, PurgeConsents, Purged, PurgeCredentials, objects
    <3> QED BY <1>1, <3>1 DEF AgreedInv, Agreed, Steps, Grows
  <2> QED BY <2>1, <2>2
<1> QED BY <1>2, <1>3, <1>4 DEF AgreedInv

LEMMA AgreedKept ==
  ASSUME AccessAssumption, Typed, AgreedInv, [Next]_vars PROVE AgreedInv'
<1>1. CASE UNCHANGED vars
  BY <1>1 DEF AgreedInv, vars
<1>2. CASE AllServed
  BY <1>2 DEF AllServed, AgreedInv, vars
<1>3. CASE Restart
  <2>1. DOMAIN codes' = {}
    BY <1>3 DEF Restart
  <2> QED BY <1>3, <2>1, IdleTyped DEF Restart, AgreedInv, Approved
<1>4. ASSUME NEW w \in Workers, Accepts(w) PROVE AgreedInv'
  <2>1. CASE Logout(w)
    BY <2>1 DEF Logout, AgreedInv, history
  <2>2. CASE ~Logout(w)
    <3>1. Steps(w) /\ Headed(w)
      BY <1>4, <2>2, AcceptsStep
    <3>2. \A v \in Workers : Approved(frame'[v], grants)
      BY <3>1, OthersStay DEF Steps, Headed, Heads, Approved, AgreedInv
    <3> QED BY <3>1, <3>2 DEF Headed, AgreedInv, objects, history
  <2> QED BY <2>1, <2>2
<1>5. ASSUME NEW w \in Workers, Works(w) PROVE AgreedInv'
  BY <1>5, WorksStep, AgreedWorks
<1> QED BY <1>1, <1>2, <1>3, <1>4, <1>5 DEF Next

-----------------------------------------------------------------------------
(* What is shown was granted. *)

(* An approval of the consent is at its second assignment, or at its third *)
(* with accounts ticked.                                                   *)
Binding(id) == \E v \in Workers : frame[v].consent = id /\ frame[v].pc = "bind_customer"
Narrowing(id) ==
  \E v \in Workers : frame[v].consent = id /\ frame[v].pc = "narrow" /\ frame[v].ticked # None

(* A consent may be listed or saved: it is in a dict, or in one a purge is *)
(* about to put in place, or in the hands of a request that has loaded it. *)
(* One that a restart lost while it was half approved never is again.      *)
Handling == {"bind_customer", "narrow"} \union Loaded
InDict(id) == \E i \in 1..Len(stores) : id \in stores[i]
Handled(id) == \E v \in Workers : frame[v].consent = id /\ frame[v].pc \in Handling
Aside(id) == \E v \in Workers : frame[v].pc = "replace" /\ id \in frame[v].kept
Reachable(id) == InDict(id) \/ Handled(id) \/ Aside(id)

Covered(id) ==
  LET c == consents[id] IN
  /\ c.allowed # None => AgreedTo(grants, id, c.allowed)
  /\ Reachable(id) /\ c.status = "valid" /\ c.customer = None => Binding(id)
  /\ Reachable(id) /\ c.customer # None /\ c.allowed = None =>
       AgreedTo(grants, id, Owned(c.customer)) \/ Narrowing(id)

(* What a listing has gathered outside the approvals of its consent: only  *)
(* accounts of the customers it found there, each of whom agreed to all of *)
(* them, or the consent is narrowed to accounts ticked.                    *)
Gathered(f) ==
  /\ \A a \in f.seen : Seed.holder[a] \in f.bound
  /\ \A cu \in f.bound : consents[f.consent].allowed = None =>
                           AgreedTo(grants, f.consent, Owned(cu))

(* A listing is of a consent that is bound, or about to be.                *)
Listable(w) ==
  LET f == frame[w] IN
  /\ f.pc = "finalise" => consents[f.consent].customer # None
  /\ f.pc \in Listing => consents[f.consent].customer # None \/ Binding(f.consent)
  /\ f.pc = "scope" => f.seen = {} /\ f.bound = {}
  /\ f.pc \in {"match", "list"} /\ ~f.half => Gathered(f)

CoveredInv ==
  /\ \A id \in DOMAIN consents : Covered(id)
  /\ \A w \in Workers : Listable(w)

(* How a step of a request may change a consent. *)
LEMMA ConsentChanges ==
  ASSUME AccessAssumption, Typed, NEW w \in Workers, Works(w), NEW id \in DOMAIN consents
  PROVE  /\ \/ consents'[id].status = consents[id].status
            \/ consents'[id].status # "valid"
            \/ Approve(w) /\ ~End(w) /\ id = frame[w].consent
            \/ Finalise(w) /\ id = frame[w].consent
         /\ \/ consents'[id].customer = consents[id].customer
            \/ /\ id = frame[w].consent /\ BindCustomer(w)
               /\ consents'[id].customer = frame[w].customer
            \/ /\ id = frame[w].consent /\ VerifyPsu(w) /\ consents'[id].customer \in CustomerIds
               /\ AgreedTo(grants', id, Owned(consents'[id].customer))
         /\ \/ consents'[id].allowed = consents[id].allowed
            \/ /\ id = frame[w].consent /\ Narrow(w)
               /\ frame[w].ticked # None /\ consents'[id].allowed = frame[w].ticked
<1> DEFINE f == frame[w]
<1>1. \A x \in DOMAIN consents : consents[x] \in Consent
  BY DEF Typed, DataTyped
<1>2. CASE AddConsent(w)
  <2>1. PICK new \in NewId(ConsentIds) : consents' = Extend(consents, new, Asked(f))
    BY <1>2 DEF AddConsent, Asked
  <2>2. new \notin DOMAIN consents
    BY <2>1, NewIds DEF Typed, DataTyped
  <2> QED BY <2>1, <2>2 DEF Extend
<1>3. CASE Approve(w)
  BY <1>1, <1>3 DEF Approve, Consent
<1>4. CASE BindCustomer(w)
  BY <1>1, <1>4 DEF BindCustomer, Consent
<1>5. CASE Narrow(w)
  BY <1>1, <1>5 DEF Narrow, Consent
<1>6. CASE StartSca(w) \/ Finalise(w) \/ Terminate(w)
  BY <1>1, <1>6 DEF StartSca, Finalise, Terminate, Consent
<1>7. CASE VerifyPsu(w)
  <2>1. CASE UNCHANGED consents
    BY <2>1
  <2>2. CASE ~UNCHANGED consents
    <3> DEFINE cu == sessions[f.session].customer
               g == [consent |-> f.consent, customer |-> cu, accounts |-> Owned(cu)]
    <3>1. consents' = [consents EXCEPT ![f.consent].customer = cu] /\ g \in grants'
      BY <1>7, <2>2 DEF VerifyPsu, Grant
    <3>2. cu \in CustomerIds
      BY <1>7, FrameFacts DEF VerifyPsu, Equipped, Ready, Typed, DataTyped, Credential
    <3>3. g.consent = f.consent /\ g.accounts = Owned(cu)
      OBVIOUS
    <3> HIDE DEF g, cu
    <3>4. AgreedTo(grants', f.consent, Owned(cu))
      BY <3>1, <3>3 DEF AgreedTo
    <3> QED BY <1>1, <1>7, <3>1, <3>2, <3>4 DEF Consent
  <2> QED BY <2>1, <2>2
<1>8. CASE UNCHANGED consents
  BY <1>8
<1> QED BY <1>2, <1>3, <1>4, <1>5, <1>6, <1>7, <1>8, QuietKeeps
        DEF Works, Quiet, AddCustomer, CheckCustomer, AddCredential, FindCredential, OpenSession,
            ConsentPsu, IssueCode, DropCode, LoadConsent, List, RemoveBank, RemoveCustomers,
            PurgeConsents, Purged, PurgeCredentials, objects

LEMMA SaveInDict ==
  ASSUME Typed, NEW id, NEW x, Save(x), InDict(id)' PROVE InDict(id) \/ id = x
BY FrameFacts DEF Save, InDict, Typed, DataTyped, StoresTyped

(* A consent comes within reach when it is added, and only then.           *)
LEMMA ReachIsKept ==
  ASSUME Typed, NEW w \in Workers, Works(w), Steps(w), NEW id \in DOMAIN consents, Reachable(id)'
  PROVE  Reachable(id)
<1> DEFINE f == frame[w]
<1>1. Len(stores) \in Nat /\ Len(stores) \in 1..Len(stores)
  BY FrameFacts DEF Typed, DataTyped, StoresTyped
<1>2. CASE InDict(id)'
  <2>1. CASE AddConsent(w)
    <3>1. PICK new \in NewId(ConsentIds) : Save(new)
      BY <2>1 DEF AddConsent
    <3>2. id # new
      BY <3>1, NewIds DEF Typed, DataTyped
    <3> QED BY <1>2, <3>1, <3>2, SaveInDict DEF Reachable
  <2>2. CASE Narrow(w) \/ StartSca(w) \/ Finalise(w) \/ Terminate(w)
    <3>1. Save(f.consent) /\ f.pc \in Handling
      BY <2>2 DEF Narrow, StartSca, Finalise, Terminate, Handling, Loaded, Listing
    <3> QED BY <1>2, <3>1, SaveInDict DEF Reachable, Handled
  <2>3. CASE Purged(w)
    <3> DEFINE left == f.kept
    <3>1. stores' = Append(stores, left) /\ f.pc = "replace"
      BY <2>3 DEF Purged
    <3>2. left \in SUBSET DOMAIN consents
      BY <2>3, FrameFacts DEF Purged, Equipped, Ready
    <3>3. stores \in Seq(SUBSET DOMAIN consents)
      BY DEF Typed, DataTyped, StoresTyped
    <3>4. \A x \in left : Aside(x)
      BY <3>1 DEF Aside
    <3> HIDE DEF left
    <3>5. /\ Len(stores') = Len(stores) + 1
          /\ \A i \in 1..Len(stores) : stores'[i] = stores[i]
          /\ stores'[Len(stores) + 1] = left
      BY <3>1, <3>2, <3>3, AppendProperties
    <3>6. PICK i \in 1..Len(stores') : id \in stores'[i]
      BY <1>2 DEF InDict
    <3>7. i \in 1..Len(stores) \/ i = Len(stores) + 1
      BY <1>1, <3>5, <3>6
    <3> QED BY <3>4, <3>5, <3>6, <3>7 DEF Reachable, InDict
  <2>4. CASE UNCHANGED stores
    BY <1>2, <2>4 DEF Reachable, InDict
  <2> QED BY <2>1, <2>2, <2>3, <2>4, QuietKeeps
          DEF Works, Quiet, AddCustomer, CheckCustomer, AddCredential, FindCredential, OpenSession,
            ConsentPsu, Approve, BindCustomer, IssueCode, DropCode, LoadConsent, VerifyPsu, List,
            RemoveBank, RemoveCustomers, PurgeConsents, PurgeCredentials, objects
<1>3. CASE Handled(id)'
  <2>1. PICK v \in Workers : frame'[v].consent = id /\ frame'[v].pc \in Handling
    BY <1>3 DEF Handled
  <2>2. CASE v # w
    BY <2>1, <2>2, OthersStay DEF Steps, Reachable, Handled
  <2>3. CASE v = w
    <3>1. frame'[w].consent = f.consent
      <4>1. CASE frame'[w].pc \in {"scope", "match", "list"}
        BY <4>1, ComesFrom, QuietFields, IdleTyped DEF Follows
      <4>2. CASE frame'[w].pc \notin {"scope", "match", "list"}
        <5>1. frame'[w].pc \in {"bind_customer", "narrow", "finalise", "start", "verify_psu",
                                "terminate", "list_accounts"}
          BY <2>1, <2>3, <4>2 DEF Handling, Loaded, Listing
        <5>2. PICK label \in AccessLabels : Goto(w, label)
          BY <5>1, ComesFrom, EndFields, IdleTyped
             DEF BindCustomer, Approve, VerifyPsu, LoadConsent, AccessLabels
        <5> QED BY <5>2, GotoFields
      <4> QED BY <4>1, <4>2
    <3>2. CASE frame'[w].pc \in {"narrow", "finalise", "scope", "match", "list"}
      <4>1. f.pc \in Handling
        BY <3>2, ComesFrom, QuietFields, IdleTyped
           DEF BindCustomer, VerifyPsu, Handling, Loaded, Listing, Follows
      <4> QED BY <2>1, <2>3, <3>1, <4>1 DEF Reachable, Handled
    <3>3. CASE frame'[w].pc \in {"bind_customer", "start", "verify_psu", "terminate",
                                  "list_accounts"}
      <4>1. ~End(w)
        BY <3>3, EndFields, IdleTyped
      <4>2. InStore(f)
        BY <3>3, <4>1, ComesFrom DEF Approve, LoadConsent
      <4> QED BY <1>1, <2>1, <2>3, <3>1, <4>2 DEF Reachable, InDict, InStore, Current
    <3> QED BY <2>1, <2>3, <3>2, <3>3 DEF Handling, Loaded, Listing
  <2> QED BY <2>2, <2>3
<1>4. CASE Aside(id)'
  <2>1. PICK v \in Workers : frame'[v].pc = "replace" /\ id \in frame'[v].kept
    BY <1>4 DEF Aside
  <2>2. CASE v # w
    BY <2>1, <2>2, OthersStay DEF Steps, Reachable, Aside
  <2>3. CASE v = w
    <3>1. KeepOthers(w) /\ ~End(w)
      BY <2>1, <2>3, ComesFrom
    <3>2. id \in stores[f.dict] /\ f.dict \in 1..Len(stores)
      BY <2>1, <2>3, <3>1, KeptFields, FrameFacts DEF KeepOthers, Equipped, Ready
    <3> QED BY <3>2 DEF Reachable, InDict
  <2> QED BY <2>2, <2>3
<1> QED BY <1>2, <1>3, <1>4 DEF Reachable

LEMMA StaysBound ==
  ASSUME AccessAssumption, Typed, NEW w \in Workers, Works(w), NEW id \in DOMAIN consents,
         consents[id].customer # None
  PROVE  consents'[id].customer # None
<1>1. BindCustomer(w) => frame[w].customer \in CustomerIds
  BY FrameFacts DEF BindCustomer, Equipped, Ready, Redirected
<1>2. \/ consents'[id].customer = consents[id].customer
      \/ BindCustomer(w) /\ consents'[id].customer = frame[w].customer
      \/ consents'[id].customer \in CustomerIds
  BY ConsentChanges
<1>3. None \notin CustomerIds
  BY DEF AccessAssumption
<1> QED BY <1>1, <1>2, <1>3

(* An approval under way goes on, or takes its next step here. *)
LEMMA BindingGoesOn ==
  ASSUME Typed, NEW w \in Workers, Steps(w), NEW id, Binding(id), ~Binding(id)', Works(w)
  PROVE  BindCustomer(w) /\ frame[w].consent = id
<1>1. PICK v \in Workers : frame[v].consent = id /\ frame[v].pc = "bind_customer"
  BY DEF Binding
<1>2. v = w
  BY <1>1, OthersStay DEF Steps, Binding
<1> QED BY <1>1, <1>2, QuietKeeps
        DEF Works, Quiet, QuietLabels, AddCustomer, CheckCustomer, AddCredential, FindCredential, OpenSession,
            ConsentPsu, Approve, Narrow, IssueCode, DropCode, AddConsent, LoadConsent, StartSca,
            VerifyPsu, Finalise, Terminate, List, RemoveBank, RemoveCustomers, PurgeConsents,
            Purged, PurgeCredentials

LEMMA NarrowingGoesOn ==
  ASSUME Typed, NEW w \in Workers, Steps(w), NEW id, Narrowing(id), ~Narrowing(id)', Works(w)
  PROVE  Narrow(w) /\ frame[w].consent = id /\ frame[w].ticked # None
<1>1. PICK v \in Workers :
        frame[v].consent = id /\ frame[v].pc = "narrow" /\ frame[v].ticked # None
  BY DEF Narrowing
<1>2. v = w
  BY <1>1, OthersStay DEF Steps, Narrowing
<1> QED BY <1>1, <1>2, QuietKeeps
        DEF Works, Quiet, QuietLabels, AddCustomer, CheckCustomer, AddCredential, FindCredential, OpenSession,
            ConsentPsu, Approve, BindCustomer, IssueCode, DropCode, AddConsent, LoadConsent,
            StartSca, VerifyPsu, Finalise, Terminate, List, RemoveBank, RemoveCustomers,
            PurgeConsents, Purged, PurgeCredentials

(* A consent that was there stays covered. *)
LEMMA CoveredWorks ==
  ASSUME AccessAssumption, Typed, AgreedInv, CoveredInv, NEW w \in Workers, Works(w), Steps(w),
         NEW id \in DOMAIN consents
  PROVE  Covered(id)'
<1> DEFINE f == frame[w]
           c == consents[id]
           d == consents'[id]
<1>1. Covered(id) /\ grants \subseteq grants'
  BY GrantsGrow DEF CoveredInv
<1>2. c.customer # None => d.customer # None
  BY StaysBound
<1>3. d.allowed # None => AgreedTo(grants', id, d.allowed)
  <2>1. CASE d.allowed = c.allowed
    BY <1>1, <2>1 DEF Covered, AgreedTo
  <2>2. CASE /\ id = f.consent /\ Narrow(w) /\ f.ticked # None /\ d.allowed = f.ticked
    <3>1. AgreedTo(grants, id, f.ticked)
      BY <2>2 DEF Narrow, AgreedInv, Approved, Ticked
    <3> QED BY <1>1, <2>2, <3>1 DEF AgreedTo
  <2> QED BY <2>1, <2>2, ConsentChanges
<1>4. ASSUME Reachable(id)', d.status = "valid", d.customer = None PROVE Binding(id)'
  <2>1. Reachable(id) /\ c.customer = None
    BY <1>2, <1>4, ReachIsKept
  <2>2. CASE Approve(w) /\ ~End(w) /\ id = f.consent
    <3>1. frame'[w].pc = "bind_customer" /\ frame'[w].consent = id
      BY <2>2, GotoFields DEF Approve, AccessLabels
    <3> QED BY <3>1 DEF Binding
  <2>3. ~(Finalise(w) /\ id = f.consent)
    BY <2>1 DEF Finalise, CoveredInv, Listable
  <2>4. CASE c.status = "valid"
    <3>1. Binding(id)
      BY <1>1, <2>1, <2>4 DEF Covered
    <3>2. ~(BindCustomer(w) /\ f.consent = id)
      <4>1. SUFFICES ASSUME BindCustomer(w), f.consent = id PROVE FALSE
        OBVIOUS
      <4>2. f.customer \in CustomerIds /\ c \in Consent
        BY <4>1, FrameFacts DEF BindCustomer, Equipped, Ready, Redirected, Typed, DataTyped
      <4>3. d.customer = f.customer
        BY <4>1, <4>2 DEF BindCustomer, Consent
      <4> QED BY <1>4, <4>2, <4>3, AccessAssumption
    <3> QED BY <3>1, <3>2, BindingGoesOn
  <2> QED BY <1>4, <2>2, <2>3, <2>4, ConsentChanges
<1>5. ASSUME Reachable(id)', d.customer # None, d.allowed = None
      PROVE  AgreedTo(grants', id, Owned(d.customer)) \/ Narrowing(id)'
  <2>1. Reachable(id)
    BY <1>5, ReachIsKept
  <2>2. ~(Narrow(w) /\ f.consent = id /\ f.ticked # None)
    <3>1. SUFFICES ASSUME Narrow(w), f.consent = id, f.ticked # None PROVE FALSE
      OBVIOUS
    <3>2. c \in Consent
      BY DEF Typed, DataTyped
    <3>3. d.allowed = f.ticked
      BY <3>1, <3>2 DEF Narrow, Consent
    <3> QED BY <1>5, <3>1, <3>3
  <2>3. c.allowed = None
    BY <1>5, <2>2, ConsentChanges
  <2>4. CASE d.customer = c.customer
    <3>1. AgreedTo(grants, id, Owned(d.customer)) \/ Narrowing(id)
      BY <1>1, <1>5, <2>1, <2>3, <2>4 DEF Covered
    <3>2. CASE AgreedTo(grants, id, Owned(d.customer))
      BY <1>1, <3>2 DEF AgreedTo
    <3>3. CASE Narrowing(id)
      BY <2>2, <3>3, NarrowingGoesOn
    <3> QED BY <3>1, <3>2, <3>3
  <2>5. CASE id = f.consent /\ BindCustomer(w) /\ d.customer = f.customer
    <3>1. frame'[w].pc = "narrow" /\ frame'[w].consent = id /\ frame'[w].ticked = f.ticked
      BY <2>5, GotoFields DEF BindCustomer, AccessLabels
    <3>2. CASE f.ticked # None
      BY <3>1, <3>2 DEF Narrowing
    <3>3. CASE f.ticked = None
      <4>1. AgreedTo(grants, id, Owned(f.customer))
        BY <2>5, <3>3 DEF BindCustomer, AgreedInv, Approved, Ticked
      <4> QED BY <1>1, <2>5, <4>1 DEF AgreedTo
    <3> QED BY <3>2, <3>3
  <2> QED BY <2>4, <2>5, ConsentChanges
<1> QED BY <1>3, <1>4, <1>5 DEF Covered

(* A consent that is new is not bound, not valid and not narrowed. *)
LEMMA NewIsCovered ==
  ASSUME AccessAssumption, Typed, NEW w \in Workers, Works(w),
         NEW id \in DOMAIN consents', id \notin DOMAIN consents
  PROVE  Covered(id)'
<1>1. CASE AddConsent(w)
  <2>1. PICK new \in NewId(ConsentIds) : consents' = Extend(consents, new, Asked(frame[w]))
    BY <1>1 DEF AddConsent, Asked
  <2>2. consents'[id] = Asked(frame[w])
    BY <2>1 DEF Extend
  <2> QED BY <2>2 DEF Covered, Asked
<1>2. DOMAIN consents' = DOMAIN consents \/ AddConsent(w)
  BY QuietKeeps DEF Works, Quiet, AddCustomer, CheckCustomer, AddCredential, FindCredential, OpenSession,
         ConsentPsu, Approve, BindCustomer, Narrow, IssueCode, DropCode, LoadConsent, StartSca,
         VerifyPsu, Finalise, Terminate, List, RemoveBank, RemoveCustomers, PurgeConsents,
         Purged, PurgeCredentials, objects
<1> QED BY <1>1, <1>2

(* A gathering goes on holding, whatever becomes of its consent.           *)
LEMMA GatheredStays ==
  ASSUME AccessAssumption, Typed, NEW w \in Workers, Works(w), NEW f,
         f.consent \in DOMAIN consents, Gathered(f)
  PROVE  Gathered(f)'
<1> DEFINE id == f.consent
<1>1. grants \subseteq grants'
  BY GrantsGrow
<1>2. consents'[id].allowed = None => consents[id].allowed = None
  BY ConsentChanges
<1> QED BY <1>1, <1>2 DEF Gathered, AgreedTo

(* What a listing finds outside an approval is a customer who agreed.      *)
LEMMA FoundOutside ==
  ASSUME Typed, CoveredInv, NEW w \in Workers, frame[w].pc \in Listing,
         ~HalfApproved(frame[w].consent)
  PROVE  LET id == frame[w].consent
             cu == consents[id].customer IN
         /\ cu # None
         /\ consents[id].allowed = None => AgreedTo(grants, id, Owned(cu))
<1> DEFINE id == frame[w].consent
<1>1. id \in DOMAIN consents
  BY FrameFacts DEF Equipped, Ready, Loaded
<1>2. Reachable(id)
  BY DEF Reachable, Handled, Handling, Loaded
<1>3. ~Binding(id) /\ ~Narrowing(id)
  BY DEF HalfApproved, Binding, Narrowing
<1>4. consents[id].customer # None
  BY <1>3 DEF CoveredInv, Listable
<1> QED BY <1>1, <1>2, <1>3, <1>4 DEF CoveredInv, Covered

LEMMA GatheringGoesOn ==
  ASSUME Typed, CoveredInv, NEW w \in Workers, Quiet(w),
         frame'[w].pc \in {"match", "list"}, ~frame'[w].half
  PROVE  Gathered(frame'[w])
<1> DEFINE f == frame[w]
           g == frame'[w]
           id == f.consent
           customer == consents[id].customer
<1>1. CASE ScopeToCustomer(w)
  <2>1. /\ g.bound = {} /\ g.consent = id /\ ~HalfApproved(id) /\ f.pc = "scope"
        /\ g.pc = "list" => g.seen = f.todo /\ (customer = None \/ f.todo = {})
        /\ g.pc = "match" => g.seen = {}
    BY <1>1, ScopedFields DEF ScopeToCustomer, CoveredInv, Listable, Follows
  <2>2. customer # None
    BY <2>1, FoundOutside DEF Listing
  <2>3. g.seen = {}
    BY <2>1, <2>2
  <2> QED BY <2>1, <2>3 DEF Gathered
<1>2. CASE MatchCustomer(w)
  <2>1. /\ f.pc = "match" /\ g.consent = id /\ ~f.half /\ ~HalfApproved(id)
        /\ g.bound = f.bound \union {customer}
        /\ \A a \in g.seen : a \in f.seen \/ Seed.holder[a] = customer
    BY <1>2, MatchedFields DEF MatchCustomer, Follows
  <2>2. Gathered(f)
    BY <2>1 DEF CoveredInv, Listable
  <2>3. consents[id].allowed = None => AgreedTo(grants, id, Owned(customer))
    BY <2>1, FoundOutside DEF Listing
  <2> QED BY <2>1, <2>2, <2>3 DEF Gathered
<1>3. f.pc \in {"scope", "match"}
  BY QuietFields, IdleTyped DEF Follows
<1> QED BY <1>1, <1>2, <1>3, QuietIs

LEMMA ListableWorks ==
  ASSUME AccessAssumption, Typed, CoveredInv, NEW w \in Workers, Works(w), Steps(w),
         NEW v \in Workers
  PROVE  Listable(v)'
<1> DEFINE f == frame[v]
           id == f.consent
<1>1. ASSUME NEW x \in DOMAIN consents, consents[x].customer # None
      PROVE  consents'[x].customer # None
  BY <1>1, StaysBound
<1>2. f.pc \in Loaded => id \in DOMAIN consents
  BY FrameFacts DEF Equipped, Ready
<1>3. ASSUME NEW x \in DOMAIN consents, consents[x].customer # None \/ Binding(x)
      PROVE  consents'[x].customer # None \/ Binding(x)'
  <2>1. CASE BindCustomer(w) /\ frame[w].consent = x
    <3>1. frame[w].customer \in CustomerIds /\ consents[x] \in Consent
      BY <2>1, FrameFacts DEF BindCustomer, Equipped, Ready, Redirected, Typed, DataTyped
    <3>2. consents'[x].customer = frame[w].customer
      BY <2>1, <3>1 DEF BindCustomer, Consent
    <3> QED BY <3>1, <3>2, AccessAssumption
  <2> QED BY <1>1, <1>3, <2>1, BindingGoesOn
<1>4. CASE v # w
  <2>1. frame'[v] = f
    BY <1>4, OthersStay DEF Steps
  <2>2. Listable(v)
    BY DEF CoveredInv
  <2>3. f.pc = "finalise" => consents'[id].customer # None
    BY <1>1, <1>2, <2>2 DEF Listable, Loaded
  <2>4. f.pc \in Listing => consents'[id].customer # None \/ Binding(id)'
    BY <1>2, <1>3, <2>1, <2>2 DEF Listable, Loaded, Listing, Binding
  <2>5. f.pc = "scope" => f.seen = {} /\ f.bound = {}
    BY <2>2 DEF Listable
  <2>6. f.pc \in {"match", "list"} /\ ~f.half => Gathered(frame[v])'
    <3>1. SUFFICES ASSUME f.pc \in {"match", "list"}, ~f.half PROVE Gathered(frame[v])'
      OBVIOUS
    <3>2. Gathered(f) /\ id \in DOMAIN consents
      BY <1>2, <2>2, <3>1 DEF Listable, Loaded, Listing
    <3> QED BY <2>1, <3>2, GatheredStays DEF Gathered
  <2> QED BY <2>1, <2>3, <2>4, <2>5, <2>6 DEF Listable
<1>5. CASE v = w /\ frame'[w].pc = "list_accounts"
  <2>1. LoadConsent(w) /\ ~End(w) /\ frame'[w].consent = id
    BY <1>5, ComesFrom, GotoFields
  <2>2. InStore(f) /\ consents[id].status = "valid" /\ id \in DOMAIN consents
    <3>1. f.op = "accounts"
      BY <1>5, <2>1, GotoFields DEF LoadConsent, AccessLabels
    <3>2. id \in DOMAIN consents
      BY <1>5, <2>1, FrameFacts DEF LoadConsent, Equipped, Ready
    <3> QED BY <1>5, <2>1, <3>1, <3>2 DEF LoadConsent
  <2>3. Reachable(id)
    BY <2>2, FrameFacts DEF Reachable, InDict, InStore, Current, Typed, DataTyped, StoresTyped
  <2>4. consents[id].customer # None \/ Binding(id)
    BY <2>2, <2>3 DEF CoveredInv, Covered
  <2> QED BY <1>3, <1>5, <2>1, <2>2, <2>4 DEF Listable
<1>6. CASE v = w /\ frame'[w].pc = "finalise"
  <2>1. VerifyPsu(w) /\ frame'[w].consent = id /\ ~End(w)
    BY <1>6, ComesFrom, GotoFields, EndFields, IdleTyped DEF AccessLabels
  <2>2. id \in DOMAIN consents /\ f.session \in DOMAIN sessions
    BY <1>6, <2>1, FrameFacts DEF VerifyPsu, Equipped, Ready, Loaded, Listing
  <2>3. consents[id] \in Consent /\ sessions[f.session].customer \in CustomerIds
    BY <2>2 DEF Typed, DataTyped, Credential
  <2>4. consents'[id].customer = sessions[f.session].customer
    BY <1>6, <2>1, <2>2, <2>3 DEF VerifyPsu, Consent
  <2> QED BY <1>6, <2>1, <2>3, <2>4, AccessAssumption DEF Listable, Listing
<1>7. CASE v = w /\ frame'[w].pc \in {"scope", "match", "list"}
  <2>1. Quiet(w) /\ Follows(f, frame'[w]) /\ f.pc \in Listing
    BY <1>7, ComesFrom, QuietFields, IdleTyped DEF Follows, Listing
  <2>2. UNCHANGED <<consents, grants>>
    BY <2>1, QuietKeeps
  <2>3. consents'[id].customer # None \/ Binding(id)'
    <3>1. id \in DOMAIN consents
      BY <1>2, <2>1 DEF Loaded
    <3>2. consents[id].customer # None \/ Binding(id)
      BY <2>1 DEF CoveredInv, Listable
    <3>3. consents'[id].customer # None \/ \E u \in Workers :
             /\ frame'[u].consent = id
             /\ frame'[u].pc = "bind_customer"
      BY <1>3, <3>1, <3>2 DEF Binding
    <3>4. frame'[v].consent = id
      BY <1>7, <2>1 DEF Follows
    <3> QED BY <3>3, <3>4 DEF Binding
  <2>4. frame'[w].pc = "scope" => frame'[w].seen = {} /\ frame'[w].bound = {}
    <3>1. frame'[w].pc = "scope" => f.pc = "list_accounts"
      BY <2>1 DEF Follows
    <3> QED BY <1>7, <2>1, <3>1, QuietIs, ListedFields
  <2>5. frame'[w].pc \in {"match", "list"} /\ ~frame'[w].half => Gathered(frame[w])'
    <3>1. frame'[w].pc \in {"match", "list"} /\ ~frame'[w].half => Gathered(frame'[w])
      BY <2>1, GatheringGoesOn
    <3> QED BY <2>2, <3>1 DEF Gathered
  <2> QED BY <1>7, <2>1, <2>3, <2>4, <2>5 DEF Listable, Follows
<1>8. CASE v = w /\ frame'[w].pc \notin Listing \union {"finalise"}
  BY <1>8 DEF Listable, Listing
<1> QED BY <1>4, <1>5, <1>6, <1>7, <1>8 DEF Listing

LEMMA CoveredKept ==
  ASSUME AccessAssumption, Typed, AgreedInv, CoveredInv, [Next]_vars PROVE CoveredInv'
<1>1. CASE UNCHANGED vars \/ AllServed \/ \E w \in Workers : Logout(w)
  <2>1. UNCHANGED <<consents, stores, grants, frame>>
    BY <1>1 DEF vars, AllServed, Logout, history
  <2> QED BY <2>1
          DEF CoveredInv, Covered, Listable, Gathered, Binding, Narrowing, Reachable, InDict,
              Handled, Aside
<1>2. CASE Restart
  <2>1. \A w \in Workers : frame'[w].pc = "idle"
    BY <1>2, IdleTyped DEF Restart
  <2>2. stores' = <<{}>>
    BY <1>2 DEF Restart
  <2>3. \A id : ~Reachable(id)'
    BY <2>1, <2>2 DEF Reachable, InDict, Handled, Aside, Handling, Loaded, Listing
  <2>4. UNCHANGED <<consents, grants>>
    BY <1>2 DEF Restart, history
  <2>5. \A id \in DOMAIN consents : Covered(id)'
    BY <2>3, <2>4 DEF CoveredInv, Covered
  <2> QED BY <2>1, <2>4, <2>5 DEF CoveredInv, Listable, Listing
<1>3. ASSUME NEW w \in Workers, Accepts(w), ~Logout(w) PROVE CoveredInv'
  <2>1. Steps(w) /\ Headed(w)
    BY <1>3, AcceptsStep
  <2>2. frame[w].pc = "idle"
    BY <2>1 DEF Headed, Accept
  <2>3. UNCHANGED <<consents, stores, grants>>
    BY <2>1 DEF Headed, objects, history
  <2>4. \A v \in Workers :
          \/ frame'[v] = frame[v]
          \/ v = w /\ frame[v].pc = "idle" /\ frame'[v].pc \in Heads
    BY <2>1, <2>2, OthersStay DEF Steps, Headed
  <2>5. ASSUME NEW id
        PROVE  /\ Binding(id) => Binding(id)'
               /\ Narrowing(id) => Narrowing(id)'
               /\ Reachable(id)' => Reachable(id)
    BY <2>3, <2>4 DEF Binding, Narrowing, Reachable, InDict, Handled, Aside, Handling, Loaded,
                      Listing, Heads
  <2>6. \A id \in DOMAIN consents : Covered(id)'
    BY <2>3, <2>5 DEF CoveredInv, Covered
  <2>7. ASSUME NEW v \in Workers PROVE Listable(v)'
    <3>1. CASE v = w
      BY <2>1, <3>1 DEF Headed, Listable, Listing, Heads
    <3>2. CASE v # w
      <4>1. frame'[v] = frame[v]
        BY <2>1, <3>2, OthersStay DEF Steps
      <4>2. Gathered(frame[v]) => Gathered(frame[v])'
        BY <2>3, <4>1 DEF Gathered
      <4> QED BY <2>3, <2>5, <4>1, <4>2 DEF CoveredInv, Listable
    <3> QED BY <3>1, <3>2
  <2> QED BY <2>3, <2>6, <2>7 DEF CoveredInv
<1>4. ASSUME NEW w \in Workers, Works(w) PROVE CoveredInv'
  <2>1. Steps(w)
    BY <1>4, WorksStep
  <2>2. ASSUME NEW id \in DOMAIN consents' PROVE Covered(id)'
    BY <1>4, <2>1, CoveredWorks, NewIsCovered
  <2> QED BY <1>4, <2>1, <2>2, ListableWorks DEF CoveredInv
<1> QED BY <1>1, <1>2, <1>3, <1>4 DEF Next

(* What a listing adds. *)
LEMMA ListingIsGranted ==
  ASSUME Typed, CoveredInv, NEW w \in Workers, List(w), ~frame[w].half,
         ~HalfApproved(frame[w].consent)
  PROVE  LET f == frame[w]
             listed == Visible(f.seen, consents[f.consent]) IN
         /\ \A a \in listed : AgreedTo(grants, f.consent, {a})
         /\ (\A c, d \in f.bound : c = d) => AgreedTo(grants, f.consent, listed)
<1> DEFINE f == frame[w]
           id == f.consent
           c == consents[id]
           listed == Visible(f.seen, c)
<1>1. id \in DOMAIN consents /\ f \in Frame
  BY FrameFacts DEF List, Equipped, Ready, Loaded, Listing
<1>2. Gathered(f) /\ Covered(id)
  BY <1>1 DEF List, CoveredInv, Listable
<1>3. c.allowed = None => AgreedTo(grants, id, Owned(c.customer))
  BY FoundOutside DEF List, Listing
<1>4. listed \subseteq f.seen /\ f.seen \subseteq AccountIds
  BY <1>1 DEF Visible, Frame
<1>5. CASE c.allowed # None
  <2>1. listed \subseteq c.allowed
    BY <1>5 DEF Visible
  <2> QED BY <1>2, <1>5, <2>1 DEF Covered, AgreedTo
<1>6. CASE c.allowed = None
  <2>1. \A cu \in f.bound : AgreedTo(grants, id, Owned(cu))
    BY <1>2, <1>6 DEF Gathered
  <2>2. \A a \in f.seen : Seed.holder[a] \in f.bound /\ a \in Owned(Seed.holder[a])
    BY <1>2, <1>4 DEF Gathered, Owned
  <2>3. \A a \in listed : AgreedTo(grants, id, {a})
    BY <1>4, <2>1, <2>2 DEF AgreedTo
  <2>4. ASSUME \A x, y \in f.bound : x = y PROVE AgreedTo(grants, id, listed)
    <3>1. CASE f.bound = {}
      <4>1. listed = {}
        BY <1>4, <2>2, <3>1
      <4> QED BY <1>3, <1>6, <4>1 DEF AgreedTo
    <3>2. CASE f.bound # {}
      <4>1. PICK cu \in f.bound : \A x \in f.bound : x = cu
        BY <2>4, <3>2
      <4>2. listed \subseteq Owned(cu)
        BY <1>4, <2>2, <4>1
      <4> QED BY <2>1, <4>1, <4>2 DEF AgreedTo
    <3> QED BY <3>1, <3>2
  <2> QED BY <2>3, <2>4
<1> QED BY <1>5, <1>6

LEMMA ShownKept ==
  ASSUME AccessAssumption, Typed, CoveredInv, ShownWasGranted, [Next]_vars
  PROVE  ShownWasGranted'
<1>1. CASE UNCHANGED <<shown, grants>>
  BY <1>1 DEF ShownWasGranted
<1>2. CASE UNCHANGED vars \/ AllServed \/ Restart \/ \E w \in Workers : Accepts(w)
  BY <1>1, <1>2 DEF vars, AllServed, Restart, Accepts, BeginCreateCustomer, BeginRegister,
     BeginLogin, BeginAuthorize, BeginConsentCall, BeginFinishSca, BeginToken, BeginDeleteBank,
     BeginCreateConsent, BeginPayment, Logout, history
<1>3. ASSUME NEW w \in Workers, Works(w) PROVE ShownWasGranted'
  <2>1. grants \subseteq grants'
    BY <1>3, GrantsGrow
  <2>2. CASE List(w)
    <3> DEFINE f == frame[w]
               listed == Visible(f.seen, consents[f.consent])
               half == f.half \/ HalfApproved(f.consent)
               s == [consent |-> f.consent, accounts |-> listed, customers |-> f.bound,
                     half |-> half]
    <3>1. shown' \subseteq shown \union {s} /\ UNCHANGED grants
      BY <2>2 DEF List
    <3>2. ~half => /\ \A a \in listed : AgreedTo(grants, f.consent, {a})
                   /\ (\A c, d \in f.bound : c = d) => AgreedTo(grants, f.consent, listed)
      BY <2>2, ListingIsGranted
    <3> HIDE DEF listed, half, f
    <3>3. /\ s.consent = f.consent /\ s.accounts = listed /\ s.customers = f.bound
          /\ s.half = half
      OBVIOUS
    <3> HIDE DEF s
    <3> QED BY <3>1, <3>2, <3>3 DEF ShownWasGranted, AgreedTo
  <2>3. CASE UNCHANGED shown
    BY <2>1, <2>3 DEF ShownWasGranted
  <2> QED BY <1>3, <2>2, <2>3, QuietKeeps
          DEF Works, Quiet, AddCustomer, CheckCustomer, AddCredential, FindCredential, OpenSession,
            ConsentPsu, Approve, BindCustomer, Narrow, IssueCode, DropCode, AddConsent,
            LoadConsent, StartSca, VerifyPsu, Finalise, Terminate, RemoveBank, RemoveCustomers,
            PurgeConsents, Purged, PurgeCredentials, history
<1> QED BY <1>2, <1>3 DEF Next

-----------------------------------------------------------------------------
(* The deletion of a bank. *)

LEMMA IdleServes == Serving(IdleFrame) /\ IdleFrame.op = "none" /\ IdleFrame.pc = "idle"
BY DEF IdleFrame, Serving, Deleting, Enrolling, Writing, Redirected

(* A request goes on for the same bank, where requests of its kind get to, *)
(* or ends.                                                                *)
LEMMA Continues ==
  ASSUME Typed, NEW w \in Workers, Works(w), Serving(frame[w])
  PROVE  /\ Serving(frame'[w])
         /\ \/ frame'[w] = IdleFrame
            \/ /\ frame'[w].op = frame[w].op /\ frame'[w].bank = frame[w].bank
               /\ frame'[w].consent = frame[w].consent
<1>1. CASE End(w)
  BY <1>1, EndFields, IdleServes
<1>2. CASE ConsentPsu(w) /\ ~End(w)
  BY <1>2, VettedFields DEF ConsentPsu, Serving, Deleting, Enrolling, Writing, Redirected
<1>3. CASE FindCredential(w) /\ ~End(w)
  BY <1>3, FoundFields DEF FindCredential, Serving, Deleting, Enrolling, Writing, Redirected
<1>4. CASE OpenSession(w) /\ ~End(w)
  BY <1>4, OpenedFields DEF OpenSession, Serving, Deleting, Enrolling, Writing, Redirected,
                            ConsentWriters
<1>5. CASE AddCustomer(w)
  BY <1>5, AddedFields DEF AddCustomer, Serving, Deleting, Enrolling, Writing, Redirected
<1>6. CASE PurgeConsents(w)
  BY <1>6, PurgingFields DEF PurgeConsents, Serving, Deleting, Enrolling, Writing, Redirected
<1>7. CASE LoadConsent(w) /\ ~End(w)
  <2>1. PICK op \in {"start_sca", "finish_sca", "revoke", "accounts"},
             label \in {"start", "verify_psu", "terminate", "list_accounts"} :
          /\ frame[w].op = op /\ Goto(w, label)
          /\ op = "accounts" <=> label = "list_accounts"
    BY <1>7 DEF LoadConsent
  <2>2. label \in AccessLabels
    BY DEF AccessLabels
  <2> QED BY <2>1, <2>2, GotoFields
          DEF Serving, Deleting, Enrolling, Writing, Redirected, ConsentWriters
<1>8. CASE /\ ~End(w)
           /\ CheckCustomer(w) \/ Approve(w) \/ BindCustomer(w) \/ Narrow(w) \/ VerifyPsu(w)
  <2>1. PICK label \in {"add_credential", "bind_customer", "narrow", "issue_code", "finalise"} :
          /\ Goto(w, label)
          /\ label = "add_credential" => frame[w].pc = "check_customer"
          /\ label # "add_credential" => Writing(frame[w])
    BY <1>8 DEF CheckCustomer, Approve, BindCustomer, Narrow, VerifyPsu, Writing, Redirected
  <2>2. label \in AccessLabels
    BY DEF AccessLabels
  <2>3. frame[w].pc \notin Deleting
    BY <1>8 DEF CheckCustomer, Approve, BindCustomer, Narrow, VerifyPsu, Deleting
  <2> QED BY <2>1, <2>2, <2>3, GotoFields
          DEF Serving, Deleting, Enrolling, Writing, Redirected, ConsentWriters
<1>9. CASE ~End(w) /\ (RemoveBank(w) \/ RemoveCustomers(w) \/ Purged(w))
  <2>1. PICK label \in {"remove_customers", "purge_consents", "purge_payments"} : Goto(w, label)
    BY <1>9 DEF RemoveBank, RemoveCustomers, Purged
  <2>2. label \in AccessLabels
    BY DEF AccessLabels
  <2>3. frame[w].pc \in Deleting
    BY <1>9 DEF RemoveBank, RemoveCustomers, Purged, Deleting
  <2> QED BY <2>1, <2>2, <2>3, GotoFields DEF Serving, Deleting, Enrolling, Writing, Redirected
<1>10. CASE Quiet(w) /\ ~End(w)
  <2>1. Follows(frame[w], frame'[w])
    BY <1>10, QuietFields
  <2> QED BY <2>1 DEF Follows, Serving, Deleting, Enrolling, Writing, Redirected
<1> QED BY <1>1, <1>2, <1>3, <1>4, <1>5, <1>6, <1>7, <1>8, <1>9, <1>10
        DEF Works, Quiet, AddCredential, IssueCode, DropCode, AddConsent, StartSca, Finalise, Terminate,
            List, PurgeCredentials

(* Steps that are not requests beginning leave these alone, and no step    *)
(* brings a bank back.                                                     *)
LEMMA WorksKeepCounts ==
  ASSUME NEW w \in Workers, Works(w)
  PROVE  /\ UNCHANGED <<disturbed, restarts>>
         /\ banks' = IF frame[w].pc = "remove_bank" THEN banks \ {frame[w].bank} ELSE banks
BY QuietKeeps
   DEF Works, Quiet, QuietLabels, AddCustomer, CheckCustomer, AddCredential, FindCredential, OpenSession, ConsentPsu,
       Approve, BindCustomer, Narrow, IssueCode, DropCode, AddConsent, LoadConsent, StartSca,
       VerifyPsu, Finalise, Terminate, List, RemoveBank, RemoveCustomers, PurgeConsents, Purged,
       PurgeCredentials, counters, rows

(* One step adds to the late consents, and one to the payments.            *)
LEMMA LateMoves ==
  ASSUME NEW w \in Workers, Works(w)
  PROVE  /\ late \subseteq late'
         /\ ~AddConsent(w) => late' = late
         /\ ~AddPayment(w) => payments' = payments
<1>1. CASE AddConsent(w)
  BY <1>1 DEF AddConsent, AddPayment, counters
<1>2. CASE AddPayment(w)
  BY <1>2 DEF AddPayment, history
<1>3. CASE ~AddConsent(w) /\ ~AddPayment(w)
  BY <1>3
     DEF Works, AddCustomer, CheckCustomer, AddCredential, FindCredential, OpenSession, ConsentPsu,
         Approve, BindCustomer, Narrow, IssueCode, DropCode, LoadConsent, StartSca, VerifyPsu,
         Finalise, Terminate, ListAccounts, ScopeToCustomer, MatchCustomer, List, RemoveBank,
         RemoveCustomers, PurgeConsents, KeepOthers, Purged, PurgePayments, PaymentsPurged,
         PurgeCredentials, counters, history
<1> QED BY <1>1, <1>2, <1>3

(* The consent store is left alone, one consent is put into its dict, or a *)
(* deletion puts a new dict in its place.                                  *)
LEMMA StoresMove ==
  ASSUME Typed, NEW w \in Workers, Works(w)
  PROVE  \/ UNCHANGED stores
         \/ /\ frame[w].pc \in {"start", "finalise", "terminate", "narrow"}
            /\ Save(frame[w].consent)
            /\ frame[w].consent \in DOMAIN consents /\ DOMAIN consents' = DOMAIN consents
         \/ AddConsent(w)
         \/ Purged(w)
<1>1. CASE StartSca(w) \/ Finalise(w) \/ Terminate(w) \/ Narrow(w)
  <2>1. /\ frame[w].pc \in {"start", "finalise", "terminate", "narrow"}
        /\ Save(frame[w].consent) /\ DOMAIN consents' = DOMAIN consents
    BY <1>1 DEF StartSca, Finalise, Terminate, Narrow
  <2>2. frame[w].consent \in DOMAIN consents
    BY <2>1, FrameFacts DEF Equipped, Ready, Loaded, Listing, Redirected
  <2> QED BY <2>1, <2>2
<1> QED BY <1>1, QuietKeeps
        DEF Works, Quiet, QuietLabels, AddCustomer, CheckCustomer, AddCredential, FindCredential, OpenSession,
            ConsentPsu, Approve, BindCustomer, IssueCode, DropCode, LoadConsent, VerifyPsu, List,
            RemoveBank, RemoveCustomers, PurgeConsents, PurgeCredentials, objects

LEMMA SaveCurrent ==
  ASSUME Typed, NEW id \in DOMAIN consents', DOMAIN consents \subseteq DOMAIN consents', Save(id)
  PROVE  Current' = Current \union {id} /\ Len(stores') = Len(stores)
<1> DEFINE n == Len(stores)
           d == stores[n] \union {id}
<1>1. stores \in Seq(SUBSET DOMAIN consents') /\ n \in 1..n
  BY LenProperties DEF Typed, DataTyped, StoresTyped
<1>2. d \in SUBSET DOMAIN consents'
  BY <1>1, ElementOfSeq
<1>3. stores' = [stores EXCEPT ![n] = d]
  BY DEF Save
<1> HIDE DEF d
<1>4. Len(stores') = n /\ stores'[n] = d
  BY <1>1, <1>2, <1>3, ExceptSeq
<1> QED BY <1>4 DEF Current, d

LEMMA AddedConsent ==
  ASSUME Typed, NEW w \in Workers, AddConsent(w)
  PROVE  \E new \in ConsentIds \ DOMAIN consents :
           /\ consents' = Extend(consents, new, Asked(frame[w]))
           /\ DOMAIN consents' = DOMAIN consents \union {new}
           /\ Save(new)
           /\ (\E v \in Workers : frame[v].pc = "replace") => new \in late'
<1>1. PICK new \in NewId(ConsentIds) :
        /\ consents' = Extend(consents, new, Asked(frame[w])) /\ Save(new)
        /\ (\E v \in Workers : frame[v].pc = "replace") => new \in late'
  BY DEF AddConsent, Asked
<1> QED BY <1>1, NewIds DEF Extend, Typed, DataTyped

LEMMA CurrentTyped == ASSUME Typed PROVE Current \subseteq DOMAIN consents
<1>1. stores \in Seq(SUBSET DOMAIN consents) /\ Len(stores) \in 1..Len(stores)
  BY LenProperties DEF Typed, DataTyped, StoresTyped
<1> QED BY <1>1, ElementOfSeq DEF Current

(* A consent leaves the store only when a deletion replaces its dict.      *)
LEMMA StoreKeeps ==
  ASSUME Typed, NEW w \in Workers, Works(w), ~Purged(w)
  PROVE  Current \subseteq Current' /\ Len(stores') = Len(stores)
<1>1. CASE UNCHANGED stores
  BY <1>1 DEF Current
<1>2. CASE AddConsent(w)
  BY <1>2, AddedConsent, SaveCurrent
<1> QED BY <1>1, <1>2, StoresMove, SaveCurrent

LEMMA PurgedCurrent ==
  ASSUME Typed, NEW w \in Workers, Purged(w) PROVE Current' = frame[w].kept
<1> DEFINE left == frame[w].kept
<1>1. stores \in Seq(SUBSET DOMAIN consents) /\ left \in SUBSET DOMAIN consents
  BY FrameFacts DEF Purged, Equipped, Ready, Typed, DataTyped, StoresTyped
<1>2. stores' = Append(stores, left)
  BY DEF Purged
<1> HIDE DEF left
<1>3. Len(stores') = Len(stores) + 1 /\ stores'[Len(stores) + 1] = left
  BY <1>1, <1>2, AppendProperties
<1> QED BY <1>3 DEF Current, left

(* What two deletions that overlap spoil is every bank.                    *)
AllDisturbed == Banks \subseteq disturbed

(* The dict a purge has built and not yet put in place.                    *)
Replaces(f) ==
  /\ f.kept \subseteq Current \/ AllDisturbed
  /\ \A id \in f.kept : consents[id].bank # f.bank

DeletionInv ==
  /\ restarts \in Nat
  /\ \A v \in Workers : Serving(frame[v])
  /\ \A v, w \in Workers :
       v # w /\ frame[v].op = "delete_bank" /\ frame[w].op = "delete_bank" => AllDisturbed
  /\ \A v \in Workers :
       frame[v].pc \in Deleting \ {"remove_bank"} => frame[v].bank \notin banks
  /\ \A v \in Workers : frame[v].pc = "purging" => frame[v].dict = Len(stores) \/ AllDisturbed
  /\ \A v \in Workers : frame[v].pc = "replace" => Replaces(frame[v])

LEMMA DeletionRestart ==
  ASSUME DeletionInv, Restart PROVE DeletionInv'
<1>1. \A w \in Workers : frame'[w] = IdleFrame
  BY DEF Restart
<1>2. restarts' \in Nat
  BY DEF Restart, DeletionInv
<1> QED BY <1>1, <1>2, IdleServes DEF DeletionInv, Deleting

LEMMA DeletionHead ==
  ASSUME Typed, DeletionInv, NEW w \in Workers, Steps(w), Headed(w) PROVE DeletionInv'
<1>1. /\ disturbed \subseteq disturbed' /\ restarts' \in Nat
      /\ UNCHANGED <<banks, stores, consents>>
  BY DEF Headed, Accept, rows, objects, DeletionInv
<1>2. \A v \in Workers \ {w} : frame'[v] = frame[v]
  BY OthersStay DEF Steps
<1>3. Serving(frame'[w]) /\ frame'[w].pc \notin Deleting \ {"remove_bank"}
  BY DEF Headed, Heads, Deleting
<1>4. ASSUME NEW v \in Workers \ {w}, frame[v].op = "delete_bank", frame'[w].op = "delete_bank"
      PROVE  AllDisturbed'
  <2>1. Disturbed(w, frame'[w]) = Banks
    BY <1>4 DEF Disturbed
  <2> QED BY <2>1 DEF Headed, Accept, AllDisturbed
<1>5. \A v, u \in Workers : v # u /\ frame'[v].op = "delete_bank" /\ frame'[u].op = "delete_bank"
        => AllDisturbed'
  BY <1>1, <1>2, <1>4 DEF DeletionInv, AllDisturbed
<1>6. \A v \in Workers : frame'[v].pc = "purging" => frame'[v].dict = Len(stores') \/ AllDisturbed'
  BY <1>1, <1>2, <1>3 DEF DeletionInv, AllDisturbed, Deleting
<1>7. \A v \in Workers : Serving(frame'[v])
  BY <1>2, <1>3 DEF DeletionInv
<1>8. \A v \in Workers : frame'[v].pc \in Deleting \ {"remove_bank"} => frame'[v].bank \notin banks'
  BY <1>1, <1>2, <1>3 DEF DeletionInv
<1>9. ASSUME NEW v \in Workers, frame'[v].pc = "replace" PROVE Replaces(frame[v])'
  <2>1. v # w
    BY <1>3, <1>9 DEF Deleting
  <2>2. Replaces(frame[v]) /\ frame'[v] = frame[v]
    BY <1>2, <1>9, <2>1 DEF DeletionInv
  <2> QED BY <1>1, <2>2 DEF Replaces, Current, AllDisturbed
<1> QED BY <1>1, <1>5, <1>6, <1>7, <1>8, <1>9 DEF DeletionInv

(* Where deletions get to. *)
LEMMA DeletingComesFrom ==
  ASSUME Typed, NEW w \in Workers, Works(w)
  PROVE  /\ frame'[w].pc = "purging" => PurgeConsents(w)
         /\ frame'[w].pc = "replace" => KeepOthers(w) /\ ~End(w)
         /\ frame'[w].pc = "purge_payments" => Purged(w)
         /\ frame'[w].pc = "purging_payments" => PurgePayments(w)
         /\ frame'[w].pc = "purge_credentials" => PaymentsPurged(w) /\ ~End(w)
<1>1. CASE End(w)
  BY <1>1, EndFields, IdleTyped
<1>2. CASE ConsentPsu(w) \/ FindCredential(w) \/ OpenSession(w)
  BY <1>1, <1>2, VettedFields, FoundFields, OpenedFields
<1>3. CASE AddCustomer(w) \/ PurgeConsents(w)
  BY <1>3, AddedFields, PurgingFields
<1>4. CASE \E label \in {"add_credential", "bind_customer", "narrow", "issue_code", "finalise",
                         "start", "verify_psu", "terminate", "list_accounts", "remove_customers",
                         "purge_consents"} : Goto(w, label)
  BY <1>4, GotoFields DEF AccessLabels
<1>5. CASE Purged(w)
  BY <1>1, <1>5, GotoFields DEF Purged, AccessLabels
<1>6. CASE CheckCustomer(w) \/ Approve(w) \/ BindCustomer(w) \/ Narrow(w)
  BY <1>1, <1>4, <1>6 DEF CheckCustomer, Approve, BindCustomer, Narrow
<1>7. CASE LoadConsent(w) \/ VerifyPsu(w) \/ RemoveBank(w) \/ RemoveCustomers(w)
  BY <1>1, <1>4, <1>7 DEF LoadConsent, VerifyPsu, RemoveBank, RemoveCustomers
<1>8. CASE Quiet(w)
  BY <1>1, <1>8, QuietFields, QuietIs DEF Follows
<1> QED BY <1>1, <1>2, <1>3, <1>5, <1>6, <1>7, <1>8
        DEF Works, Quiet, AddCredential, IssueCode, DropCode, AddConsent, StartSca, Finalise, Terminate,
            List, PurgeCredentials

LEMMA DeletionWorks ==
  ASSUME Typed, DeletionInv, NEW w \in Workers, Works(w), Steps(w) PROVE DeletionInv'
<1>1. /\ UNCHANGED <<disturbed, restarts>> /\ banks' \subseteq banks
      /\ frame[w].pc = "remove_bank" => frame[w].bank \notin banks'
  BY WorksKeepCounts
<1>2. \A v \in Workers \ {w} : frame'[v] = frame[v]
  BY OthersStay DEF Steps
<1>3. /\ Serving(frame'[w])
      /\ \/ frame'[w] = IdleFrame
         \/ frame'[w].op = frame[w].op /\ frame'[w].bank = frame[w].bank
  BY Continues DEF DeletionInv
<1>4. \A v \in Workers : Serving(frame'[v]) /\ Serving(frame[v])
  BY <1>2, <1>3 DEF DeletionInv
<1>5. \A v \in Workers : frame'[v].op = "delete_bank" => frame[v].op = "delete_bank"
  BY <1>2, <1>3, IdleServes
<1>6. \A v, u \in Workers : v # u /\ frame'[v].op = "delete_bank" /\ frame'[u].op = "delete_bank"
        => AllDisturbed'
  BY <1>1, <1>5 DEF DeletionInv, AllDisturbed
<1>7. ASSUME NEW v \in Workers, frame'[v].pc \in Deleting \ {"remove_bank"}
      PROVE  frame'[v].bank \notin banks'
  <2>1. CASE v # w
    BY <1>1, <1>2, <1>7, <2>1 DEF DeletionInv
  <2>2. CASE v = w
    <3>1. frame'[w] # IdleFrame
      BY <1>7, <2>2, IdleServes DEF Deleting
    <3>2. frame'[w].bank = frame[w].bank /\ frame[w].pc \in Deleting
      BY <1>3, <1>4, <1>7, <2>2, <3>1 DEF Serving
    <3> QED BY <1>1, <2>2, <3>2 DEF DeletionInv
  <2> QED BY <2>1, <2>2
<1>8. ASSUME NEW v \in Workers, frame'[v].pc = "purging"
      PROVE  frame'[v].dict = Len(stores') \/ AllDisturbed'
  <2>1. CASE v = w
    BY <1>8, <2>1, DeletingComesFrom, PurgingFields DEF PurgeConsents, objects
  <2>2. CASE v # w /\ ~Purged(w)
    BY <1>1, <1>2, <1>8, <2>2, StoreKeeps DEF DeletionInv, AllDisturbed
  <2>3. CASE v # w /\ Purged(w)
    <3>1. frame[v].op = "delete_bank" /\ frame[w].op = "delete_bank"
      BY <1>2, <1>4, <1>8, <2>3 DEF Purged, Serving, Deleting
    <3> QED BY <1>1, <2>3, <3>1 DEF DeletionInv, AllDisturbed
  <2> QED BY <2>1, <2>2, <2>3
<1>9. ASSUME NEW v \in Workers, frame'[v].pc = "replace" PROVE Replaces(frame[v])'
  <2>1. CASE v = w
    <3>1. KeepOthers(w) /\ ~End(w) /\ frame[w].pc = "purging" /\ Quiet(w)
      BY <1>9, <2>1, DeletingComesFrom DEF KeepOthers, Quiet
    <3>2. /\ frame'[w].kept = {id \in stores[frame[w].dict] : consents[id].bank # frame[w].bank}
          /\ frame'[w].bank = frame[w].bank
      BY <3>1, KeptFields DEF Follows
    <3>3. UNCHANGED <<stores, consents>>
      BY <3>1, QuietKeeps
    <3>4. frame[w].dict = Len(stores) \/ AllDisturbed
      BY <3>1 DEF DeletionInv
    <3> QED BY <1>1, <2>1, <3>2, <3>3, <3>4 DEF Replaces, Current, AllDisturbed
  <2>2. CASE v # w
    <3>1. frame'[v] = frame[v] /\ Replaces(frame[v])
      BY <1>2, <1>9, <2>2 DEF DeletionInv
    <3>2. Lasting /\ frame[v].kept \subseteq DOMAIN consents
      BY <1>9, <3>1, WorksLast, FrameFacts DEF Equipped, Ready
    <3>3. CASE ~Purged(w)
      BY <1>1, <3>1, <3>2, <3>3, StoreKeeps DEF Replaces, Lasting, AllDisturbed
    <3>4. CASE Purged(w)
      <4>1. frame[v].op = "delete_bank" /\ frame[w].op = "delete_bank"
        BY <1>4, <1>9, <3>1, <3>4 DEF Purged, Serving, Deleting
      <4> QED BY <1>1, <2>2, <3>1, <3>2, <4>1 DEF DeletionInv, Replaces, Lasting, AllDisturbed
    <3> QED BY <3>3, <3>4
  <2> QED BY <2>1, <2>2
<1> QED BY <1>1, <1>4, <1>6, <1>7, <1>8, <1>9 DEF DeletionInv

LEMMA DeletionKept ==
  ASSUME AccessAssumption, Typed, DeletionInv, [Next]_vars PROVE DeletionInv'
<1>1. CASE UNCHANGED vars
  BY <1>1 DEF DeletionInv, Replaces, Current, AllDisturbed, vars
<1>2. CASE AllServed
  BY <1>2 DEF AllServed, DeletionInv, Replaces, Current, AllDisturbed, vars
<1>3. CASE Restart
  BY <1>3, DeletionRestart
<1>4. ASSUME NEW w \in Workers, Logout(w) PROVE DeletionInv'
  BY <1>4 DEF Logout, Accept, DeletionInv, Replaces, Current, AllDisturbed, rows
<1>5. ASSUME NEW w \in Workers, Accepts(w), ~Logout(w) PROVE DeletionInv'
  BY <1>5, AcceptsStep, DeletionHead
<1>6. ASSUME NEW w \in Workers, Works(w) PROVE DeletionInv'
  BY <1>6, WorksStep, DeletionWorks
<1> QED BY <1>1, <1>2, <1>3, <1>4, <1>5, <1>6 DEF Next

(* What is left of a bank once it is deleted. *)
Writers == ConsentWriters \union {"create_customer", "register"}
Saving == {"bind_customer", "narrow", "start", "verify_psu", "finalise", "terminate"}
Kept(b) == {id \in Current : consents[id].bank = b}
Deletes(v, b) == frame[v].op = "delete_bank" /\ frame[v].bank = b

(* A consent about to be saved is in the store still.                      *)
Held(v) ==
  frame[v].pc \in Saving =>
    /\ consents[frame[v].consent].bank = frame[v].bank
    /\ \/ frame[v].consent \in Current \/ frame[v].consent \in late
       \/ frame[v].bank \notin banks \/ AllDisturbed

(* A purge takes no consent of an open bank away, the late ones excepted.  *)
Replacing(v) ==
  frame[v].pc = "replace" /\ ~AllDisturbed =>
    \A id \in Current : consents[id].bank \in banks => id \in frame[v].kept \union late

(* Who runs next to an undisturbed deletion.                               *)
Apart(v, w) ==
  frame[w].op = "delete_bank" /\ frame[w].bank \notin disturbed =>
    /\ frame[v].op \notin {"delete_bank", "create_consent", "payment"}
    /\ frame[v].op \in Writers => frame[v].bank # frame[w].bank
    /\ frame[v].op \in ConsentWriters => frame[v].bank \in banks /\ frame[v].consent \notin late

(* How far an undisturbed deletion has got.                                *)
Cleared(w) ==
  frame[w].bank \notin disturbed =>
    /\ frame[w].pc = "purging" =>
         frame[w].dict = Len(stores) /\ frame[w].size = Cardinality(Current)
    /\ frame[w].pc \in {"purge_payments", "purging_payments", "purge_credentials"} =>
         Kept(frame[w].bank) = {}
    /\ frame[w].pc = "purging_payments" => frame[w].size = payments

Clean(b) ==
  (\A v \in Workers : ~Deletes(v, b)) =>
    /\ \A c \in credentials : c.bank # b
    /\ Kept(b) = {}
    /\ \A v \in Workers : frame[v].op \in Writers \union {"create_consent"} => frame[v].bank # b

ForgetInv ==
  /\ \A v \in Workers : Held(v) /\ Replacing(v)
  /\ \A v, w \in Workers : v # w => Apart(v, w)
  /\ \A w \in Workers : Cleared(w)
  /\ \A b \in Banks \ (banks \union disturbed) : Clean(b)

(* A worker that deletes a bank has its name.                              *)
LEMMA DeletedIsBank ==
  ASSUME Typed, DeletionInv, NEW w \in Workers, frame[w].op = "delete_bank"
  PROVE  frame[w].bank \in Banks /\ frame[w].pc \in Deleting
<1>1. frame[w].pc \in Deleting
  BY DEF DeletionInv, Serving
<1> QED BY <1>1, FrameFacts DEF Equipped, Ready, Deleting

(* The deletion of one bank leaves the consents of the others.             *)
LEMMA OthersKept ==
  ASSUME Typed, DeletionInv, ForgetInv, NEW w \in Workers, Works(w),
         NEW id \in Current \ late, consents[id].bank \in banks', ~AllDisturbed
  PROVE  id \in Current'
<1>1. CASE ~Purged(w)
  BY <1>1, StoreKeeps
<1>2. CASE Purged(w)
  <2>1. UNCHANGED banks /\ frame[w].pc = "replace"
    BY <1>2 DEF Purged, rows
  <2>2. id \in frame[w].kept
    BY <2>1 DEF ForgetInv, Replacing
  <2> QED BY <1>2, <2>2, PurgedCurrent
<1> QED BY <1>1, <1>2

LEMMA ConsentsKeptStep ==
  ASSUME AccessAssumption, Typed, DeletionInv, ForgetInv, [Next]_vars, restarts' = restarts,
         NEW id \in Current \ late, consents[id].bank \in banks' \ disturbed'
  PROVE  id \in Current'
<1>1. CASE UNCHANGED stores
  BY <1>1 DEF Current
<1>2. CASE Restart
  BY <1>2 DEF Restart, DeletionInv
<1>3. ASSUME NEW w \in Workers, Accepts(w) PROVE UNCHANGED stores
  BY <1>3, AcceptsStep DEF Logout, Headed, objects
<1>4. ASSUME NEW w \in Workers, Works(w) PROVE id \in Current'
  <2>1. ~AllDisturbed
    BY <1>4, WorksKeepCounts DEF AllDisturbed, Typed, DataTyped
  <2> QED BY <1>4, <2>1, OthersKept
<1> QED BY <1>1, <1>2, <1>3, <1>4 DEF Next, AllServed, vars

LEMMA HeldWorks ==
  ASSUME Typed, DeletionInv, ForgetInv, NEW w \in Workers, Works(w), Steps(w), NEW v \in Workers
  PROVE  Held(v)'
<1> SUFFICES ASSUME frame'[v].pc \in Saving
             PROVE  /\ consents'[frame'[v].consent].bank = frame'[v].bank
                    /\ \/ frame'[v].consent \in Current' \/ frame'[v].consent \in late'
                       \/ frame'[v].bank \notin banks' \/ AllDisturbed'
  BY DEF Held
<1>1. Lasting /\ UNCHANGED disturbed /\ banks' \subseteq banks /\ late \subseteq late'
  BY WorksLast, WorksKeepCounts, LateMoves
<1>2. CASE v # w
  <2>1. frame'[v] = frame[v]
    BY <1>2, OthersStay DEF Steps
  <2>2. frame[v].consent \in DOMAIN consents
    BY <2>1, FrameFacts DEF Equipped, Ready, Saving, Redirected, Loaded, Listing
  <2>3. /\ consents[frame[v].consent].bank = frame[v].bank
        /\ \/ frame[v].consent \in Current \/ frame[v].consent \in late
           \/ frame[v].bank \notin banks \/ AllDisturbed
    BY <2>1 DEF ForgetInv, Held
  <2> QED BY <1>1, <2>1, <2>2, <2>3, OthersKept DEF Lasting, AllDisturbed
<1>3. CASE v = w /\ frame'[w].pc = "bind_customer"
  <2>1. /\ Approve(w) /\ Goto(w, "bind_customer") /\ ~End(w)
    BY <1>3, ComesFrom, EndFields, IdleTyped
  <2>2. InStore(frame[w]) /\ UNCHANGED stores
    BY <2>1 DEF Approve
  <2>3. frame[w].consent \in DOMAIN consents
    BY <2>1, FrameFacts DEF Approve, Equipped, Ready, Redirected
  <2> QED BY <1>1, <1>3, <2>1, <2>2, <2>3, GotoFields DEF InStore, Current, Lasting, AccessLabels
<1>4. CASE v = w /\ frame'[w].pc \in {"start", "verify_psu", "terminate"}
  <2>1. LoadConsent(w) /\ ~End(w) /\ \E label \in AccessLabels : Goto(w, label)
    BY <1>4, ComesFrom
  <2>2. InStore(frame[w]) /\ UNCHANGED <<stores, consents>>
    BY <2>1 DEF LoadConsent, objects
  <2> QED BY <1>4, <2>1, <2>2, GotoFields DEF InStore, Current
<1>5. CASE v = w /\ frame'[w].pc \in {"narrow", "finalise"}
  <2>1. /\ frame[w].pc \in {"bind_customer", "verify_psu"} /\ UNCHANGED stores
        /\ \E label \in AccessLabels : Goto(w, label)
    BY <1>5, ComesFrom DEF BindCustomer, VerifyPsu, AccessLabels
  <2>2. frame[w].consent \in DOMAIN consents
    BY <2>1, FrameFacts DEF Equipped, Ready, Loaded, Listing, Redirected
  <2> QED BY <1>1, <1>5, <2>1, <2>2, GotoFields
          DEF ForgetInv, Held, Saving, Current, Lasting, AllDisturbed
<1> QED BY <1>2, <1>3, <1>4, <1>5 DEF Saving

LEMMA ReplacingWorks ==
  ASSUME Typed, DeletionInv, ForgetInv, NEW w \in Workers, Works(w), Steps(w), NEW v \in Workers
  PROVE  Replacing(v)'
<1> SUFFICES ASSUME frame'[v].pc = "replace", ~AllDisturbed', NEW id \in Current',
                    consents'[id].bank \in banks'
             PROVE  id \in frame'[v].kept \/ id \in late'
  BY DEF Replacing
<1>1. Lasting /\ UNCHANGED disturbed /\ banks' \subseteq banks /\ late \subseteq late'
  BY WorksLast, WorksKeepCounts, LateMoves
<1>2. CASE v = w
  <2>1. KeepOthers(w) /\ ~End(w) /\ frame[w].pc = "purging" /\ Quiet(w)
    BY <1>2, DeletingComesFrom DEF KeepOthers, Quiet
  <2>2. frame'[w].kept = {x \in stores[frame[w].dict] : consents[x].bank # frame[w].bank}
    BY <2>1, KeptFields
  <2>3. UNCHANGED <<stores, consents, banks>>
    BY <2>1, QuietKeeps
  <2>4. frame[w].dict = Len(stores) /\ frame[w].bank \notin banks
    BY <1>1, <2>1 DEF DeletionInv, Deleting, AllDisturbed
  <2> QED BY <1>2, <2>2, <2>3, <2>4 DEF Current
<1>3. CASE v # w
  <2>1. frame'[v] = frame[v]
    BY <1>3, OthersStay DEF Steps
  <2>2. ~Purged(w)
    <3>1. Purged(w) => frame[v].op = "delete_bank" /\ frame[w].op = "delete_bank"
      BY <2>1 DEF DeletionInv, Serving, Purged, Deleting
    <3> QED BY <1>1, <1>3, <3>1 DEF DeletionInv, AllDisturbed
  <2>3. CASE id \in Current
    BY <1>1, <2>1, <2>3, CurrentTyped DEF ForgetInv, Replacing, Lasting, AllDisturbed
  <2>4. CASE AddConsent(w) /\ id \notin Current
    <3>1. PICK new \in ConsentIds \ DOMAIN consents :
            /\ DOMAIN consents' = DOMAIN consents \union {new}
            /\ Save(new)
            /\ (\E u \in Workers : frame[u].pc = "replace") => new \in late'
      BY <2>4, AddedConsent
    <3>2. id = new
      BY <2>4, <3>1, SaveCurrent
    <3> QED BY <2>1, <3>1, <3>2
  <2>5. CASE /\ id \notin Current
             /\ frame[w].pc \in {"start", "finalise", "terminate", "narrow"}
             /\ Save(frame[w].consent)
             /\ frame[w].consent \in DOMAIN consents /\ DOMAIN consents' = DOMAIN consents
    <3>1. id = frame[w].consent
      BY <2>5, SaveCurrent
    <3>2. consents[id].bank = frame[w].bank /\ consents'[id].bank = consents[id].bank
      BY <1>1, <2>5, <3>1 DEF ForgetInv, Held, Saving, Lasting
    <3> QED BY <1>1, <2>5, <3>1, <3>2 DEF ForgetInv, Held, Saving, AllDisturbed
  <2> QED BY <2>2, <2>3, <2>4, <2>5, StoresMove DEF Current
<1> QED BY <1>2, <1>3

LEMMA ApartWorks ==
  ASSUME Typed, DeletionInv, ForgetInv, NEW w \in Workers, Works(w), Steps(w),
         NEW v \in Workers, NEW u \in Workers, v # u
  PROVE  Apart(v, u)'
<1> SUFFICES ASSUME frame'[u].op = "delete_bank", frame'[u].bank \notin disturbed'
             PROVE  /\ frame'[v].op \notin {"delete_bank", "create_consent", "payment"}
                    /\ frame'[v].op \in Writers => frame'[v].bank # frame'[u].bank
                    /\ frame'[v].op \in ConsentWriters =>
                         frame'[v].bank \in banks' /\ frame'[v].consent \notin late'
  BY DEF Apart
<1>1. /\ UNCHANGED disturbed
      /\ banks' = IF frame[w].pc = "remove_bank" THEN banks \ {frame[w].bank} ELSE banks
  BY WorksKeepCounts
<1>2. \A x \in Workers : \/ frame'[x] = IdleFrame
                         \/ /\ frame'[x].op = frame[x].op /\ frame'[x].bank = frame[x].bank
                            /\ frame'[x].consent = frame[x].consent
  BY Continues, OthersStay DEF Steps, DeletionInv
<1>3. frame[u].op = "delete_bank" /\ frame'[u].bank = frame[u].bank
  BY <1>2, IdleServes
<1>4. /\ frame[v].op \notin {"delete_bank", "create_consent", "payment"}
      /\ frame[v].op \in Writers => frame[v].bank # frame[u].bank
      /\ frame[v].op \in ConsentWriters => frame[v].bank \in banks /\ frame[v].consent \notin late
  BY <1>1, <1>3 DEF ForgetInv, Apart
<1>5. CASE frame'[v] = IdleFrame
  BY <1>5, IdleServes DEF Writers, ConsentWriters
<1>6. CASE /\ frame'[v].op = frame[v].op /\ frame'[v].bank = frame[v].bank
           /\ frame'[v].consent = frame[v].consent
  <2>1. ~AllDisturbed
    BY <1>1, <1>3, DeletedIsBank DEF AllDisturbed
  <2>2. frame[w].pc = "remove_bank" => w = u
    BY <1>3, <2>1 DEF DeletionInv, Serving, Deleting
  <2>3. ~AddConsent(w)
    <3>1. AddConsent(w) => frame[w].op = "create_consent"
      BY DEF AddConsent, DeletionInv, Serving
    <3>2. w # u => frame[w].op # "create_consent"
      BY <1>1, <1>3 DEF ForgetInv, Apart
    <3> QED BY <1>3, <3>1, <3>2
  <2>4. late' = late
    BY <2>3, LateMoves
  <2> QED BY <1>1, <1>3, <1>4, <1>6, <2>2, <2>4 DEF Writers
<1> QED BY <1>2, <1>5, <1>6

(* Next to an undisturbed deletion the store does not change.              *)
LEMMA StoreQuiet ==
  ASSUME Typed, DeletionInv, ForgetInv, NEW w \in Workers, Works(w), NEW u \in Workers, u # w,
         frame[u].op = "delete_bank", frame[u].bank \notin disturbed
  PROVE  Current' = Current /\ Len(stores') = Len(stores) /\ payments' = payments
<1>1. /\ frame[w].op \notin {"delete_bank", "create_consent", "payment"}
      /\ frame[w].op \in ConsentWriters => frame[w].bank \in banks /\ frame[w].consent \notin late
      /\ ~AllDisturbed
  BY DeletedIsBank DEF ForgetInv, Apart, AllDisturbed
<1>2. Serving(frame[w])
  BY DEF DeletionInv
<1>3. ~AddConsent(w) /\ ~Purged(w) /\ ~AddPayment(w)
  BY <1>1, <1>2 DEF AddConsent, Purged, AddPayment, Serving, Deleting
<1>4. payments' = payments
  BY <1>3, LateMoves
<1>5. CASE UNCHANGED stores
  BY <1>4, <1>5 DEF Current
<1>6. CASE /\ frame[w].pc \in {"start", "finalise", "terminate", "narrow"}
           /\ Save(frame[w].consent)
           /\ frame[w].consent \in DOMAIN consents /\ DOMAIN consents' = DOMAIN consents
  <2>1. frame[w].op \in ConsentWriters
    BY <1>2, <1>6 DEF Serving, Writing, Redirected
  <2>2. frame[w].consent \in Current
    BY <1>1, <1>6, <2>1 DEF ForgetInv, Held, Saving
  <2> QED BY <1>4, <1>6, <2>2, SaveCurrent
<1> QED BY <1>3, <1>5, <1>6, StoresMove

LEMMA ClearedWorks ==
  ASSUME Typed, DeletionInv, ForgetInv, NEW w \in Workers, Works(w), Steps(w), NEW u \in Workers
  PROVE  Cleared(u)'
<1> DEFINE After == {"purge_payments", "purging_payments", "purge_credentials"}
<1> SUFFICES ASSUME frame'[u].bank \notin disturbed', frame'[u].pc \in {"purging"} \union After
             PROVE  /\ frame'[u].pc = "purging" =>
                         /\ frame'[u].dict = Len(stores')
                         /\ frame'[u].size = Cardinality(Current')
                    /\ frame'[u].pc \in After =>
                         \A id \in Current' : consents'[id].bank # frame'[u].bank
                    /\ frame'[u].pc = "purging_payments" => frame'[u].size = payments'
  BY DEF Cleared, Kept
<1>1. Lasting /\ UNCHANGED disturbed
  BY WorksLast, WorksKeepCounts
<1>2. CASE u # w
  <2>1. frame'[u] = frame[u]
    BY <1>2, OthersStay DEF Steps
  <2>2. frame[u].op = "delete_bank"
    BY <2>1 DEF DeletionInv, Serving, Deleting
  <2>3. Current' = Current /\ Len(stores') = Len(stores) /\ payments' = payments
    BY <1>1, <1>2, <2>1, <2>2, StoreQuiet
  <2>4. \A id \in Current : consents'[id].bank = consents[id].bank
    BY <1>1, CurrentTyped DEF Lasting
  <2> QED BY <1>1, <2>1, <2>3, <2>4 DEF ForgetInv, Cleared, Kept
<1>3. CASE u = w /\ frame'[w].pc = "purging"
  <2>1. PurgeConsents(w) /\ UNCHANGED stores
    BY <1>3, DeletingComesFrom DEF PurgeConsents, objects
  <2> QED BY <1>3, <2>1, PurgingFields DEF Current
<1>4. CASE u = w /\ frame'[w].pc = "purge_payments"
  <2>1. Purged(w) /\ Goto(w, "purge_payments") /\ UNCHANGED consents
    BY <1>4, DeletingComesFrom DEF Purged
  <2>2. frame'[w].bank = frame[w].bank
    BY <2>1, GotoFields DEF AccessLabels
  <2>3. \A id \in frame[w].kept : consents[id].bank # frame[w].bank
    BY <2>1 DEF Purged, DeletionInv, Replaces
  <2> QED BY <1>4, <2>1, <2>2, <2>3, PurgedCurrent
<1>5. CASE u = w /\ frame'[w].pc \in {"purging_payments", "purge_credentials"}
  <2>1. /\ Quiet(w) /\ Follows(frame[w], frame'[w])
        /\ frame'[w].pc = "purging_payments" => PurgePayments(w)
        /\ ~AddPayment(w)
    BY <1>5, DeletingComesFrom, QuietFields, IdleTyped DEF Quiet, Follows, AddPayment
  <2>2. UNCHANGED <<stores, consents, payments>>
    BY <2>1, QuietKeeps, LateMoves
  <2>3. Kept(frame[w].bank) = {} /\ frame'[w].bank = frame[w].bank
    BY <1>1, <1>5, <2>1 DEF ForgetInv, Cleared, Follows
  <2>4. frame'[w].pc = "purging_payments" => frame'[w].size = payments
    BY <2>1, CountedFields
  <2> QED BY <1>5, <2>2, <2>3, <2>4 DEF Kept, Current
<1> QED BY <1>2, <1>3, <1>4, <1>5

(* A purge that finds the dict as it was goes on to replace it.            *)
LEMMA KeepsOthers ==
  ASSUME Typed, NEW w \in Workers, KeepOthers(w), frame[w].dict = Len(stores),
         frame[w].size = Cardinality(Current)
  PROVE  frame'[w].pc = "replace"
<1> DEFINE f == frame[w]
           left == {id \in stores[f.dict] : consents[id].bank # f.bank}
           g == [f EXCEPT !.kept = left, !.pc = "replace"]
<1>1. frame' = [frame EXCEPT ![w] = g]
  BY DEF KeepOthers, Current
<1>2. frame'[w] = g /\ f \in Frame
  BY <1>1, FrameFacts DEF Typed
<1> HIDE DEF f, left
<1> QED BY <1>2 DEF Frame

(* An undisturbed deletion ends where it should. *)
LEMMA DeletionEnds ==
  ASSUME Typed, DeletionInv, ForgetInv, NEW w \in Workers, Works(w),
         frame[w].op = "delete_bank", frame[w].bank \notin disturbed, frame'[w] = IdleFrame
  PROVE  PurgeCredentials(w)
<1>1. frame[w].pc \in Deleting /\ frame'[w].pc = "idle"
  BY DeletedIsBank, IdleTyped
<1>2. ~RemoveBank(w) /\ ~RemoveCustomers(w) /\ ~Purged(w)
  BY <1>1, GotoFields DEF RemoveBank, RemoveCustomers, Purged, AccessLabels
<1>3. ~PurgeConsents(w) /\ ~PurgePayments(w)
  BY <1>1, PurgingFields, CountedFields
<1>4. ~KeepOthers(w)
  <2>1. KeepOthers(w) => frame[w].dict = Len(stores) /\ frame[w].size = Cardinality(Current)
    BY DEF KeepOthers, ForgetInv, Cleared
  <2> QED BY <1>1, <2>1, KeepsOthers
<1>5. ~PaymentsPurged(w)
  <2>1. PaymentsPurged(w) => Goto(w, "purge_credentials")
    BY DEF PaymentsPurged, ForgetInv, Cleared
  <2> QED BY <1>1, <2>1, GotoFields DEF AccessLabels
<1> QED BY <1>1, <1>2, <1>3, <1>4, <1>5
        DEF Works, Deleting, AddCustomer, CheckCustomer, AddCredential, FindCredential, OpenSession,
            ConsentPsu, Approve, BindCustomer, Narrow, IssueCode, DropCode, AddConsent, LoadConsent,
            StartSca, VerifyPsu, Finalise, Terminate, ListAccounts, ScopeToCustomer, MatchCustomer,
            List, AddPayment

LEMMA CredentialsMove ==
  ASSUME NEW w \in Workers, Works(w)
  PROVE  \/ credentials' \subseteq credentials
         \/ /\ frame[w].pc = "add_credential"
            /\ credentials' \subseteq credentials \union
                 {[bank |-> frame[w].bank, user |-> frame[w].user, customer |-> frame[w].customer]}
BY QuietKeeps
   DEF Works, Quiet, AddCustomer, CheckCustomer, AddCredential, FindCredential, OpenSession, ConsentPsu,
       Approve, BindCustomer, Narrow, IssueCode, DropCode, AddConsent, LoadConsent, StartSca,
       VerifyPsu, Finalise, Terminate, List, RemoveBank, RemoveCustomers, PurgeConsents, Purged,
       PurgeCredentials, rows

(* A step for a bank that is not clean does not bring a clean one back.    *)
LEMMA KeptMoves ==
  ASSUME Typed, DeletionInv, ForgetInv, NEW w \in Workers, Works(w), NEW b \in Banks \ disturbed,
         Kept(b) = {}, frame[w].op \in Writers \union {"create_consent"} => frame[w].bank # b
  PROVE  Kept(b)' = {}
<1> SUFFICES ASSUME NEW id \in Current', consents'[id].bank = b PROVE FALSE
  BY DEF Kept
<1>1. Lasting /\ Serving(frame[w])
  BY WorksLast DEF DeletionInv
<1>2. id \notin Current
  BY <1>1, CurrentTyped DEF Kept, Lasting
<1>3. CASE UNCHANGED stores
  BY <1>2, <1>3 DEF Current
<1>4. CASE AddConsent(w)
  <2>1. frame[w].op = "create_consent"
    BY <1>1, <1>4 DEF AddConsent, Serving
  <2>2. PICK new \in ConsentIds \ DOMAIN consents :
          /\ consents' = Extend(consents, new, Asked(frame[w]))
          /\ DOMAIN consents' = DOMAIN consents \union {new}
          /\ Save(new)
    BY <1>4, AddedConsent
  <2>3. id = new
    BY <1>2, <2>2, SaveCurrent
  <2> QED BY <2>1, <2>2, <2>3 DEF Extend, Asked
<1>5. CASE /\ frame[w].pc \in {"start", "finalise", "terminate", "narrow"}
           /\ Save(frame[w].consent)
           /\ frame[w].consent \in DOMAIN consents /\ DOMAIN consents' = DOMAIN consents
  <2>1. id = frame[w].consent
    BY <1>2, <1>5, SaveCurrent
  <2>2. consents[id].bank = frame[w].bank
    BY <1>5, <2>1 DEF ForgetInv, Held, Saving
  <2>3. frame[w].op \in ConsentWriters
    BY <1>1, <1>5 DEF Serving, Writing, Redirected
  <2> QED BY <1>1, <1>5, <2>1, <2>2, <2>3 DEF Lasting, Writers
<1>6. CASE Purged(w) /\ ~UNCHANGED stores
  <2>1. frame[w].kept \subseteq Current
    BY <1>6 DEF Purged, DeletionInv, Replaces, AllDisturbed
  <2> QED BY <1>2, <1>6, <2>1, PurgedCurrent
<1> QED BY <1>3, <1>4, <1>5, <1>6, StoresMove

LEMMA CleanWorks ==
  ASSUME Typed, DeletionInv, ForgetInv, NEW w \in Workers, Works(w), Steps(w),
         NEW b \in Banks \ (banks' \union disturbed')
  PROVE  Clean(b)'
<1> SUFFICES ASSUME \A v \in Workers : ~Deletes(v, b)'
             PROVE  /\ \A c \in credentials' : c.bank # b
                    /\ Kept(b)' = {}
                    /\ \A v \in Workers : frame'[v].op \in Writers \union {"create_consent"} =>
                                            frame'[v].bank # b
  BY DEF Clean
<1>1. /\ UNCHANGED disturbed /\ Serving(frame[w])
      /\ banks' = IF frame[w].pc = "remove_bank" THEN banks \ {frame[w].bank} ELSE banks
  BY WorksKeepCounts DEF DeletionInv
<1>2. \A v \in Workers \ {w} : frame'[v] = frame[v]
  BY OthersStay DEF Steps
<1>3. \A v \in Workers : \/ frame'[v] = IdleFrame
                         \/ frame'[v].op = frame[v].op /\ frame'[v].bank = frame[v].bank
  BY <1>2, Continues DEF DeletionInv
<1>4. CASE \E u \in Workers : Deletes(u, b)
  <2>1. frame[w].op = "delete_bank" /\ frame[w].bank = b /\ frame'[w] = IdleFrame
    BY <1>2, <1>3, <1>4 DEF Deletes
  <2>2. PurgeCredentials(w)
    BY <1>1, <2>1, DeletionEnds
  <2>3. /\ \A c \in credentials' : c.bank # b
        /\ UNCHANGED <<stores, consents>>
    BY <2>1, <2>2 DEF PurgeCredentials, objects
  <2>4. Kept(b) = {}
    BY <1>1, <2>1, <2>2 DEF PurgeCredentials, ForgetInv, Cleared
  <2>5. \A v \in Workers : frame'[v].op \in Writers \union {"create_consent"} =>
                             frame'[v].bank # b
    BY <1>1, <1>2, <2>1, IdleServes DEF ForgetInv, Apart, Writers, ConsentWriters
  <2> QED BY <2>3, <2>4, <2>5 DEF Kept, Current
<1>5. CASE ~\E u \in Workers : Deletes(u, b)
  <2>1. b \notin banks
    BY <1>1, <1>5 DEF Serving, Deleting, Deletes
  <2>2. /\ \A c \in credentials : c.bank # b
        /\ Kept(b) = {}
        /\ \A v \in Workers : frame[v].op \in Writers \union {"create_consent"} =>
                                frame[v].bank # b
    BY <1>1, <1>5, <2>1 DEF ForgetInv, Clean
  <2>3. \A c \in credentials' : c.bank # b
    <3>1. frame[w].pc = "add_credential" => frame[w].bank # b
      BY <1>1, <2>2 DEF Serving, Enrolling, Writers
    <3> QED BY <2>2, <3>1, CredentialsMove
  <2>4. Kept(b)' = {}
    BY <1>1, <2>2, KeptMoves
  <2>5. \A v \in Workers : frame'[v].op \in Writers \union {"create_consent"} =>
                             frame'[v].bank # b
    BY <1>3, <2>2, IdleServes DEF Writers, ConsentWriters
  <2> QED BY <2>3, <2>4, <2>5
<1> QED BY <1>4, <1>5

(* A request that begins next to a deletion disturbs it or keeps apart.    *)
LEMMA ForgetHead ==
  ASSUME Typed, DeletionInv, ForgetInv, NEW w \in Workers, Steps(w), Headed(w)
  PROVE  ForgetInv'
<1> DEFINE f == frame'[w]
           bank == f.bank
<1>1. /\ UNCHANGED <<banks, credentials, stores, consents, late, payments>> /\ Current' = Current
      /\ bank \in banks /\ frame[w].pc = "idle"
      /\ disturbed' = disturbed \union Disturbed(w, f)
  BY DEF Headed, Accept, rows, objects, history, Current
<1>2. \A v \in Workers \ {w} : frame'[v] = frame[v]
  BY OthersStay DEF Steps
<1>3. frame'[w].pc \in Heads
  BY DEF Headed
<1>4. \A v \in Workers : Held(v)' /\ Replacing(v)'
  BY <1>1, <1>2, <1>3 DEF ForgetInv, Held, Replacing, AllDisturbed, Heads, Saving
<1>5. \A v \in Workers : Cleared(v)'
  BY <1>1, <1>2, <1>3 DEF ForgetInv, Cleared, Kept, Heads
<1>6. ASSUME NEW v \in Workers, NEW u \in Workers, v # u,
             frame'[u].op = "delete_bank", frame'[u].bank \notin disturbed'
      PROVE  /\ frame'[v].op \notin {"delete_bank", "create_consent", "payment"}
             /\ frame'[v].op \in Writers => frame'[v].bank # frame'[u].bank
             /\ frame'[v].op \in ConsentWriters =>
                  frame'[v].bank \in banks' /\ frame'[v].consent \notin late'
  <2>1. CASE u = w
    <3>1. bank \notin Disturbed(w, f) /\ bank \in Banks
      BY <1>1, <1>6, <2>1 DEF Typed, DataTyped
    <3>2. frame[v].op # "delete_bank" /\ ~Disturbs(frame[v], bank)
      BY <1>6, <2>1, <3>1 DEF Disturbed
    <3> QED BY <1>1, <1>2, <1>6, <2>1, <3>2 DEF Disturbs, Writers
  <2>2. CASE v = w
    <3>1. frame'[u] = frame[u] /\ frame[u].bank \in Banks
      BY <1>2, <1>6, <2>2, DeletedIsBank
    <3>2. frame[u].bank \notin Disturbed(w, f)
      BY <1>1, <1>6, <3>1
    <3>3. f.op # "delete_bank" /\ ~Disturbs(f, frame[u].bank)
      BY <1>6, <2>2, <3>1, <3>2 DEF Disturbed
    <3> QED BY <1>1, <2>2, <3>1, <3>3 DEF Disturbs, Writers
  <2>3. CASE v # w /\ u # w
    BY <1>1, <1>2, <1>6, <2>3 DEF ForgetInv, Apart
  <2> QED BY <2>1, <2>2, <2>3
<1>7. ASSUME NEW b \in Banks \ (banks' \union disturbed') PROVE Clean(b)'
  <2>1. Clean(b) /\ bank # b
    BY <1>1, <1>7 DEF ForgetInv
  <2>2. (\A v \in Workers : ~Deletes(v, b)') => \A v \in Workers : ~Deletes(v, b)
    BY <1>1, <1>2 DEF Deletes, DeletionInv, Serving, Deleting
  <2>3. Kept(b)' = Kept(b)
    BY <1>1 DEF Kept
  <2> QED BY <1>1, <1>2, <2>1, <2>2, <2>3 DEF Clean
<1> QED BY <1>4, <1>5, <1>6, <1>7 DEF ForgetInv, Apart

LEMMA ForgetRestart ==
  ASSUME Typed, ForgetInv, Restart PROVE ForgetInv'
<1>1. /\ \A w \in Workers : frame'[w] = IdleFrame
      /\ Current' = {}
      /\ UNCHANGED <<banks, credentials>> /\ disturbed \subseteq disturbed'
  BY DEF Restart, Current, rows
<1>2. ASSUME NEW b \in Banks \ (banks' \union disturbed') PROVE Clean(b)'
  <2>1. \A v \in Workers : ~Deletes(v, b)
    BY <1>2 DEF Restart, Deletes
  <2>2. \A c \in credentials : c.bank # b
    BY <1>1, <1>2, <2>1 DEF ForgetInv, Clean
  <2> QED BY <1>1, <2>2, IdleServes DEF Clean, Kept, Writers, ConsentWriters
<1>3. \A v \in Workers : Held(v)' /\ Replacing(v)' /\ Cleared(v)'
  BY <1>1, IdleServes DEF Held, Replacing, Cleared, Saving
<1>4. \A v, w \in Workers : Apart(v, w)'
  BY <1>1, IdleServes DEF Apart
<1> QED BY <1>2, <1>3, <1>4 DEF ForgetInv

LEMMA ForgetKept ==
  ASSUME AccessAssumption, Typed, DeletionInv, ForgetInv, [Next]_vars PROVE ForgetInv'
<1>1. CASE UNCHANGED vars \/ AllServed
  BY <1>1 DEF AllServed, ForgetInv, Held, Replacing, Apart, Cleared, Clean, Kept, Deletes,
              Current, AllDisturbed, vars
<1>2. CASE Restart
  BY <1>2, ForgetRestart
<1>3. ASSUME NEW w \in Workers, Logout(w) PROVE ForgetInv'
  BY <1>3 DEF Logout, Accept, ForgetInv, Held, Replacing, Apart, Cleared, Clean, Kept, Deletes,
              Current, AllDisturbed, rows, history
<1>4. ASSUME NEW w \in Workers, Accepts(w), ~Logout(w) PROVE ForgetInv'
  BY <1>4, AcceptsStep, ForgetHead
<1>5. ASSUME NEW w \in Workers, Works(w) PROVE ForgetInv'
  BY <1>5, WorksStep, HeldWorks, ReplacingWorks, ApartWorks, ClearedWorks, CleanWorks
     DEF ForgetInv
<1> QED BY <1>1, <1>2, <1>3, <1>4, <1>5 DEF Next

-----------------------------------------------------------------------------

(* Everything the results below rest on. *)
IInv ==
  /\ Typed /\ RegisteredInv /\ BoundInv /\ AgreedInv /\ CoveredInv /\ ShownWasGranted
  /\ DeletionInv /\ ForgetInv

LEMMA InitIInv == ASSUME AccessAssumption, Init PROVE IInv
<1>1. DOMAIN sessions = {} /\ DOMAIN consents = {} /\ DOMAIN codes = {} /\ shown = {}
  BY DEF Init
<1>2. \A w \in Workers : frame[w].pc = "idle"
  BY IdleTyped DEF Init
<1>3. credentials = registered
  BY DEF Init
<1>4. RegisteredInv /\ BoundInv /\ AgreedInv
  BY <1>1, <1>2, <1>3 DEF RegisteredInv, Claims, Known, Redirected, BoundInv, Vetted, Binders,
     AgreedInv, Approved
<1>5. CoveredInv /\ ShownWasGranted
  BY <1>1, <1>2 DEF CoveredInv, Listable, Listing, ShownWasGranted
<1>6. \A w \in Workers : frame[w] = IdleFrame
  BY DEF Init
<1>7. DeletionInv
  BY <1>6, IdleServes DEF DeletionInv, Deleting, Init
<1>8. Current = {} /\ \A c \in credentials : c.bank \in banks
  BY AccessAssumption DEF Init, Current
<1>9. ForgetInv
  BY <1>6, <1>8, IdleServes
     DEF ForgetInv, Held, Replacing, Saving, Apart, Cleared, Clean, Kept, Writers, ConsentWriters
<1> QED BY <1>4, <1>5, <1>7, <1>9, InitTyped DEF IInv

(* Types, registrations, comparisons, agreements, what is within reach and *)
(* how far deletions have got, in every state of every instance.           *)
THEOREM Invariance == Spec => []IInv
<1>1. IInv /\ [Next]_vars => IInv'
  BY AccessAssumption, TypedKept, RegisteredKept, BoundKept, AgreedKept, CoveredKept, ShownKept,
     DeletionKept, ForgetKept DEF IInv
<1> QED BY <1>1, InitIInv, AccessAssumption, PTL DEF Spec

(* A code only ever carries a consent its customer has agreed to, however  *)
(* long its issue took and whatever became of the consent meanwhile.       *)
THEOREM CodesNeedAgreement == Spec => []CodesAreGranted
<1>1. IInv => CodesAreGranted
  BY DEF IInv, AgreedInv, Agreed, CodesAreGranted
<1> QED BY <1>1, Invariance, PTL

(* A consent that names a PSU is bound to a customer that PSU has been the *)
(* login of, though several requests may bind the same consent.            *)
THEOREM BoundToItsPsu == Spec => []PsuBound
<1>1. IInv => PsuBound
  BY DEF IInv, BoundInv, Bound, PsuBound
<1> QED BY <1>1, Invariance, PTL

(* What is listed under a consent was agreed to, whatever approvals,       *)
(* revocations and deletions run next to the listing and whomever the      *)
(* consent is bound to from one account to the next, unless the listing    *)
(* finds it between the assignments of an approval; and by one customer,   *)
(* unless it was bound to several while it was listed.                     *)
THEOREM ListingsAreGranted == Spec => []ShownWasGranted
<1>1. IInv => ShownWasGranted
  BY DEF IInv
<1> QED BY <1>1, Invariance, PTL

(* Deleting a bank takes no consent of another bank with it: what a purge  *)
(* keeps is all that the dict in use holds when it is replaced, but for    *)
(* the consents added in between and unless two deletions overlap.         *)
THEOREM ConsentsAreKept == Spec => ConsentsKept
<1>1. IInv /\ [Next]_vars =>
        [restarts' = restarts =>
           \A id \in Current \ late :
             consents[id].bank \in banks' \ disturbed' => id \in Current']_vars
  BY AccessAssumption, ConsentsKeptStep DEF IInv
<1> QED BY <1>1, Invariance, PTL DEF Spec, ConsentsKept

(* Once all requests have ended, no login and no consent of a deleted bank *)
(* is left, whatever ran next to the deletion, the requests that disturb   *)
(* it excepted.                                                            *)
THEOREM DeletedBanksForgotten == Spec => []DeletedBankForgotten
<1>1. IInv => DeletedBankForgotten
  <2> SUFFICES ASSUME IInv, AtRest
               PROVE  /\ \A c \in credentials : c.bank \in banks \union disturbed
                      /\ \A id \in Current : consents[id].bank \in banks \union disturbed
    BY DEF DeletedBankForgotten
  <2>1. \A v \in Workers : frame[v].op # "delete_bank"
    BY DEF AtRest, IInv, DeletionInv, Serving, Deleting
  <2>2. ASSUME NEW b \in Banks \ (banks \union disturbed)
        PROVE  (\A c \in credentials : c.bank # b) /\ Kept(b) = {}
    BY <2>1, <2>2 DEF IInv, ForgetInv, Clean, Deletes
  <2>3. \A c \in credentials : c.bank \in Banks
    BY DEF IInv, Typed, DataTyped, Credential
  <2>4. \A id \in Current : consents[id].bank \in Banks
    BY CurrentTyped DEF IInv, Typed, DataTyped, Consent
  <2> QED BY <2>2, <2>3, <2>4 DEF Kept
<1> QED BY <1>1, Invariance, PTL

=============================================================================
