------------------------------- MODULE Access -------------------------------
(***************************************************************************)
(* Logins, consents and the redirect flow: who may see which accounts.     *)
(*                                                                         *)
(* Credentials are rows of the database.  Sessions, consents and           *)
(* authorisation codes are Python objects that all worker threads share:   *)
(* a handler that has loaded a consent goes on assigning to it whatever    *)
(* other handlers do.  An action is one store or repository call, or one   *)
(* assignment another thread may observe.                                  *)
(***************************************************************************)
EXTENDS Naturals, Sequences, FiniteSets

CONSTANTS
  Banks, CustomerIds, AccountIds, Users,
  Tokens,      \* session tokens, new_id("sess"); naturals, as all ids below
  ConsentIds,  \* new_id("consent_")
  Codes,       \* new_id("code_")
  Workers,
  None,
  Seed,        \* banks, customers, credentials at start-up; holder of each account
  Scopes,      \* the accounts a TPP may ask for: sets of accounts
  ServedOps,   \* the requests an instance serves
  MaxRequests, \* bound: requests served and restarts in all
  MaxRestarts  \* bound: restarts of the process

Statuses == {"received", "valid", "terminatedByTpp"}

Customer == [id : CustomerIds, bank : Banks]
Credential == [bank : Banks, user : Users, customer : CustomerIds]
Consent == [bank : Banks, psu : Users \union {None}, scope : SUBSET AccountIds,
            customer : CustomerIds \union {None}, auth : BOOLEAN,
            allowed : (SUBSET AccountIds) \union {None}, status : Statuses]
OAuthCode == [bank : Banks, consent : ConsentIds, session : Tokens]

AccessOps ==
  {"create_customer", "register", "login", "logout", "create_consent", "start_sca",
   "finish_sca", "revoke", "accounts", "authorize", "token", "payment", "delete_bank"}

AccessLabels ==
  {"idle", "add_customer", "check_customer", "add_credential", "find_credential",
   "open_session", "add_consent", "load_consent", "consent_psu", "approve", "bind_customer",
   "narrow", "issue_code", "start", "verify_psu", "finalise", "terminate",
   "list_accounts", "scope", "match", "list", "drop_code", "add_payment",
   "remove_bank", "remove_customers", "purge_consents", "purging", "replace",
   "purge_payments", "purging_payments", "purge_credentials"}

ASSUME AccessAssumption ==
  /\ CustomerIds \union Tokens \union ConsentIds \union Codes \subseteq Nat
  /\ None \notin Banks \union CustomerIds \union AccountIds \union Users
       \union Tokens \union ConsentIds \union Codes
  /\ Seed.banks \subseteq Banks
  /\ Seed.customers \subseteq Customer
  /\ Seed.credentials \subseteq Credential
  /\ \A c \in Seed.credentials : c.bank \in Seed.banks
  /\ Seed.holder \in [AccountIds -> CustomerIds]
  /\ Scopes \subseteq SUBSET AccountIds
  /\ MaxRequests \in Nat /\ MaxRestarts \in Nat

VARIABLES
  banks,        \* ids of the rows of the banks table
  customers,    \* rows of the customers table
  credentials,  \* rows of the credentials table
  sessions,     \* token -> Session, of every session ever opened
  live,         \* the tokens InMemorySessionStore still has
  consents,     \* id -> Consent, of every consent object ever made
  stores,       \* the dicts InMemoryConsentStore has used: the last is current
  codes,        \* code -> OAuthCode: the dict oauth_codes
  issued,       \* ids handed out: none twice
  frame,        \* frame[w]: the request worker w is serving
  served,       \* requests begun so far, for the bound
  restarts,     \* restarts so far, for the bound
  payments,     \* how often a payment was put into the payment store
  registered,   \* history: every credential there ever was
  grants,       \* history: what customers agreed to
  shown,        \* history: what was listed under which consent
  redeemed,     \* history: how often each code was exchanged
  revoked,      \* history: the consents whose revocation was acknowledged
  late,         \* history: the consents added while a purge is about to replace their dict
  disturbed     \* history: the banks whose stores a deletion under way may have spoilt

history == <<registered, grants, shown, redeemed, revoked, late>>
counters == <<served, restarts, payments, disturbed>>
rows == <<banks, customers, credentials>>
objects == <<sessions, live, consents, stores, codes, issued>>
vars == <<banks, customers, credentials, sessions, live, consents, stores, codes, issued,
          frame, served, restarts, payments, registered, grants, shown, redeemed, revoked,
          late, disturbed>>

IdleFrame ==
  [op |-> "none", pc |-> "idle", bank |-> None, user |-> None, customer |-> None,
   consent |-> None, session |-> None, code |-> None, ticked |-> None,
   dict |-> 1, size |-> 0, kept |-> {}, todo |-> {}, seen |-> {}, bound |-> {}, half |-> FALSE]

Init ==
  /\ banks = Seed.banks
  /\ customers = Seed.customers
  /\ credentials = Seed.credentials
  /\ sessions = <<>> /\ live = {}
  /\ consents = <<>> /\ stores = <<{}>>
  /\ codes = <<>>
  /\ issued = {c.id : c \in Seed.customers}
  /\ frame = [w \in Workers |-> IdleFrame]
  /\ served = 0 /\ restarts = 0 /\ payments = 0
  /\ registered = Seed.credentials
  /\ grants = {} /\ shown = {}
  /\ redeemed = [c \in Codes |-> 0]
  /\ revoked = {} /\ late = {} /\ disturbed = {}

-----------------------------------------------------------------------------
(* Helpers *)

(* new_id: an id never returned before.  Which one makes no difference, so *)
(* the ids of a kind are handed out in order.                              *)
NewId(S) == {id \in S \ issued : \A x \in S \ issued : id <= x}

Extend(f, k, v) == [x \in DOMAIN f \union {k} |-> IF x = k THEN v ELSE f[x]]

Current == stores[Len(stores)]

Save(id) == stores' = [stores EXCEPT ![Len(stores)] = @ \union {id}]

Goto(w, label) == frame' = [frame EXCEPT ![w].pc = label]

End(w) == frame' = [frame EXCEPT ![w] = IdleFrame]

CustomersOf(b) == {c.id : c \in {x \in customers : x.bank = b}}

(* The accounts a customer holds, now or after the bank is gone. *)
Owned(cu) == {a \in AccountIds : Seed.holder[a] = cu}

(* _eligible_accounts *)
Eligible(b, cu) == IF cu \in CustomersOf(b) THEN Owned(cu) ELSE {}

(* Mutant: the accounts the PSU ticked are not looked at. *)
VisibleUnnarrowed(accounts, c) == accounts \intersect c.scope

(* The end of visible_accounts: what it has gathered, narrowed to the      *)
(* accounts ticked and to those the TPP asked for.                         *)
Visible(accounts, c) ==
  {a \in accounts \intersect c.scope : c.allowed # None => a \in c.allowed}

-----------------------------------------------------------------------------
(* The head of a request: the bank must exist. *)

ConsentWriters == {"start_sca", "finish_sca", "authorize", "revoke"}

(* What may meet the deletion of a bank badly: any request that adds a     *)
(* consent or a payment, those that write a consent or a credential of     *)
(* that bank, and those that put a consent back into the dict that is no   *)
(* longer there: one of a bank deleted before, or one that was late.       *)
Disturbs(f, deleted) ==
  \/ f.op \in {"create_consent", "payment"}
  \/ f.bank = deleted /\ f.op \in ConsentWriters \union {"create_customer", "register"}
  \/ f.bank \notin banks /\ f.op \in ConsentWriters
  \/ f.consent \in late /\ f.op \in ConsentWriters

(* The banks of which no more is said once worker w serves request f:      *)
(* those being deleted that it disturbs, or all when two deletions overlap. *)
Disturbed(w, f) ==
  LET others == {frame[v] : v \in Workers \ {w}}
      deletions == {g \in others : g.op = "delete_bank"} IN
  IF f.op = "delete_bank"
  THEN IF deletions # {} THEN Banks
       ELSE {f.bank : g \in {h \in others : Disturbs(h, f.bank)}}
  ELSE {g.bank : g \in {h \in deletions : Disturbs(f, h.bank)}}

(* The frame of a request that has just been accepted. *)
Request(op, label, b) == [IdleFrame EXCEPT !.op = op, !.pc = label, !.bank = b]

Accept(w, f) ==
  /\ frame[w].pc = "idle"
  /\ f.op \in ServedOps
  /\ f.bank \in banks
  /\ served < MaxRequests
  /\ served' = served + 1
  /\ disturbed' = disturbed \union Disturbed(w, f)
  /\ restarts' = restarts /\ payments' = payments

Begin(w, f) ==
  /\ Accept(w, f)
  /\ frame' = [frame EXCEPT ![w] = f]

BeginCreateCustomer(w) ==
  /\ \E b \in Banks, u \in Users :
       Begin(w, [Request("create_customer", "add_customer", b) EXCEPT !.user = u])
  /\ UNCHANGED <<rows, objects, history>>

BeginRegister(w) ==
  /\ \E b \in Banks, u \in Users, cu \in CustomerIds :
       Begin(w, [Request("register", "check_customer", b) EXCEPT !.user = u, !.customer = cu])
  /\ UNCHANGED <<rows, objects, history>>

BeginLogin(w) ==
  /\ \E b \in Banks, u \in Users :
       Begin(w, [Request("login", "find_credential", b) EXCEPT !.user = u])
  /\ UNCHANGED <<rows, objects, history>>

(* The bank-hosted page: the PSU may tick accounts or leave them all.      *)
BeginAuthorize(w) ==
  /\ \E b \in Banks, u \in Users, id \in DOMAIN consents,
        ticked \in {None} \union SUBSET AccountIds :
       Begin(w, [Request("authorize", "find_credential", b) EXCEPT
                   !.user = u, !.consent = id, !.ticked = ticked])
  /\ UNCHANGED <<rows, objects, history>>

(* start_authorisation, delete_consent and the account information calls.  *)
BeginConsentCall(w) ==
  /\ \E b \in Banks, id \in DOMAIN consents, op \in {"start_sca", "revoke", "accounts"} :
       Begin(w, [Request(op, "load_consent", b) EXCEPT !.consent = id])
  /\ UNCHANGED <<rows, objects, history>>

BeginFinishSca(w) ==
  /\ \E b \in Banks, id \in DOMAIN consents, t \in DOMAIN sessions :
       Begin(w, [Request("finish_sca", "load_consent", b) EXCEPT !.consent = id, !.session = t])
  /\ UNCHANGED <<rows, objects, history>>

BeginDeleteBank(w) ==
  /\ \E b \in Banks : Begin(w, Request("delete_bank", "remove_bank", b))
  /\ UNCHANGED <<rows, objects, history>>

BeginCreateConsent(w) ==
  /\ \E b \in Banks, psu \in Users \union {None}, scope \in Scopes :
       Begin(w, [Request("create_consent", "add_consent", b) EXCEPT
                   !.user = psu, !.ticked = scope])
  /\ UNCHANGED <<rows, objects, history>>

(* A call that puts a payment into the store: its initiation, or a later   *)
(* one that saves it after the store was purged.                           *)
BeginPayment(w) ==
  /\ \E b \in Banks : Begin(w, Request("payment", "add_payment", b))
  /\ UNCHANGED <<rows, objects, history>>

Logout(w) ==
  /\ \E b \in Banks, t \in live :
       /\ Accept(w, Request("logout", "idle", b))
       /\ live' = live \ {t}
  /\ UNCHANGED <<rows, sessions, consents, stores, codes, issued, frame, history>>

(* exchange_oauth_code: the record is looked up here and deleted in a      *)
(* later step.  (A code of another bank is refused.)                       *)
BeginToken(w) ==
  /\ \E b \in Banks, c \in DOMAIN codes :
       /\ codes[c].bank = b
       /\ Begin(w, [Request("token", "drop_code", b) EXCEPT
                      !.code = c, !.consent = codes[c].consent, !.session = codes[c].session])
  /\ UNCHANGED <<rows, objects, history>>

-----------------------------------------------------------------------------
(* Credentials and sessions *)

AddCustomer(w) ==
  /\ frame[w].pc = "add_customer"
  /\ \E id \in NewId(CustomerIds) :
       /\ customers' = customers \union {[id |-> id, bank |-> frame[w].bank]}
       /\ issued' = issued \union {id}
       /\ frame' = [frame EXCEPT ![w].customer = id, ![w].pc = "check_customer"]
  /\ UNCHANGED <<banks, credentials, sessions, live, consents, stores, codes, counters, history>>

(* create_customer resolves the auth provider, hence the bank, once more.  *)
CheckCustomer(w) ==
  LET f == frame[w]
      known == f.customer \in CustomersOf(f.bank) /\
               (f.op = "create_customer" => f.bank \in banks) IN
  /\ f.pc = "check_customer"
  /\ \/ known /\ Goto(w, "add_credential")
     \/ ~known /\ End(w)
  /\ UNCHANGED <<rows, objects, counters, history>>

(* SqlCredentialStore.add replaces the row of the same username.           *)
AddCredential(w) ==
  LET f == frame[w]
      new == [bank |-> f.bank, user |-> f.user, customer |-> f.customer] IN
  /\ f.pc = "add_credential"
  /\ credentials' =
       {c \in credentials : c.bank # f.bank \/ c.user # f.user} \union {new}
  /\ registered' = registered \union {new}
  /\ End(w)
  /\ UNCHANGED <<banks, customers, objects, counters, grants, shown, redeemed, revoked, late>>

(* authenticate: an unknown username or a wrong password ends the request. *)
FindCredential(w) ==
  LET f == frame[w] IN
  /\ f.pc = "find_credential"
  /\ \/ \E c \in credentials :
          /\ c.bank = f.bank /\ c.user = f.user
          /\ frame' = [frame EXCEPT ![w].customer = c.customer, ![w].pc = "open_session"]
     \/ End(w)
  /\ UNCHANGED <<rows, objects, counters, history>>

OpenSession(w) ==
  LET f == frame[w] IN
  /\ f.pc = "open_session"
  /\ \E t \in NewId(Tokens) :
       /\ sessions' = Extend(sessions, t,
            [bank |-> f.bank, user |-> f.user, customer |-> f.customer])
       /\ live' = live \union {t}
       /\ issued' = issued \union {t}
       /\ \/ f.op = "login" /\ End(w)
          \/ /\ f.op = "authorize"
             /\ frame' = [frame EXCEPT ![w].session = t, ![w].pc = "consent_psu"]
  /\ UNCHANGED <<rows, consents, stores, codes, counters, history>>

-----------------------------------------------------------------------------
(* The redirect flow: authorize, approve_consent, issue_oauth_code.        *)

InStore(f) == f.consent \in Current /\ consents[f.consent].bank = f.bank

PsuMatches(c, user) == c.psu = None \/ c.psu = user

(* Mutant: a consent that is valid already is not approved again. *)
ConsentPsuSkipsValid(w) ==
  LET f == frame[w]
      c == consents[f.consent] IN
  /\ f.pc = "consent_psu"
  /\ \/ ~(InStore(f) /\ PsuMatches(c, f.user)) /\ End(w)
     \/ /\ InStore(f) /\ PsuMatches(c, f.user)
        /\ frame' = [frame EXCEPT ![w].pc = IF c.status = "valid" THEN "issue_code" ELSE "approve",
                                  ![w].ticked = IF @ = None THEN None
                                                ELSE @ \intersect Eligible(f.bank, f.customer)]
  /\ UNCHANGED <<rows, objects, counters, history>>

(* What the PSU ticked is reduced to accounts the PSU holds.               *)
ConsentPsu(w) ==
  LET f == frame[w]
      c == consents[f.consent] IN
  /\ f.pc = "consent_psu"
  /\ \/ ~(InStore(f) /\ PsuMatches(c, f.user)) /\ End(w)
     \/ /\ InStore(f) /\ PsuMatches(c, f.user)
        /\ frame' = [frame EXCEPT ![w].pc = "approve",
                                  ![w].ticked = IF @ = None THEN None
                                                ELSE @ \intersect Eligible(f.bank, f.customer)]
  /\ UNCHANGED <<rows, objects, counters, history>>

Grant(f, cu, accounts) ==
  grants' = grants \union {[consent |-> f.consent, customer |-> cu, accounts |-> accounts]}

(* approve_consent assigns the status first, then the customer, then the   *)
(* accounts ticked.                                                        *)
Approve(w) ==
  LET f == frame[w] IN
  /\ f.pc = "approve"
  /\ \/ ~InStore(f) /\ End(w) /\ UNCHANGED <<consents, grants>>
     \/ /\ InStore(f)
        /\ consents' = [consents EXCEPT ![f.consent].auth = TRUE,
                                        ![f.consent].status = "valid"]
        /\ Grant(f, f.customer, IF f.ticked = None THEN Owned(f.customer) ELSE f.ticked)
        /\ Goto(w, "bind_customer")
  /\ UNCHANGED <<rows, sessions, live, stores, codes, issued, counters,
                 registered, shown, redeemed, revoked, late>>

BindCustomer(w) ==
  LET f == frame[w] IN
  /\ f.pc = "bind_customer"
  /\ consents' = [consents EXCEPT ![f.consent].customer = f.customer]
  /\ Goto(w, "narrow")
  /\ UNCHANGED <<rows, sessions, live, stores, codes, issued, counters, history>>

Narrow(w) ==
  LET f == frame[w] IN
  /\ f.pc = "narrow"
  /\ consents' = [consents EXCEPT ![f.consent].allowed = IF f.ticked = None THEN @ ELSE f.ticked]
  /\ Save(f.consent)
  /\ Goto(w, "issue_code")
  /\ UNCHANGED <<rows, sessions, live, codes, issued, counters, history>>

IssueCode(w) ==
  LET f == frame[w] IN
  /\ f.pc = "issue_code"
  /\ \E c \in NewId(Codes) :
       /\ codes' = Extend(codes, c,
            [bank |-> f.bank, consent |-> f.consent, session |-> f.session])
       /\ issued' = issued \union {c}
  /\ End(w)
  /\ UNCHANGED <<rows, sessions, live, consents, stores, counters, history>>

(* Mutant: a code that is gone already is not noticed. *)
DropCodeIfThere(w) ==
  LET f == frame[w] IN
  /\ f.pc = "drop_code"
  /\ codes' = [c \in DOMAIN codes \ {f.code} |-> codes[c]]
  /\ redeemed' = [redeemed EXCEPT ![f.code] = @ + 1]
  /\ End(w)
  /\ UNCHANGED <<rows, sessions, live, consents, stores, issued, counters,
                 registered, grants, shown, revoked, late>>

(* del of a key that is gone raises KeyError, and no token is returned.    *)
DropCode(w) ==
  LET f == frame[w] IN
  /\ f.pc = "drop_code"
  /\ \/ f.code \notin DOMAIN codes /\ UNCHANGED <<codes, redeemed>>
     \/ /\ f.code \in DOMAIN codes
        /\ codes' = [c \in DOMAIN codes \ {f.code} |-> codes[c]]
        /\ redeemed' = [redeemed EXCEPT ![f.code] = @ + 1]
  /\ End(w)
  /\ UNCHANGED <<rows, sessions, live, consents, stores, issued, counters,
                 registered, grants, shown, revoked, late>>

-----------------------------------------------------------------------------
(* The Berlin Group consent calls: all but the first load the consent.     *)

AddConsent(w) ==
  LET f == frame[w] IN
  /\ f.pc = "add_consent"
  /\ \E id \in NewId(ConsentIds) :
       /\ consents' = Extend(consents, id,
            [bank |-> f.bank, psu |-> f.user, scope |-> f.ticked, customer |-> None,
             auth |-> FALSE, allowed |-> None, status |-> "received"])
       /\ Save(id)
       /\ issued' = issued \union {id}
       /\ late' = IF \E v \in Workers : frame[v].pc = "replace" THEN late \union {id} ELSE late
  /\ End(w)
  /\ UNCHANGED <<rows, sessions, live, codes, counters,
                 registered, grants, shown, redeemed, revoked>>

LoadConsent(w) ==
  LET f == frame[w]
      c == consents[f.consent]
      accepted == /\ InStore(f)
                  /\ f.op = "finish_sca" => c.auth
                  /\ f.op = "accounts" => c.status = "valid" IN
  /\ f.pc = "load_consent"
  /\ \/ ~accepted /\ End(w)
     \/ accepted /\ \/ f.op = "start_sca" /\ Goto(w, "start")
                    \/ f.op = "finish_sca" /\ Goto(w, "verify_psu")
                    \/ f.op = "revoke" /\ Goto(w, "terminate")
                    \/ f.op = "accounts" /\ Goto(w, "list_accounts")
  /\ UNCHANGED <<rows, objects, counters, history>>

StartSca(w) ==
  LET f == frame[w] IN
  /\ f.pc = "start"
  /\ consents' = [consents EXCEPT ![f.consent].auth = TRUE]
  /\ Save(f.consent)
  /\ End(w)
  /\ UNCHANGED <<rows, sessions, live, codes, issued, counters, history>>

(* Mutant: the PSU the consent names is not compared with the session's. *)
VerifyPsuAnyone(w) ==
  LET f == frame[w]
      s == sessions[f.session] IN
  /\ f.pc = "verify_psu"
  /\ \/ ~(f.session \in live /\ s.bank = f.bank /\ f.bank \in banks)
        /\ End(w) /\ UNCHANGED <<consents, grants>>
     \/ /\ f.session \in live /\ s.bank = f.bank /\ f.bank \in banks
        /\ consents' = [consents EXCEPT ![f.consent].customer = s.customer]
        /\ Grant(f, s.customer, Owned(s.customer))
        /\ Goto(w, "finalise")
  /\ UNCHANGED <<rows, sessions, live, stores, codes, issued, counters,
                 registered, shown, redeemed, revoked, late>>

(* verify_psu: a live session of this bank, of the PSU the consent names.  *)
VerifyPsu(w) ==
  LET f == frame[w]
      s == sessions[f.session]
      accepted == /\ f.session \in live /\ s.bank = f.bank /\ f.bank \in banks
                  /\ PsuMatches(consents[f.consent], s.user) IN
  /\ f.pc = "verify_psu"
  /\ \/ ~accepted /\ End(w) /\ UNCHANGED <<consents, grants>>
     \/ /\ accepted
        /\ consents' = [consents EXCEPT ![f.consent].customer = s.customer]
        /\ Grant(f, s.customer, Owned(s.customer))
        /\ Goto(w, "finalise")
  /\ UNCHANGED <<rows, sessions, live, stores, codes, issued, counters,
                 registered, shown, redeemed, revoked, late>>

(* Whatever the consent's status was. *)
Finalise(w) ==
  LET f == frame[w] IN
  /\ f.pc = "finalise"
  /\ consents' = [consents EXCEPT ![f.consent].status = "valid"]
  /\ Save(f.consent)
  /\ End(w)
  /\ UNCHANGED <<rows, sessions, live, codes, issued, counters, history>>

Terminate(w) ==
  LET f == frame[w] IN
  /\ f.pc = "terminate"
  /\ consents' = [consents EXCEPT ![f.consent].status = "terminatedByTpp"]
  /\ Save(f.consent)
  /\ revoked' = revoked \union {f.consent}
  /\ End(w)
  /\ UNCHANGED <<rows, sessions, live, codes, issued, counters,
                 registered, grants, shown, redeemed, late>>

(* History: its approval is between its first and its last assignment.     *)
HalfApproved(id) ==
  \E v \in Workers : frame[v].consent = id /\ frame[v].pc \in {"bind_customer", "narrow"}

(* visible_accounts reads the bank's customer accounts, and then the       *)
(* consent over and over, whatever it has become since it was loaded:      *)
(* first whether it is bound to a customer at all,                         *)
ListAccounts(w) ==
  LET f == frame[w] IN
  /\ f.pc = "list_accounts"
  /\ frame' = [frame EXCEPT
       ![w].todo = {a \in AccountIds : Seed.holder[a] \in CustomersOf(f.bank)},
       ![w].seen = {}, ![w].bound = {}, ![w].pc = "scope"]
  /\ UNCHANGED <<rows, objects, counters, history>>

ScopeToCustomer(w) ==
  LET f == frame[w]
      half == HalfApproved(f.consent)
      all == consents[f.consent].customer = None \/ f.todo = {} IN
  /\ f.pc = "scope"
  /\ \/ /\ all
        /\ frame' = [frame EXCEPT ![w].seen = f.todo, ![w].half = half, ![w].pc = "list"]
     \/ /\ ~all
        /\ frame' = [frame EXCEPT ![w].half = half, ![w].pc = "match"]
  /\ UNCHANGED <<rows, objects, counters, history>>

(* then, for each of the accounts, to which customer,                      *)
MatchCustomer(w) ==
  LET f == frame[w]
      customer == consents[f.consent].customer IN
  /\ f.pc = "match"
  /\ \E a \in f.todo :
       frame' = [frame EXCEPT
         ![w].todo = f.todo \ {a},
         ![w].seen = IF Seed.holder[a] = customer THEN f.seen \union {a} ELSE f.seen,
         ![w].bound = f.bound \union {customer},
         ![w].half = f.half \/ HalfApproved(f.consent),
         ![w].pc = IF f.todo = {a} THEN "list" ELSE "match"]
  /\ UNCHANGED <<rows, objects, counters, history>>

(* and last the accounts ticked.  The bank is looked up for its country,   *)
(* where there is anything to show.                                        *)
List(w) ==
  LET f == frame[w]
      listed == Visible(f.seen, consents[f.consent]) IN
  /\ f.pc = "list"
  /\ \/ f.bank \notin banks /\ UNCHANGED shown
     \/ /\ f.bank \in banks \/ listed = {}
        /\ shown' = shown \union {[consent |-> f.consent, accounts |-> listed,
                                   customers |-> f.bound,
                                   half |-> f.half \/ HalfApproved(f.consent)]}
  /\ End(w)
  /\ UNCHANGED <<rows, objects, counters, registered, grants, redeemed, revoked, late>>

-----------------------------------------------------------------------------
(* The payment store, of which only its growth matters here. *)

AddPayment(w) ==
  /\ frame[w].pc = "add_payment"
  /\ payments' = payments + 1
  /\ End(w)
  /\ UNCHANGED <<rows, objects, served, restarts, disturbed, history>>

-----------------------------------------------------------------------------
(* delete_bank, over every store that has to do with access.               *)

RemoveBank(w) ==
  /\ frame[w].pc = "remove_bank"
  /\ banks' = banks \ {frame[w].bank}
  /\ Goto(w, "remove_customers")
  /\ UNCHANGED <<customers, credentials, objects, counters, history>>

RemoveCustomers(w) ==
  /\ frame[w].pc = "remove_customers"
  /\ customers' = {c \in customers : c.bank # frame[w].bank}
  /\ Goto(w, "purge_consents")
  /\ UNCHANGED <<banks, credentials, objects, counters, history>>

(* InMemoryConsentStore.purge iterates over the dict of the moment, which  *)
(* builds a new dict, and then puts that in its place.  The iteration      *)
(* raises RuntimeError, and the request fails, when a dict that was not    *)
(* empty grew meanwhile.                                                   *)
PurgeConsents(w) ==
  /\ frame[w].pc = "purge_consents"
  /\ frame' = [frame EXCEPT ![w].dict = Len(stores), ![w].size = Cardinality(Current),
                            ![w].pc = "purging"]
  /\ UNCHANGED <<rows, objects, counters, history>>

(* Mutant: the bank is not compared. *)
KeepOthersNone(w) ==
  /\ frame[w].pc = "purging"
  /\ frame' = [frame EXCEPT ![w].kept = {}, ![w].pc = "replace"]
  /\ UNCHANGED <<rows, objects, counters, history>>

KeepOthers(w) ==
  LET f == frame[w]
      grown == f.size > 0 /\ Cardinality(stores[f.dict]) # f.size IN
  /\ f.pc = "purging"
  /\ \/ grown /\ End(w)
     \/ /\ ~grown
        /\ frame' = [frame EXCEPT
             ![w].kept = {id \in stores[f.dict] : consents[id].bank # f.bank},
             ![w].pc = "replace"]
  /\ UNCHANGED <<rows, objects, counters, history>>

Purged(w) ==
  /\ frame[w].pc = "replace"
  /\ stores' = Append(stores, frame[w].kept)
  /\ Goto(w, "purge_payments")
  /\ UNCHANGED <<rows, sessions, live, consents, codes, issued, counters, history>>

(* InMemoryPaymentStore.purge is the same over the payments of all banks:  *)
(* a payment put into the store meanwhile makes it raise, but for one put  *)
(* into an empty dict.                                                     *)
PurgePayments(w) ==
  /\ frame[w].pc = "purge_payments"
  /\ frame' = [frame EXCEPT ![w].size = payments, ![w].pc = "purging_payments"]
  /\ UNCHANGED <<rows, objects, counters, history>>

PaymentsPurged(w) ==
  /\ frame[w].pc = "purging_payments"
  /\ \/ frame[w].size # payments /\ End(w)
     \/ Goto(w, "purge_credentials")
  /\ UNCHANGED <<rows, objects, counters, history>>

(* Mutant: the credentials are forgotten. *)
PurgeNoCredentials(w) ==
  /\ frame[w].pc = "purge_credentials"
  /\ End(w)
  /\ UNCHANGED <<rows, objects, counters, history>>

PurgeCredentials(w) ==
  /\ frame[w].pc = "purge_credentials"
  /\ credentials' = {c \in credentials : c.bank # frame[w].bank}
  /\ End(w)
  /\ UNCHANGED <<banks, customers, objects, counters, history>>

-----------------------------------------------------------------------------

(* A new process finds the rows and nothing else; the requests under way   *)
(* are lost wherever they were, a deletion among them.                     *)
Restart ==
  /\ restarts < MaxRestarts /\ restarts' = restarts + 1
  /\ served < MaxRequests /\ served' = served + 1
  /\ frame' = [w \in Workers |-> IdleFrame]
  /\ live' = {}
  /\ stores' = <<{}>>
  /\ codes' = <<>>
  /\ disturbed' = disturbed \union
       {frame[w].bank : w \in {v \in Workers : frame[v].op = "delete_bank"}}
  /\ UNCHANGED <<rows, sessions, consents, issued, payments, history>>

Accepts(w) ==
  \/ BeginCreateCustomer(w) \/ BeginRegister(w) \/ BeginLogin(w) \/ BeginAuthorize(w)
  \/ BeginConsentCall(w) \/ BeginFinishSca(w) \/ BeginToken(w) \/ BeginDeleteBank(w)
  \/ BeginCreateConsent(w) \/ BeginPayment(w) \/ Logout(w)

Works(w) ==
  \/ AddCustomer(w) \/ CheckCustomer(w) \/ AddCredential(w)
  \/ FindCredential(w) \/ OpenSession(w)
  \/ ConsentPsu(w) \/ Approve(w) \/ BindCustomer(w) \/ Narrow(w) \/ IssueCode(w) \/ DropCode(w)
  \/ AddConsent(w) \/ LoadConsent(w) \/ StartSca(w) \/ VerifyPsu(w) \/ Finalise(w) \/ Terminate(w)
  \/ ListAccounts(w) \/ ScopeToCustomer(w) \/ MatchCustomer(w) \/ List(w) \/ AddPayment(w)
  \/ RemoveBank(w) \/ RemoveCustomers(w) \/ PurgeConsents(w) \/ KeepOthers(w) \/ Purged(w)
  \/ PurgePayments(w) \/ PaymentsPurged(w) \/ PurgeCredentials(w)

(* The requests are used up, or no bank is left to ask, and every worker   *)
(* is idle: the only place where this specification may stop.              *)
AllServed ==
  /\ served = MaxRequests \/ banks = {}
  /\ \A w \in Workers : frame[w].pc = "idle"
  /\ UNCHANGED vars

Next == AllServed \/ Restart \/ \E w \in Workers : Accepts(w) \/ Works(w)

Spec == Init /\ [][Next]_vars

-----------------------------------------------------------------------------
(* Properties *)

Frame ==
  [op : AccessOps \union {"none"}, pc : AccessLabels, bank : Banks \union {None},
   user : Users \union {None}, customer : CustomerIds \union {None},
   consent : ConsentIds \union {None}, session : Tokens \union {None},
   code : Codes \union {None}, ticked : (SUBSET AccountIds) \union {None},
   dict : Nat, size : Nat, kept : SUBSET ConsentIds, todo : SUBSET AccountIds,
   seen : SUBSET AccountIds, bound : SUBSET (CustomerIds \union {None}), half : BOOLEAN]

(* Every row, object and frame is of its type. *)
TypeOK ==
  /\ banks \subseteq Banks
  /\ customers \subseteq Customer
  /\ credentials \subseteq Credential
  /\ DOMAIN sessions \subseteq Tokens
  /\ \A t \in DOMAIN sessions : sessions[t] \in Credential
  /\ live \subseteq DOMAIN sessions
  /\ DOMAIN consents \subseteq ConsentIds
  /\ \A id \in DOMAIN consents : consents[id] \in Consent
  /\ stores \in Seq(SUBSET DOMAIN consents)
  /\ DOMAIN codes \subseteq Codes
  /\ \A c \in DOMAIN codes : codes[c] \in OAuthCode
  /\ issued \subseteq CustomerIds \union Tokens \union ConsentIds \union Codes
  /\ frame \in [Workers -> Frame]
  /\ redeemed \in [Codes -> Nat]
  /\ payments \in Nat

AtRest == \A w \in Workers : frame[w].pc = "idle"

(* An authorisation code is exchanged at most once, however many exchanges *)
(* have looked it up before one of them deletes it.                        *)
CodeRedeemedOnce == \A c \in Codes : redeemed[c] <= 1

(* A code is only ever about a consent that the customer whose session it  *)
(* carries has agreed to.                                                  *)
CodesAreGranted ==
  \A c \in DOMAIN codes : \E g \in grants :
    g.consent = codes[c].consent /\ g.customer = sessions[codes[c].session].customer

(* A consent that names its PSU is only ever bound to a customer that PSU  *)
(* has been the login of.                                                  *)
PsuBound ==
  \A id \in DOMAIN consents :
    LET c == consents[id] IN
    c.psu # None /\ c.customer # None =>
      [bank |-> c.bank, user |-> c.psu, customer |-> c.customer] \in registered

(* Every account listed under a consent, the customer it belongs to agreed *)
(* to show; and all that is listed is within one customer's accounts and,  *)
(* if that customer ticked accounts, within those, unless the listing      *)
(* found the consent bound to one customer at one account and to another   *)
(* at the next.  A listing that finds the consent between the assignments  *)
(* of its approval is excepted.                                            *)
ShownWasGranted ==
  \A s \in shown :
    ~s.half =>
      /\ \A a \in s.accounts : \E g \in grants : g.consent = s.consent /\ a \in g.accounts
      /\ (\A c, d \in s.customers : c = d) =>
           \E g \in grants : g.consent = s.consent /\ s.accounts \subseteq g.accounts

(* Once no request is in flight, nothing that lets anyone in is left of a  *)
(* deleted bank: no login in the table, no consent in the store.  Only a   *)
(* deletion that a restart cut short, or that ran next to another deletion *)
(* or to a request that writes there, adds a consent or a payment or puts  *)
(* a lost consent back, may leave something.                               *)
DeletedBankForgotten ==
  AtRest => /\ \A c \in credentials : c.bank \in banks \union disturbed
            /\ \A id \in Current : consents[id].bank \in banks \union disturbed

(* A consent stays in the store for as long as its bank is open and the    *)
(* process runs, whatever is deleted meanwhile: what may be lost is one    *)
(* that is added while a purge has built its new dict and not yet put it   *)
(* in place, and any when two deletions overlap.                           *)
ConsentsKept ==
  [][restarts' = restarts =>
       \A id \in Current \ late :
         consents[id].bank \in banks' \ disturbed' => id \in Current']_vars

(* A consent whose revocation was acknowledged is never valid again.       *)
RevokedStaysRevoked == \A id \in revoked : consents[id].status # "valid"

=============================================================================
