----------------------------- MODULE Population -----------------------------
(***************************************************************************)
(* The people of a bank: customers created one by one or in batches, with  *)
(* accounts whose types are drawn by weights, and the login each of them   *)
(* gets; and what a restart of the process does to them.                   *)
(*                                                                         *)
(* There is one bank.  Its deletion is one step here; Ledger and Access    *)
(* have its parts.                                                         *)
(***************************************************************************)
EXTENDS Integers, FiniteSets, SequencesExt

CONSTANTS
  Personas,    \* persona ids
  Supported,   \* supported_customer_types of the bank
  Names,       \* what random_full_name may return, as it ends up in an e-mail address
  Batches,     \* the bodies of batch requests: [count, personas, types, each], where
               \* personas and types are weights, natural numbers, and each is
               \* accounts_per_customer
  ManualEmails,\* the addresses clients give
  GivenUsernames, \* the usernames clients give that could be an address
  Workers, None,
  MaxRequests, MaxRestarts   \* bounds

(* An address; "example" is whether its domain is example.com. *)
Emails == [name : Names, nr : Nat, example : BOOLEAN]

InternalTypes == {"internal", "nostro", "vostro", "settlement"}
AccountTypes == {"current", "savings", "credit_card", "loan"} \union InternalTypes

(* The pool for batches: list(AccountType) without INTERNAL. *)
TypePool == AccountTypes \ {"internal"}

ASSUME PopulationAssumption ==
  /\ Supported # {} /\ Supported \subseteq Personas
  /\ \A b \in Batches :
       /\ b.count \in Nat \ {0}
       /\ b.personas \in [DOMAIN b.personas -> Nat] /\ DOMAIN b.personas \subseteq Supported
       /\ b.types \in [DOMAIN b.types -> Nat] /\ DOMAIN b.types \subseteq TypePool
       /\ b.each \in 1..5 \union {None}
  /\ ManualEmails \subseteq Emails /\ GivenUsernames \subseteq Emails
  /\ MaxRequests \in Nat /\ MaxRestarts \in Nat

VARIABLES
  exists,     \* the bank does
  customers,  \* id -> row
  accounts,   \* rows: [customer, nr, type]
  logins,     \* username -> customer
  issued,     \* customer ids handed out: 1..issued
  frame,      \* frame[w]: what worker w is doing
  batches,    \* history: the batches begun
  registered, \* history: the registrations made, [username, customer]
  raised,     \* history: the customers of batches whose registration raised
  served, restarts

people == <<exists, customers, accounts, logins, issued>>
history == <<batches, registered, raised>>
vars == <<people, frame, history, served, restarts>>

IdleFrame == [pc |-> "idle", batch |-> 0, rows |-> <<>>, next |-> 0]

Init ==
  /\ exists = TRUE
  /\ customers = <<>> /\ accounts = {} /\ logins = <<>> /\ issued = 0
  /\ frame = [w \in Workers |-> IdleFrame]
  /\ batches = <<>> /\ registered = {} /\ raised = {}
  /\ served = 0 /\ restarts = 0

-----------------------------------------------------------------------------
(* What is drawn *)

Positive(weights) == {k \in DOMAIN weights : weights[k] > 0}

(* _weighted_choice: an error, so nothing, if all weights are zero. *)
WeightedChoices(weights, pool) == IF DOMAIN weights = {} THEN pool ELSE Positive(weights)

Total(weights) == FoldFunction(+, 0, weights)

(* The types that follow the first: the share in per cent from which on,   *)
(* and for whom.                                                           *)
Additions ==
  <<[type |-> "current", share |-> 20, personas |-> Personas],
    [type |-> "savings", share |-> 18, personas |-> Personas],
    [type |-> "credit_card", share |-> 16,
     personas |-> {"student", "gig_worker", "young_professional", "affluent_family"}],
    [type |-> "loan", share |-> 12, personas |-> {"young_professional", "affluent_family"}]>>

MaxAccounts(persona) == IF persona \in {"young_professional", "affluent_family"} THEN 3 ELSE 2

(* Mutant: adds a type the customer has. *)
MaybeAddAgain(types, add, persona, weights) ==
  LET fits == /\ add.type \in Positive(weights)
              /\ Len(types) < MaxAccounts(persona)
              /\ persona \in add.personas
              /\ 100 * weights[add.type] >= add.share * Total(weights) IN
  IF fits THEN Append(types, add.type) ELSE types

(* maybe_add *)
MaybeAdd(types, add, persona, weights) ==
  LET fits == /\ add.type \notin ToSet(types)
              /\ add.type \in Positive(weights)
              /\ Len(types) < MaxAccounts(persona)
              /\ persona \in add.personas
              /\ 100 * weights[add.type] >= add.share * Total(weights) IN
  IF fits THEN Append(types, add.type) ELSE types

(* _derived_account_types_for_customer: the four of Additions, in turn *)
DerivedTypes(persona, weights) ==
  LET add(types, n) == MaybeAdd(types, Additions[n], persona, weights) IN
  IF Positive(weights) = {} THEN {<<"current">>}
  ELSE {add(add(add(add(<<first>>, 1), 2), 3), 4) : first \in Positive(weights)}

TypesFor(persona, batch) ==
  IF batch.each = None THEN DerivedTypes(persona, batch.types)
  ELSE IF DOMAIN batch.types = {} THEN {[i \in 1..batch.each |-> "current"]}
  ELSE [1..batch.each -> Positive(batch.types)]

(* What the i-th customer of a batch may be. *)
Candidates(batch, i) ==
  UNION {{[email |-> [name |-> n, nr |-> i, example |-> TRUE], source |-> "batch",
           persona |-> p, types |-> ts] : n \in Names, ts \in TypesFor(p, batch)} :
         p \in WeightedChoices(batch.personas, Supported)}

Draws(batch) ==
  {rows \in [1..batch.count -> UNION {Candidates(batch, i) : i \in 1..batch.count}] :
     \A i \in 1..batch.count : rows[i] \in Candidates(batch, i)}

-----------------------------------------------------------------------------
(* Requests *)

Begins(w) ==
  /\ frame[w].pc = "idle"
  /\ served < MaxRequests
  /\ served' = served + 1

(* batch_create_customers up to the point where everything is persisted.   *)
(* A request whose weights cannot be drawn from fails and changes nothing. *)
BeginBatch(w) ==
  /\ Begins(w) /\ exists
  /\ \E b \in Batches : \E rows \in Draws(b) :
       /\ frame' = [frame EXCEPT ![w] = [pc |-> "commit", batch |-> Len(batches) + 1,
                                         rows |-> rows, next |-> 1]]
       /\ batches' = Append(batches, [body |-> b, rows |-> rows, first |-> issued + 1,
                                      done |-> FALSE])
       /\ issued' = issued + b.count
  /\ UNCHANGED <<exists, customers, accounts, logins, registered, raised, restarts>>

Row(r) == [email |-> r.email, source |-> r.source, persona |-> r.persona]

IdOf(w, i) == batches[frame[w].batch].first + i - 1

RowAt(w, id) == frame[w].rows[id - IdOf(w, 1) + 1]

AddCustomers(w) ==
  LET ids == IdOf(w, 1)..IdOf(w, Len(frame[w].rows)) IN
  customers' = [id \in DOMAIN customers \union ids |->
                  IF id \in ids THEN Row(RowAt(w, id)) ELSE customers[id]]

AccountsOf(w) ==
  UNION {{[customer |-> IdOf(w, i), nr |-> n, type |-> frame[w].rows[i].types[n]] :
          n \in DOMAIN frame[w].rows[i].types} : i \in DOMAIN frame[w].rows}

Goto(w, label) == frame' = [frame EXCEPT ![w].pc = label]

(* Mutant: each customer with the first of the accounts. *)
CommitFirst(w) ==
  /\ frame[w].pc = "commit"
  /\ AddCustomers(w)
  /\ accounts' = accounts \union {a \in AccountsOf(w) : a.nr = 1}
  /\ Goto(w, "provider")
  /\ UNCHANGED <<exists, logins, issued, history, served, restarts>>

(* add_customers_and_accounts_bulk, one transaction; it does not look      *)
(* whether there still is a bank.                                          *)
Commit(w) ==
  /\ frame[w].pc = "commit"
  /\ AddCustomers(w)
  /\ accounts' = accounts \union AccountsOf(w)
  /\ Goto(w, "provider")
  /\ UNCHANGED <<exists, logins, issued, history, served, restarts>>

(* resolve_auth_provider reads the bank. *)
Provider(w) ==
  /\ frame[w].pc = "provider"
  /\ \/ exists /\ Goto(w, "register")
     \/ ~exists /\ frame' = [frame EXCEPT ![w] = IdleFrame]
  /\ UNCHANGED <<people, history, served, restarts>>

LoggedIn(username, id) ==
  [u \in DOMAIN logins \union {username} |-> IF u = username THEN id ELSE logins[u]]

(* register: the credential of that username, if there is one, is replaced. *)
Registers(username, id) ==
  /\ logins' = LoggedIn(username, id)
  /\ registered' = registered \union {[username |-> username, customer |-> id]}

(* Mutant: the last customer of the batch is left out. *)
RegisterButLast(w) ==
  LET f == frame[w] IN
  /\ f.pc = "register" /\ f.next <= Len(f.rows)
  /\ IF f.next < Len(f.rows) THEN Registers(f.rows[f.next].email, IdOf(w, f.next))
     ELSE UNCHANGED <<logins, registered>>
  /\ frame' = [frame EXCEPT ![w].next = @ + 1]
  /\ UNCHANGED <<exists, customers, accounts, issued, batches, raised, served, restarts>>

(* The customers of the batch in turn.  Whatever registering one raises    *)
(* (the store may be locked) is swallowed.                                 *)
Register(w) ==
  LET f == frame[w]
      id == IdOf(w, f.next) IN
  /\ f.pc = "register" /\ f.next <= Len(f.rows)
  /\ \/ Registers(f.rows[f.next].email, id) /\ UNCHANGED raised
     \/ raised' = raised \union {id} /\ UNCHANGED <<logins, registered>>
  /\ frame' = [frame EXCEPT ![w].next = @ + 1]
  /\ UNCHANGED <<exists, customers, accounts, issued, batches, served, restarts>>

Acknowledge(w) ==
  LET f == frame[w] IN
  /\ f.pc = "register" /\ f.next > Len(f.rows)
  /\ batches' = [batches EXCEPT ![f.batch].done = TRUE]
  /\ frame' = [frame EXCEPT ![w] = IdleFrame]
  /\ UNCHANGED <<people, registered, raised, served, restarts>>

(* create_customer: one step, as seen from here.  The username is the one  *)
(* given, or else the address.                                             *)
CreateCustomer(w) ==
  /\ Begins(w) /\ exists
  /\ \E email \in ManualEmails, p \in Personas \union {None},
       given \in GivenUsernames \union {None} :
       /\ customers' = [id \in DOMAIN customers \union {issued + 1} |->
            IF id = issued + 1 THEN [email |-> email, source |-> "manual", persona |-> p]
            ELSE customers[id]]
       /\ Registers(IF given = None THEN email ELSE given, issued + 1)
  /\ issued' = issued + 1
  /\ UNCHANGED <<exists, accounts, frame, batches, raised, restarts>>

(* POST /auth/credentials: any username, for any customer there is; one    *)
(* step, too.                                                              *)
RegisterCredential(w) ==
  /\ Begins(w) /\ exists
  /\ \E id \in DOMAIN customers, username \in GivenUsernames : Registers(username, id)
  /\ UNCHANGED <<exists, customers, accounts, issued, frame, batches, raised, restarts>>

DeleteBank ==
  /\ exists
  /\ exists' = FALSE
  /\ customers' = <<>> /\ accounts' = {} /\ logins' = <<>>
  /\ UNCHANGED <<issued, frame, history, served, restarts>>

(* The process ends and starts again.  init_db takes every customer with   *)
(* an example.com address for one from a batch.                            *)
Restart ==
  /\ restarts < MaxRestarts
  /\ restarts' = restarts + 1
  /\ frame' = [w \in Workers |-> IdleFrame]
  /\ customers' = [id \in DOMAIN customers |->
       IF customers[id].email.example THEN [customers[id] EXCEPT !.source = "batch"]
       ELSE customers[id]]
  /\ UNCHANGED <<exists, accounts, logins, issued, history, served>>

Handles(w) ==
  \/ BeginBatch(w) \/ Commit(w) \/ Provider(w) \/ Register(w) \/ Acknowledge(w)
  \/ CreateCustomer(w) \/ RegisterCredential(w)

Next == DeleteBank \/ Restart \/ \E w \in Workers : Handles(w)

Spec == Init /\ [][Next]_vars

-----------------------------------------------------------------------------
(* Properties *)

(* Variables are of their types, and every account and login is that of a  *)
(* customer whose id was handed out.                                       *)
TypeOK ==
  /\ exists \in BOOLEAN
  /\ DOMAIN customers \subseteq 1..issued
  /\ \A id \in DOMAIN customers :
       customers[id] \in [email : Emails, source : {"manual", "batch"},
                          persona : Personas \union {None}]
  /\ accounts \subseteq [customer : 1..issued, nr : 1..5, type : AccountTypes]
  /\ DOMAIN logins \subseteq Emails
  /\ \A u \in DOMAIN logins : logins[u] \in 1..issued
  /\ \A w \in Workers : frame[w].pc \in {"idle", "commit", "provider", "register"}
  /\ served \in 0..MaxRequests /\ restarts \in 0..MaxRestarts

(* At any moment, also after a crash or a deletion, the tables hold a      *)
(* batch with all its customers and all their accounts, or nothing of it.  *)
BatchIsWhole ==
  \A b \in DOMAIN batches :
    LET rows == batches[b].rows
        id(i) == batches[b].first + i - 1
        stored(i) == /\ id(i) \in DOMAIN customers
                     /\ \A n \in DOMAIN rows[i].types :
                          [customer |-> id(i), nr |-> n, type |-> rows[i].types[n]] \in accounts
        absent(i) == /\ id(i) \notin DOMAIN customers
                     /\ \A a \in accounts : a.customer # id(i) IN
    (\A i \in DOMAIN rows : stored(i)) \/ (\A i \in DOMAIN rows : absent(i))

TypesOf(id) == {a.type : a \in {x \in accounts : x.customer = id}}
CountOf(id) == Cardinality({a \in accounts : a.customer = id})

(* Whatever is drawn: a customer of a batch is of a persona the bank       *)
(* supports, and derived accounts are at least one and at most what the    *)
(* persona may have, no two of a type, and of types that have a weight.    *)
SelectionsFit ==
  \A b \in DOMAIN batches : \A i \in DOMAIN batches[b].rows :
    LET id == batches[b].first + i - 1
        body == batches[b].body IN
    id \in DOMAIN customers =>
      /\ customers[id].persona \in Supported
      /\ body.each = None =>
           /\ CountOf(id) \in 1..MaxAccounts(customers[id].persona)
           /\ Cardinality(TypesOf(id)) = CountOf(id)
           /\ TypesOf(id) \subseteq Positive(body.types) \union
                (IF Positive(body.types) = {} THEN {"current"} ELSE {})
      /\ body.each # None => CountOf(id) = body.each

(* Once a batch is acknowledged each of its customers can log in, but for  *)
(* those whose registration raised, and those whose address was registered *)
(* as the username of another customer as well: of a customer with the     *)
(* same address, by POST /customers or by POST /auth/credentials.          *)
LoginsWork ==
  exists => \A b \in DOMAIN batches : batches[b].done =>
    \A i \in DOMAIN batches[b].rows :
      LET id == batches[b].first + i - 1
          email == batches[b].rows[i].email
          taken == \E r \in registered : r.username = email /\ r.customer # id IN
      id \notin raised =>
        /\ email \in DOMAIN logins
        /\ ~taken => logins[email] = id

=============================================================================
