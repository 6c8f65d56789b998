----------------------------- MODULE Workspace -----------------------------
(***************************************************************************)
(* The documents users edit, and their stores: plans with their versions   *)
(* (db/plans.go), fragments, environments with secret variables and        *)
(* request collections.  The editor saves on every change, and a save is   *)
(* two or three SQL statements in no transaction; lists are read page by   *)
(* page while others save.                                                 *)
(*                                                                         *)
(* A document's content is one value.  An environment's is that of its one *)
(* secret variable, which is stored encrypted and shown as RedactedValue.  *)
(***************************************************************************)
EXTENDS Naturals, FiniteSets, Functions

CONSTANTS
  Docs,        \* ids
  Contents,    \* what a save may bring
  BuiltIns,    \* the kinds of which a document was seeded at the first start
  Editors,     \* requests under way at once
  ListKinds,   \* of the lists that are read
  Limit,       \* documents on a page
  MaxNow       \* seconds; at most one change falls into each

VARIABLES
  docs,        \* rows
  versions,    \* rows of plan_versions: UNIQUE(plan_id, version)
  edit,        \* what every editor's request is doing
  walk,        \* a client reading a list to its end
  now

workspaceVars == <<docs, versions, edit, walk, now>>

Kinds == {"plan", "fragment", "environment", "collection"}
Redacted == "redacted"
NoEdit == [op |-> "none"]
NoWalk == [kind |-> "none"]
NoCursor == MaxNow + 1     \* a cursor after every time

ASSUME WorkspaceAssumption ==
  /\ BuiltIns \subseteq {"plan", "fragment"} /\ ListKinds \subseteq Kinds
  /\ Limit \in Nat \ {0} /\ MaxNow \in Nat
  /\ IsFiniteSet(Docs) /\ Contents # {} /\ Redacted \notin Contents
  /\ \E f \in [BuiltIns -> Docs] : IsInjective(f)

\* secrets.Box: a value is stored encrypted, <<v>>, the empty one as it is.
Seal(v) == IF v = "" THEN <<>> ELSE <<v>>
Open(v) == IF v = <<>> THEN "" ELSE v[1]
Stored(kind, v) == IF kind = "environment" THEN Seal(v) ELSE v

Row(kind, v, builtIn, t) ==
  [kind |-> kind, content |-> Stored(kind, v), builtIn |-> builtIn, version |-> 1, updated |-> t]

Put(table, key, row) == [k \in DOMAIN table \cup {key} |-> IF k = key THEN row ELSE table[k]]
Drop(table, key) == Restrict(table, DOMAIN table \ {key})

\* SeedBuiltInFragments and SeedBuiltInPlans, on the first start.
WorkspaceInit ==
  /\ LET seeded == CHOOSE f \in [BuiltIns -> Docs] : IsInjective(f) IN
       docs = [d \in Range(seeded) |->
                    Row(CHOOSE k \in BuiltIns : seeded[k] = d, CHOOSE v \in Contents : TRUE, TRUE, 0)]
  /\ versions = [d \in {e \in DOMAIN docs : docs[e].kind = "plan"} |-> <<docs[d].content>>]
  /\ edit = [e \in Editors |-> NoEdit]
  /\ walk = NoWalk
  /\ now = 1

-----------------------------------------------------------------------------
(* Requests                                                                *)

\* A save or a deletion arrives; a client sends a secret back as it was shown
\* unless it has a new value for it.
Ask(e) ==
  /\ edit[e] = NoEdit
  /\ \/ \E k \in Kinds, v \in Contents :
          edit' = [edit EXCEPT ![e] = [op |-> "Create", step |-> "insert", kind |-> k, content |-> v]]
     \/ \E d \in DOMAIN docs :
          \/ \E v \in Contents \cup (IF docs[d].kind = "environment" THEN {Redacted} ELSE {}) :
               edit' = [edit EXCEPT ![e] = [op |-> "Update", step |-> "get", doc |-> d, content |-> v]]
          \/ edit' = [edit EXCEPT ![e] = [op |-> "Delete", step |-> "check", doc |-> d]]
  /\ UNCHANGED <<docs, versions, walk, now>>

Edits(e, op, step) == edit[e] # NoEdit /\ edit[e].op = op /\ edit[e].step = step
Reply(e) == edit' = [edit EXCEPT ![e] = NoEdit]

\* A document that changed is not the one the client began to list.
Touch(d) == walk' = IF walk = NoWalk THEN walk ELSE [walk EXCEPT !.due = @ \ {d}]

\* Ids that are not in use, nor held by a request: one of them is as good as one
\* never given.
Free == {d \in Docs \ DOMAIN docs : \A e \in Editors : "doc" \in DOMAIN edit[e] => edit[e].doc # d}

\* Create: the row, and for a plan its version 1.
Insert(e) ==
  /\ Edits(e, "Create", "insert") /\ now < MaxNow
  /\ Free # {}
  /\ LET d == CHOOSE f \in Free : TRUE IN
       /\ docs' = Put(docs, d, Row(edit[e].kind, edit[e].content, FALSE, now))
       /\ IF edit[e].kind = "plan"
          THEN edit' = [edit EXCEPT ![e] = [op |-> "Update", step |-> "version", doc |-> d,
                                            content |-> edit[e].content, version |-> 1]]
          ELSE Reply(e)
  /\ now' = now + 1
  /\ UNCHANGED <<versions, walk>>

\* Mutant: the version that was read is written again.
GetDoc_Same(e) ==
  /\ Edits(e, "Update", "get") /\ now < MaxNow
  /\ LET d == edit[e].doc IN
     IF d \in DOMAIN docs /\ ~(docs[d].kind = "fragment" /\ docs[d].builtIn)
     THEN edit' = [edit EXCEPT ![e] = [op |-> "Update", step |-> "write", doc |-> d, content |-> edit[e].content,
                                       read |-> docs[d].content, version |-> docs[d].version, at |-> now]]
     ELSE Reply(e)
  /\ now' = now + 1
  /\ UNCHANGED <<docs, versions, walk>>

\* Update reads the row for its version, its creation and its secrets, and
\* takes the time; a built-in fragment is not changed.
GetDoc(e) ==
  /\ Edits(e, "Update", "get") /\ now < MaxNow
  /\ LET d == edit[e].doc IN
     IF d \in DOMAIN docs /\ ~(docs[d].kind = "fragment" /\ docs[d].builtIn)
     THEN edit' = [edit EXCEPT ![e] = [op |-> "Update", step |-> "write", doc |-> d, content |-> edit[e].content,
                                       read |-> docs[d].content, version |-> docs[d].version + 1, at |-> now]]
     ELSE Reply(e)
  /\ now' = now + 1
  /\ UNCHANGED <<docs, versions, walk>>

\* Mutant: the text shown for a secret is taken for its value.
Meant_Shown(e) == edit[e].content

\* A secret sent back as it was shown keeps the value that was read.
Meant(e) ==
  IF edit[e].content = Redacted THEN Open(edit[e].read) ELSE edit[e].content

\* ... and writes it, if the row is still there.
WriteDoc(e) ==
  /\ Edits(e, "Update", "write")
  /\ LET d == edit[e].doc IN
     IF d \in DOMAIN docs
     THEN /\ docs' = [docs EXCEPT ![d].content = Stored(docs[d].kind, Meant(e)), ![d].version = edit[e].version,
                                  ![d].updated = edit[e].at]
          /\ IF docs[d].kind = "plan"
             THEN edit' = [edit EXCEPT ![e] = [@ EXCEPT !.step = "version"]]
             ELSE Reply(e)
          /\ Touch(d)
     ELSE Reply(e) /\ UNCHANGED <<docs, walk>>
  /\ UNCHANGED <<versions, now>>

\* saveVersion, which fails when the plan is gone or has that version.
SaveVersion(e) ==
  /\ Edits(e, "Update", "version")
  /\ LET d == edit[e].doc
         v == edit[e].version
         had == IF d \in DOMAIN versions THEN versions[d] ELSE <<>>
     IN  versions' = IF d \in DOMAIN docs /\ v \notin DOMAIN had
                     THEN Put(versions, d, Put(had, v, edit[e].content))
                     ELSE versions
  /\ Reply(e)
  /\ UNCHANGED <<docs, walk, now>>

\* Delete looks whether a plan or a fragment is built in, and deletes; the
\* versions go with their plan.
CheckDelete(e) ==
  /\ Edits(e, "Delete", "check")
  /\ LET d == edit[e].doc IN
     IF d \in DOMAIN docs /\ ~docs[d].builtIn
     THEN edit' = [edit EXCEPT ![e] = [@ EXCEPT !.step = "delete"]]
     ELSE Reply(e)
  /\ UNCHANGED <<docs, versions, walk, now>>

DeleteDoc(e) ==
  /\ Edits(e, "Delete", "delete")
  /\ docs' = Drop(docs, edit[e].doc)
  /\ versions' = Drop(versions, edit[e].doc)
  /\ Touch(edit[e].doc)
  /\ Reply(e)
  /\ UNCHANGED now

-----------------------------------------------------------------------------
(* Lists                                                                   *)

OfKind(k) == {d \in DOMAIN docs : docs[d].kind = k}

\* ORDER BY built_in DESC, updated_at DESC
ListedBefore(d, f) ==
  \/ docs[d].builtIn /\ ~docs[f].builtIn
  \/ docs[d].builtIn = docs[f].builtIn /\ docs[d].updated > docs[f].updated

StartWalk(k) ==
  /\ walk = NoWalk
  /\ walk' = [kind |-> k, cursor |-> NoCursor, seen |-> {}, due |-> OfKind(k), more |-> TRUE]
  /\ UNCHANGED <<docs, versions, edit, now>>

\* Mutant: the next page starts below the first document that was left out.
Cursor_Next(page, rest) ==
  docs[CHOOSE d \in rest : \A f \in rest \ {d} : ~ListedBefore(f, d)].updated

\* The time of the last document on the page.
Cursor(page, rest) ==
  docs[CHOOSE d \in page : \A f \in page \ {d} : ~ListedBefore(d, f)].updated

\* List: the first Limit documents older than the cursor, and a cursor if
\* there are more.
Page ==
  /\ walk # NoWalk /\ walk.more
  /\ LET rows == {d \in OfKind(walk.kind) : docs[d].updated < walk.cursor}
     IN  \E page \in SUBSET rows :
           /\ Cardinality(page) = IF Cardinality(rows) > Limit THEN Limit ELSE Cardinality(rows)
           /\ \A d \in page : \A f \in rows \ page : ~ListedBefore(f, d)
           /\ walk' = [walk EXCEPT !.seen = @ \cup page, !.more = rows # page,
                                   !.cursor = IF rows # page THEN Cursor(page, rows \ page) ELSE @]
  /\ UNCHANGED <<docs, versions, edit, now>>

\* The list is shown, and perhaps read again.
EndWalk ==
  /\ walk # NoWalk /\ ~walk.more
  /\ walk' = NoWalk
  /\ UNCHANGED <<docs, versions, edit, now>>

-----------------------------------------------------------------------------
WorkspaceNext ==
  \/ \E e \in Editors :
       \/ Ask(e) \/ Insert(e) \/ GetDoc(e) \/ WriteDoc(e) \/ SaveVersion(e)
       \/ CheckDelete(e) \/ DeleteDoc(e)
  \/ \E k \in ListKinds : StartWalk(k)
  \/ Page \/ EndWalk

WorkspaceSpec == WorkspaceInit /\ [][WorkspaceNext]_workspaceVars

-----------------------------------------------------------------------------
(* Properties                                                              *)

WorkspaceTypeOK ==
  /\ DOMAIN docs \subseteq Docs /\ DOMAIN versions \subseteq OfKind("plan")
  /\ \A d \in DOMAIN docs :
       /\ docs[d].kind \in Kinds /\ docs[d].version \in Nat /\ docs[d].updated \in 0 .. MaxNow
       /\ docs[d].content \in {Stored(docs[d].kind, v) : v \in Contents}
  /\ walk = NoWalk \/ (walk.due \cup walk.seen \subseteq Docs /\ walk.kind \in Kinds)

\* Between saves, a plan is what its history says it is: it has a version for
\* every number up to its own, and the last one holds what the plan holds.
HistoryAgrees ==
  \A d \in OfKind("plan") :
    \/ \E e \in Editors : edit[e].op = "Update" /\ edit[e].step = "version" /\ edit[e].doc = d
    \/ /\ d \in DOMAIN versions /\ DOMAIN versions[d] = 1 .. docs[d].version
       /\ versions[d][docs[d].version] = docs[d].content

\* A secret changes only by a save that brings a new value for it, not by one
\* that sends back what was shown.
SecretStays ==
  [][\A d \in DOMAIN docs \cap DOMAIN docs' :
       docs[d].kind = "environment" /\ docs'[d].content # docs[d].content =>
         \E e \in Editors : Edits(e, "Update", "write") /\ edit[e].doc = d /\ edit[e].content # Redacted]_workspaceVars

\* A list read page by page has every document that was there when it was
\* begun and has not been changed since, whatever was saved or deleted
\* meanwhile.
ListIsWhole ==
  walk # NoWalk => (walk.more \/ walk.due \subseteq walk.seen)
=============================================================================
