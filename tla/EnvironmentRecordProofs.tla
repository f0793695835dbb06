---------------------- MODULE EnvironmentRecordProofs ----------------------
(***************************************************************************)
(* Proofs about EnvironmentRecord, for any number of commands, of files,   *)
(* services and checks, and any set of acceptance runs, and about copies   *)
(* of whole Stores (StoreCopy), for any Stores, environments, entries,     *)
(* graphs and references, and any number of copies and events.             *)
(***************************************************************************)
EXTENDS EnvironmentRecord, StoreCopy, FiniteSetTheorems, TLAPS

Places == {"idle", "read", "loaded", "upsert", "write", "files", "services", "checks"}
CommandState == [at : Places, op : Operations, copy : EnvironmentType, new : SUBSET Items,
                 base : SUBSET Items, fresh : BOOLEAN]

-----------------------------------------------------------------------------
(* The inductive invariant                                                  *)

(* What a publication checks holds together in every copy of the row: no    *)
(* command sets the verified mark on a copy it has not checked, and every   *)
(* new run or workflow takes the mark away.                                 *)
Backed(e) ==
  e.verified => \E r \in e.run \cap Accepted \cap Traced : RunWorkflow[r] = e.workflow

BackedInv == Backed(row) /\ \A c \in Commands : Backed(command[c].copy)

(* The items whose table a command is about to replace, and the rows it     *)
(* will leave.                                                              *)
Replaced(op) == IF op = "repo" THEN Services ELSE IF op = "file" THEN Files ELSE {}
RowsAfter(k, n) == (n \ Replaced(k.op)) \cup (k.new \cap Replaced(k.op))

(* Item i is seen by a reader of a row with the JSON j beside the rows n.   *)
Seen(i, j, n) == i \in n \/ (i \in j /\ \A l \in FileLists : i \in l => l \cap n = {})
AllSeen(b, j, n) == \A i \in b : Seen(i, j, n)

(* Where the items are that an undisturbed command k found: in its copy of  *)
(* the row, in the rows as they will be, and after the upsert in the row,   *)
(* and no row hides the list one of them is in.  What the copy still holds  *)
(* of the table k will replace, k will write.  n are the rows, e is the row.*)
Kept(k, e, n) ==
  k.fresh /\ k.op # "register" =>
    /\ k.at = "read" => AllSeen(k.base, k.copy.inline, n)
    /\ k.at = "loaded" => AllSeen(k.base, k.copy.inline, n) /\ k.base \subseteq k.copy.inline
    /\ k.at \in {"upsert", "write"} => /\ AllSeen(k.base, k.copy.inline, RowsAfter(k, n))
                                       /\ k.copy.inline \cap Replaced(k.op) \subseteq k.new
    /\ k.at \in {"files", "services"} => AllSeen(k.base, e.inline, RowsAfter(k, n))

(* Which command goes through which table; one that reads has no plan yet. *)
Tables(k) ==
  /\ k.at \in {"read", "loaded"} => k.op = "none"
  /\ k.at = "files" => k.op \in {"file", "register"}
  /\ k.at = "services" => k.op \in {"repo", "register"}
  /\ k.at = "checks" => k.op = "register"

KeptInv == \A c \in Commands : Kept(command[c], row, rows) /\ Tables(command[c])

RecordInv == TypeOK /\ BackedInv /\ KeptInv
-----------------------------------------------------------------------------
(* Records and commands                                                     *)

(* A registered environment is not verified, and an idle command holds one. *)
LEMMA IdleTyped ==
  ASSUME NEW w \in Workflows
  PROVE  /\ Registered(w) \in EnvironmentType /\ Backed(Registered(w))
         /\ Idle(w) \in CommandState /\ Backed(Idle(w).copy) /\ Idle(w).at = "idle"
         /\ Idle(w).op = "none" /\ Idle(w).fresh = TRUE
<1>1. Registered(w) \in EnvironmentType /\ Registered(w).verified = FALSE
  BY DEF Registered, EnvironmentType
<1> QED
  BY <1>1 DEF Backed, Idle, CommandState, Places, Operations

(* The workflow an idle command is given is one. *)
LEMMA AnyWorkflowIsOne == AnyWorkflow \in Workflows
BY RecordAssumption DEF AnyWorkflow

(* The variables by their types. *)
LEMMA Typed ==
  TypeOK <=> /\ row \in EnvironmentType /\ rows \in SUBSET Items
             /\ command \in [Commands -> CommandState]
BY DEF TypeOK, CommandState, Places

(* Reading an environment shows what is seen.                               *)
LEMMA MergeShows ==
  ASSUME NEW j, NEW n
  PROVE  \A i : i \in MergeEnvironmentFilesIntoComposeJSON(j, n) <=> Seen(i, j, n)
BY DEF MergeEnvironmentFilesIntoComposeJSON, Seen

(* A step that changes one command alone. *)
LEMMA MoveKeeps ==
  ASSUME RecordInv, NEW c \in Commands, NEW k \in CommandState,
         command' = [command EXCEPT ![c] = k], UNCHANGED <<row, rows>>,
         Backed(k.copy), Kept(k, row, rows), Tables(k)
  PROVE  RecordInv'
<1>1. command \in [Commands -> CommandState]
  BY Typed DEF RecordInv
<1>2. command' \in [Commands -> CommandState]
  BY <1>1
<1>3. TypeOK'
  BY <1>2 DEF RecordInv, TypeOK, CommandState, Places
<1>4. \A d \in Commands : command'[d] = IF d = c THEN k ELSE command[d]
  BY <1>1
<1>5. BackedInv'
  BY <1>4 DEF RecordInv, BackedInv
<1>6. KeptInv'
  BY <1>4 DEF RecordInv, KeptInv
<1> QED
  BY <1>3, <1>5, <1>6 DEF RecordInv

(* A statement that writes: every other command that is under way is no     *)
(* longer undisturbed.                                                      *)
LEMMA WroteKeeps ==
  ASSUME RecordInv, NEW c \in Commands, NEW next \in Places, Wrote(c, next),
         row' \in EnvironmentType, Backed(row'), rows' \in SUBSET Items,
         next # "idle" => /\ Kept([command[c] EXCEPT !.at = next], row', rows')
                          /\ Tables([command[c] EXCEPT !.at = next])
  PROVE  RecordInv'
<1>1. command \in [Commands -> CommandState]
  BY Typed DEF RecordInv
<1> DEFINE mine == IF next = "idle" THEN Idle(AnyWorkflow) ELSE [command[c] EXCEPT !.at = next]
           other(d) == [command[d] EXCEPT !.fresh = command[d].at = "idle"]
<1>2. command' = [d \in Commands |-> IF d # c THEN other(d) ELSE mine]
  BY DEF Wrote
<1>3. mine \in CommandState /\ Backed(mine.copy) /\ Kept(mine, row', rows') /\ Tables(mine)
  <2>1. CASE next = "idle"
    BY <2>1, IdleTyped, AnyWorkflowIsOne DEF Kept, Tables
  <2>2. CASE next # "idle"
    <3>1. [command[c] EXCEPT !.at = next] \in CommandState
      BY <1>1 DEF CommandState
    <3>2. [command[c] EXCEPT !.at = next].copy = command[c].copy
      BY <1>1 DEF CommandState
    <3> QED
      BY <2>2, <3>1, <3>2 DEF RecordInv, BackedInv
  <2> QED
    BY <2>1, <2>2
<1>4. ASSUME NEW d \in Commands
      PROVE  /\ other(d) \in CommandState /\ Backed(other(d).copy)
             /\ Kept(other(d), row', rows') /\ Tables(other(d))
  <2>1. /\ other(d) \in CommandState /\ other(d).copy = command[d].copy
        /\ other(d).at = command[d].at /\ other(d).op = command[d].op
        /\ other(d).fresh => other(d).at = "idle"
    BY <1>1 DEF CommandState
  <2> HIDE DEF other
  <2>2. Backed(other(d).copy)
    BY <2>1 DEF RecordInv, BackedInv
  <2>3. Kept(other(d), row', rows')
    BY <2>1 DEF Kept
  <2>4. Tables(other(d))
    BY <2>1 DEF Tables, RecordInv, KeptInv
  <2> QED
    BY <2>1, <2>2, <2>3, <2>4
<1> HIDE DEF mine, other
<1>5. command' \in [Commands -> CommandState]
  BY <1>2, <1>3, <1>4
<1>6. \A d \in Commands : command'[d] = other(d) \/ command'[d] = mine
  BY <1>2
<1>7. TypeOK'
  BY <1>5 DEF TypeOK, CommandState, Places
<1>8. BackedInv'
  BY <1>3, <1>4, <1>6 DEF BackedInv
<1>9. KeptInv'
  BY <1>3, <1>4, <1>6 DEF KeptInv
<1> QED
  BY <1>7, <1>8, <1>9 DEF RecordInv

-----------------------------------------------------------------------------
(* The Store's statements                                                   *)

(* The row is read, and the rows after it. *)
LEMMA ReadKeeps ==
  ASSUME RecordInv, NEW c \in Commands,
         GetEnvironment(c) \/ HydrateEnvironmentStructuredState(c)
  PROVE  RecordInv'
<1>1. /\ command[c] \in CommandState /\ row \in EnvironmentType /\ rows \in SUBSET Items
      /\ Kept(command[c], row, rows) /\ Backed(row) /\ Backed(command[c].copy)
  BY Typed DEF RecordInv, KeptInv, BackedInv
<1>2. CASE GetEnvironment(c)
  <2> DEFINE k == [Idle(row.workflow) EXCEPT !.at = "read", !.copy = row, !.base = View]
  <2>1. View \in SUBSET Items /\ row.workflow \in Workflows
    BY <1>1 DEF View, EnvironmentType, MergeEnvironmentFilesIntoComposeJSON
  <2>2. Idle(row.workflow) \in CommandState /\ Idle(row.workflow).op = "none"
    BY <2>1, IdleTyped
  <2>3. /\ k \in CommandState /\ k.at = "read" /\ k.copy = row /\ k.base = View
        /\ k.op = "none"
    BY <1>1, <2>1, <2>2 DEF CommandState, Places
  <2>4. command' = [command EXCEPT ![c] = k] /\ UNCHANGED <<row, rows>>
    BY <1>2 DEF GetEnvironment
  <2> HIDE DEF k
  <2>5. Kept(k, row, rows) /\ Tables(k)
    BY <2>3, MergeShows DEF Kept, Tables, View, AllSeen
  <2> QED
    BY <1>1, <2>3, <2>4, <2>5, MoveKeeps
<1>3. CASE HydrateEnvironmentStructuredState(c)
  <2> DEFINE e == EnvironmentWithStructuredState(command[c].copy)
             k == [command[c] EXCEPT !.at = "loaded", !.copy = e]
  <2> DEFINE j == MergeEnvironmentFilesIntoComposeJSON(command[c].copy.inline, rows)
  <2>0. j \in SUBSET Items /\ \A i : i \in j <=> Seen(i, command[c].copy.inline, rows)
    BY <1>1, MergeShows DEF CommandState, EnvironmentType, MergeEnvironmentFilesIntoComposeJSON
  <2> HIDE DEF j
  <2>1. /\ e \in EnvironmentType /\ e.inline = j
        /\ e.verified = command[c].copy.verified /\ e.run = command[c].copy.run
        /\ e.workflow = command[c].copy.workflow
    BY <1>1, <2>0 DEF CommandState, EnvironmentType, EnvironmentWithStructuredState, j
  <2>2. /\ k \in CommandState /\ k.at = "loaded" /\ k.copy = e /\ k.base = command[c].base
        /\ k.fresh = command[c].fresh /\ k.op = command[c].op
    BY <1>1, <2>1 DEF CommandState, Places
  <2>3. command' = [command EXCEPT ![c] = k] /\ UNCHANGED <<row, rows>> /\ command[c].at = "read"
    BY <1>3 DEF HydrateEnvironmentStructuredState
  <2> HIDE DEF k, e
  <2>4. Backed(k.copy)
    BY <1>1, <2>1, <2>2 DEF Backed
  <2>5. k.fresh /\ k.op # "register" => /\ \A i \in k.base : i \in j
                                       /\ \A i \in k.base : Seen(i, j, rows)
    BY <1>1, <2>0, <2>2, <2>3 DEF Kept, AllSeen, Seen
  <2>6. Kept(k, row, rows)
    BY <2>1, <2>2, <2>5 DEF Kept, AllSeen
  <2>7. Tables(k)
    BY <2>2, <2>3 DEF Tables, RecordInv, KeptInv
  <2> QED
    BY <2>2, <2>3, <2>4, <2>6, <2>7, MoveKeeps
<1> QED
  BY <1>2, <1>3

(* The JSON loses what has a row. *)
LEMMA PrepareKeeps ==
  ASSUME RecordInv, NEW c \in Commands, PrepareEnvironmentForStructuredUpsert(c)
  PROVE  RecordInv'
<1> DEFINE e == EnvironmentWithoutStructuredState(command[c].copy)
           k == [command[c] EXCEPT !.at = "write", !.copy = e]
<1>1. /\ command[c] \in CommandState /\ Kept(command[c], row, rows) /\ Backed(command[c].copy)
      /\ command[c].at = "upsert"
  BY Typed DEF RecordInv, KeptInv, BackedInv, PrepareEnvironmentForStructuredUpsert
<1>2. /\ e \in EnvironmentType /\ e.inline = command[c].copy.inline \ rows
      /\ e.verified = command[c].copy.verified /\ e.run = command[c].copy.run
      /\ e.workflow = command[c].copy.workflow
  BY <1>1 DEF CommandState, EnvironmentType, EnvironmentWithoutStructuredState
<1>3. command' = [command EXCEPT ![c] = k] /\ UNCHANGED <<row, rows>>
  BY DEF PrepareEnvironmentForStructuredUpsert
<1> HIDE DEF e
<1>4. /\ k \in CommandState /\ k.at = "write" /\ k.copy = e /\ k.base = command[c].base
      /\ k.fresh = command[c].fresh /\ k.op = command[c].op /\ k.new = command[c].new
  BY <1>1, <1>2 DEF CommandState, Places
<1> HIDE DEF k
<1>5. Backed(k.copy)
  BY <1>1, <1>2, <1>4 DEF Backed
<1>6. Kept(k, row, rows) /\ Tables(k)
  <2>1. RowsAfter(k, rows) = RowsAfter(command[c], rows)
    BY <1>4 DEF RowsAfter
  <2>2. ASSUME k.fresh, k.op # "register"
        PROVE  /\ AllSeen(k.base, k.copy.inline, RowsAfter(k, rows))
               /\ k.copy.inline \cap Replaced(k.op) \subseteq k.new
    <3>1. /\ AllSeen(command[c].base, command[c].copy.inline, RowsAfter(command[c], rows))
          /\ command[c].copy.inline \cap Replaced(k.op) \subseteq k.new
      BY <1>1, <1>4, <2>2 DEF Kept
    <3>2. \A x \in command[c].copy.inline \cap rows : x \in RowsAfter(k, rows)
      BY <3>1 DEF RowsAfter
    <3> QED
      BY <1>2, <1>4, <2>1, <3>1, <3>2 DEF AllSeen, Seen
  <2> QED
    BY <1>4, <2>2 DEF Kept, Tables
<1> QED
  BY <1>3, <1>4, <1>5, <1>6, MoveKeeps

(* The row is written, whole and from the copy. *)
LEMMA UpsertRowKeeps ==
  ASSUME RecordInv, NEW c \in Commands, upsertEnvironment(c)
  PROVE  RecordInv'
<1> DEFINE next == AfterUpsert(command[c].op)
           k == [command[c] EXCEPT !.at = next]
<1>1. /\ command[c] \in CommandState /\ Kept(command[c], row, rows) /\ Backed(command[c].copy)
      /\ command[c].at = "write" /\ row' = command[c].copy /\ rows' = rows /\ Wrote(c, next)
      /\ rows \in SUBSET Items
  BY Typed DEF RecordInv, KeptInv, BackedInv, upsertEnvironment
<1>2. /\ next \in Places
      /\ next = "idle" \/ (next = "services" /\ command[c].op = "repo")
                       \/ (next = "files" /\ command[c].op \in {"file", "register"})
  BY DEF AfterUpsert, Places
<1> HIDE DEF next
<1>3. /\ k.at = next /\ k.copy = command[c].copy /\ k.base = command[c].base
      /\ k.fresh = command[c].fresh /\ k.op = command[c].op /\ k.new = command[c].new
  BY <1>1 DEF CommandState
<1> HIDE DEF k
<1>4. next # "idle" => Kept(k, row', rows') /\ Tables(k)
  <2>1. RowsAfter(k, rows) = RowsAfter(command[c], rows)
    BY <1>3 DEF RowsAfter
  <2> QED
    BY <1>1, <1>2, <1>3, <2>1 DEF Kept, Tables
<1>5. row' \in EnvironmentType
  BY <1>1 DEF CommandState
<1> QED
  BY <1>1, <1>2, <1>4, <1>5, WroteKeeps DEF k

(* A table is replaced. *)
LEMMA ReplaceKeeps ==
  ASSUME RecordInv, NEW c \in Commands,
         \/ ReplaceEnvironmentFiles(c)
         \/ ReplaceEnvironmentServices(c)
         \/ ReplaceEnvironmentHealthChecks(c)
  PROVE  RecordInv'
<1>1. /\ command[c] \in CommandState /\ Tables(command[c]) /\ Backed(row)
      /\ row \in EnvironmentType /\ rows \in SUBSET Items
  BY Typed DEF RecordInv, KeptInv, BackedInv
<1>2. PICK kind \in SUBSET Items, next \in {"idle", "services", "checks"} :
        /\ Replace(c, kind, next)
        /\ next # "idle" => command[c].op = "register"
        /\ next = "services" => command[c].at = "files"
  BY DEF ReplaceEnvironmentFiles, ReplaceEnvironmentServices, ReplaceEnvironmentHealthChecks, Items
<1>3. row' = row /\ rows' \in SUBSET Items /\ Wrote(c, next) /\ next \in Places
  BY <1>1, <1>2 DEF Replace, CommandState, Places
<1>4. /\ [command[c] EXCEPT !.at = next].at = next
      /\ [command[c] EXCEPT !.at = next].op = command[c].op
  BY <1>1 DEF CommandState
<1>5. next # "idle" => /\ Kept([command[c] EXCEPT !.at = next], row', rows')
                       /\ Tables([command[c] EXCEPT !.at = next])
  BY <1>2, <1>4 DEF Kept, Tables
<1> QED
  BY <1>1, <1>3, <1>5, WroteKeeps

-----------------------------------------------------------------------------
(* The commands                                                             *)

(* A registration writes the row and the tables, at once or one by one. *)
LEMMA RegisterKeeps ==
  ASSUME RecordInv, NEW c \in Commands, runEnvironmentRegister(c) \/ handleEnvironmentCollection(c)
  PROVE  RecordInv'
<1>1. CASE runEnvironmentRegister(c)
  <2>1. PICK w \in Workflows, n \in Registrations : UpsertEnvironmentStructuredState(c, w, n)
    BY <1>1 DEF runEnvironmentRegister
  <2>2. row' \in EnvironmentType /\ Backed(row') /\ rows' \in SUBSET Items
    BY <2>1, IdleTyped, RecordAssumption DEF UpsertEnvironmentStructuredState
  <2>3. Wrote(c, "idle") /\ "idle" \in Places
    BY <2>1 DEF UpsertEnvironmentStructuredState, Places
  <2> QED
    BY <2>2, <2>3, WroteKeeps
<1>2. CASE handleEnvironmentCollection(c)
  <2>1. PICK w \in Workflows, n \in Registrations :
          command' = [command EXCEPT ![c] = [Idle(w) EXCEPT !.at = "upsert", !.op = "register",
                   !.copy = [Registered(w) EXCEPT !.inline = n \cap (ComposeFiles \cup EnvFiles)],
                   !.new = n]]
    BY <1>2 DEF handleEnvironmentCollection
  <2> DEFINE e == [Registered(w) EXCEPT !.inline = n \cap (ComposeFiles \cup EnvFiles)]
             k == [Idle(w) EXCEPT !.at = "upsert", !.op = "register", !.copy = e, !.new = n]
  <2>2. e \in EnvironmentType /\ e.verified = FALSE
    BY IdleTyped, RecordAssumption DEF Registered, EnvironmentType, Items, Files
  <2> HIDE DEF e
  <2>0. Idle(w) \in CommandState /\ n \in SUBSET Items
    BY IdleTyped, RecordAssumption
  <2>3. /\ k \in CommandState /\ k.at = "upsert" /\ k.op = "register" /\ k.copy = e
    BY <2>0, <2>2 DEF CommandState, Places, Operations
  <2> HIDE DEF k
  <2>4. Backed(k.copy) /\ Kept(k, row, rows) /\ Tables(k)
    BY <2>2, <2>3 DEF Kept, Tables, Backed
  <2> QED
    BY <1>2, <2>1, <2>3, <2>4, MoveKeeps DEF handleEnvironmentCollection, k, e
<1> QED
  BY <1>1, <1>2

(* A command that has its new copy: it is verified only if it may be, and   *)
(* undisturbed it leaves out none of the items it read.                     *)
LEMMA UpsertKeeps ==
  ASSUME RecordInv, NEW c \in Commands, NEW op \in Operations, NEW e \in EnvironmentType,
         NEW new \in SUBSET Items, Upsert(c, op, e, new), Backed(e),
         /\ command[c].base \subseteq command[c].copy.inline
         /\ AllSeen(command[c].base, command[c].copy.inline, rows)
         =>
           /\ AllSeen(command[c].base, e.inline, (rows \ Replaced(op)) \cup (new \cap Replaced(op)))
           /\ e.inline \cap Replaced(op) \subseteq new
  PROVE  RecordInv'
<1> DEFINE k == [command[c] EXCEPT !.at = "upsert", !.op = op, !.copy = e, !.new = new]
<1>1. /\ command[c] \in CommandState /\ command[c].at = "loaded" /\ command[c].op = "none"
      /\ Kept(command[c], row, rows)
  BY Typed DEF RecordInv, KeptInv, Tables, Upsert
<1>2. /\ k \in CommandState /\ k.at = "upsert" /\ k.op = op /\ k.copy = e /\ k.new = new
      /\ k.base = command[c].base /\ k.fresh = command[c].fresh
  BY <1>1 DEF CommandState, Places
<1>3. command' = [command EXCEPT ![c] = k] /\ UNCHANGED <<row, rows>>
  BY DEF Upsert
<1> HIDE DEF k
<1>4. Kept(k, row, rows) /\ Tables(k)
  BY <1>1, <1>2 DEF Kept, Tables, RowsAfter
<1> QED
  BY <1>2, <1>3, <1>4, MoveKeeps
(* A recorded run takes the verified mark away, and nothing else. *)
LEMMA RecordedTyped ==
  ASSUME NEW e \in EnvironmentType, NEW r \in Runs, NEW p \in BOOLEAN, NEW ev \in BOOLEAN,
         NEW t \in BOOLEAN, NEW status \in {"verified-ready", "verification-recorded"}
  PROVE  /\ Recorded(e, r, p, ev, t, status) \in EnvironmentType
         /\ Backed(Recorded(e, r, p, ev, t, status))
         /\ Recorded(e, r, p, ev, t, status).inline = e.inline
BY DEF Recorded, EnvironmentType, Backed

(* A run is recorded with what was found out about it. *)
LEMMA OutcomeRecorded ==
  ASSUME NEW e \in EnvironmentType, NEW r \in Runs, NEW T,
         NEW status \in {"verified-ready", "verification-recorded"}
  PROVE  LET n == Recorded(e, r, r \in Accepted, r \in Accepted, r \in Accepted /\ r \in T, status)
         IN n \in EnvironmentType /\ Backed(n) /\ n.inline = e.inline
<1> DEFINE p == r \in Accepted
           q == r \in Accepted /\ r \in T
<1>1. p \in BOOLEAN
  OBVIOUS
<1>2. q \in BOOLEAN
  OBVIOUS
<1> HIDE DEF p, q
<1>3. Recorded(e, r, p, p, q, status) \in EnvironmentType
      /\ Backed(Recorded(e, r, p, p, q, status)) /\ Recorded(e, r, p, p, q, status).inline = e.inline
  BY <1>1, <1>2, RecordedTyped
<1> QED
  BY <1>3, Zenon DEF p, q

(* The commands that only record, or write back what they read. *)
LEMMA RecordingKeeps ==
  ASSUME RecordInv, NEW c \in Commands,
         \/ runEnvironmentVerify(c)
         \/ finalizeEnvironmentAcceptanceRun(c)
         \/ runEnvironmentPublishVerified(c)
         \/ runEnvironmentStop(c)
         \/ runEnvironmentServiceRestart(c)
         \/ environmentRestorePersistEnvironment(c)
  PROVE  RecordInv'
<1> DEFINE e == command[c].copy
<1>1. e \in EnvironmentType /\ Backed(e) /\ {} \in SUBSET Items
  BY Typed DEF RecordInv, BackedInv, CommandState
<1>2. ASSUME NEW op \in Operations \ {"repo", "file"}, NEW n \in EnvironmentType, Upsert(c, op, n, {}),
             Backed(n), n.inline = e.inline
      PROVE  RecordInv'
  <2>1. Replaced(op) = {}
    BY DEF Replaced
  <2>2. (rows \ Replaced(op)) \cup ({} \cap Replaced(op)) = rows
    BY <2>1
  <2> QED
    BY <1>1, <1>2, <2>1, <2>2, UpsertKeeps
<1>3. {"verify", "publish", "stop", "restart", "restore", "accept"} \subseteq Operations \ {"repo", "file"}
  BY DEF Operations
<1>4. CASE runEnvironmentVerify(c)
  <2>1. PICK r \in Runs, p \in BOOLEAN, ev \in BOOLEAN, t \in BOOLEAN,
             status \in {"verified-ready", "verification-recorded"} :
          Upsert(c, "verify", Recorded(e, r, p, ev, t, status), {})
    BY <1>4 DEF runEnvironmentVerify
  <2> QED
    BY <1>1, <1>2, <1>3, <2>1, RecordedTyped
<1>5. CASE finalizeEnvironmentAcceptanceRun(c)
  <2>1. PICK r \in Runs :
          Upsert(c, "accept",
                 Recorded(e, r, r \in Accepted, r \in Accepted, r \in Accepted /\ r \in Traced,
                          IF r \in Accepted THEN "verified-ready" ELSE "verification-recorded"), {})
    BY <1>5 DEF finalizeEnvironmentAcceptanceRun
  <2> DEFINE n == Recorded(e, r, r \in Accepted, r \in Accepted, r \in Accepted /\ r \in Traced,
                          IF r \in Accepted THEN "verified-ready" ELSE "verification-recorded")
  <2>2. n \in EnvironmentType /\ Backed(n) /\ n.inline = e.inline
    BY <1>1, OutcomeRecorded
  <2> HIDE DEF n
  <2> QED
    BY <1>2, <1>3, <2>1, <2>2 DEF n
<1>6. CASE runEnvironmentPublishVerified(c)
  <2> DEFINE n == [e EXCEPT !.verified = TRUE, !.status = "verified"]
  <2>1. ValidateEnvironmentPublishable(e) /\ Upsert(c, "publish", n, {})
    BY <1>6 DEF runEnvironmentPublishVerified
  <2>2. /\ n \in EnvironmentType /\ n.inline = e.inline /\ n.run = e.run
        /\ n.workflow = e.workflow
    BY <1>1 DEF EnvironmentType
  <2>3. Backed(n)
    BY <2>1, <2>2 DEF ValidateEnvironmentPublishable, workflowAcceptancePassed, Backed
  <2> HIDE DEF n
  <2> QED
    BY <1>2, <1>3, <2>1, <2>2, <2>3
<1>7. CASE runEnvironmentStop(c) \/ runEnvironmentServiceRestart(c)
  BY <1>1, <1>2, <1>3, <1>7 DEF runEnvironmentStop, runEnvironmentServiceRestart
<1>8. CASE environmentRestorePersistEnvironment(c)
  <2>1. PICK n \in environmentRestoreMaybeRunWorkflow(c) : Upsert(c, "restore", n, {})
    BY <1>8 DEF environmentRestorePersistEnvironment
  <2>2. n \in EnvironmentType /\ Backed(n) /\ n.inline = e.inline
    <3>1. CASE n = e
      BY <1>1, <3>1
    <3>2. ASSUME NEW r \in Runs,
                 n = Recorded(e, r, r \in Accepted, r \in Accepted, r \in Accepted, "verification-recorded")
          PROVE  n \in EnvironmentType /\ Backed(n) /\ n.inline = e.inline
      <4> DEFINE p == r \in Accepted
      <4>1. p \in BOOLEAN
        OBVIOUS
      <4> HIDE DEF p
      <4>2. /\ Recorded(e, r, p, p, p, "verification-recorded") \in EnvironmentType
            /\ Backed(Recorded(e, r, p, p, p, "verification-recorded"))
            /\ Recorded(e, r, p, p, p, "verification-recorded").inline = e.inline
        BY <1>1, <4>1, RecordedTyped
      <4> QED
        BY <3>2, <4>2 DEF p
    <3> QED
      BY <2>1, <3>1, <3>2 DEF environmentRestoreMaybeRunWorkflow
  <2> QED
    BY <1>2, <1>3, <2>1, <2>2
<1> QED
  BY <1>4, <1>5, <1>6, <1>7, <1>8

(* The commands that move one kind of items out of the JSON. *)
LEMMA MovingKeeps ==
  ASSUME RecordInv, NEW c \in Commands,
         updateEnvironmentRepositories(c) \/ runEnvironmentStartupFilePut(c)
  PROVE  RecordInv'
<1> DEFINE e == command[c].copy
<1>1. e \in EnvironmentType /\ Backed(e) /\ rows \in SUBSET Items
  BY Typed DEF RecordInv, BackedInv, CommandState
<1>2. ASSUME NEW kind \in {Services, Contents}
      PROVE  /\ [e EXCEPT !.inline = @ \ kind] \in EnvironmentType
             /\ [e EXCEPT !.inline = @ \ kind].inline = e.inline \ kind
             /\ Backed([e EXCEPT !.inline = @ \ kind])
  BY <1>1 DEF EnvironmentType, Backed
<1>3. CASE updateEnvironmentRepositories(c)
  <2>1. PICK s \in SUBSET Services :
          Upsert(c, "repo", [e EXCEPT !.inline = @ \ Services],
                 environmentServicesWithLegacyJSON(e) \cup s)
    BY <1>3 DEF updateEnvironmentRepositories
  <2> DEFINE new == environmentServicesWithLegacyJSON(e) \cup s
             n == [e EXCEPT !.inline = @ \ Services]
  <2>2. new \in SUBSET Items /\ (rows \cup e.inline) \cap Services \subseteq new
    BY DEF environmentServicesWithLegacyJSON, Items
  <2>3. "repo" \in Operations /\ Replaced("repo") = Services
    BY DEF Operations, Replaced
  <2>4. n \in EnvironmentType /\ n.inline = e.inline \ Services /\ Backed(n)
    BY <1>2
  <2>5. Upsert(c, "repo", n, new)
    BY <2>1
  <2> HIDE DEF new, n
  <2> DEFINE n0 == (rows \ Services) \cup (new \cap Services)
  <2>6. ASSUME NEW i \in command[c].base, i \in e.inline, Seen(i, e.inline, rows)
        PROVE  Seen(i, n.inline, n0)
    BY <2>2, <2>4, <2>6, RecordAssumption DEF Seen, FileLists, Files
  <2>7. n.inline \cap Services \subseteq new
    BY <2>2, <2>4 DEF Files
  <2> HIDE DEF n0
  <2>8. /\ command[c].base \subseteq e.inline
        /\ AllSeen(command[c].base, e.inline, rows)
        => AllSeen(command[c].base, n.inline, n0) /\ n.inline \cap Services \subseteq new
    BY <2>6, <2>7 DEF AllSeen
  <2> QED
    BY <2>2, <2>3, <2>4, <2>5, <2>8, UpsertKeeps DEF n0
<1>4. CASE runEnvironmentStartupFilePut(c)
  <2>1. PICK f \in Contents :
          Upsert(c, "file", [e EXCEPT !.inline = @ \ Contents],
                 environmentFilesWithLegacyCompose(e) \cup {f})
    BY <1>4 DEF runEnvironmentStartupFilePut
  <2> DEFINE new == environmentFilesWithLegacyCompose(e) \cup {f}
             n == [e EXCEPT !.inline = @ \ Contents]
  <2>2. new \in SUBSET Items /\ (rows \cup e.inline) \cap Files \subseteq new
    BY DEF environmentFilesWithLegacyCompose, Items, Files
  <2>3. "file" \in Operations /\ Replaced("file") = Files
    BY DEF Operations, Replaced
  <2>4. n \in EnvironmentType /\ n.inline = e.inline \ Contents /\ Backed(n)
    BY <1>2
  <2>5. Upsert(c, "file", n, new)
    BY <2>1
  <2> HIDE DEF new, n
  <2> DEFINE n0 == (rows \ Files) \cup (new \cap Files)
  <2>6. ASSUME NEW i \in command[c].base, i \in e.inline, Seen(i, e.inline, rows)
        PROVE  Seen(i, n.inline, n0)
    BY <2>2, <2>4, <2>6, RecordAssumption DEF Seen, FileLists, Files
  <2>7. n.inline \cap Files \subseteq new
    BY <2>2, <2>4 DEF Files
  <2> HIDE DEF n0
  <2>8. /\ command[c].base \subseteq e.inline
        /\ AllSeen(command[c].base, e.inline, rows)
        => AllSeen(command[c].base, n.inline, n0) /\ n.inline \cap Files \subseteq new
    BY <2>6, <2>7 DEF AllSeen
  <2> QED
    BY <2>2, <2>3, <2>4, <2>5, <2>8, UpsertKeeps DEF n0
<1> QED
  BY <1>3, <1>4

(* A command that ends early leaves what it has written. *)
LEMMA GiveUpKeeps ==
  ASSUME RecordInv, NEW c \in Commands, GiveUp(c)
  PROVE  RecordInv'
<1>1. /\ Idle(AnyWorkflow) \in CommandState /\ Backed(Idle(AnyWorkflow).copy)
      /\ Kept(Idle(AnyWorkflow), row, rows) /\ Tables(Idle(AnyWorkflow))
  BY IdleTyped, AnyWorkflowIsOne DEF Kept, Tables
<1> QED
  BY <1>1, MoveKeeps DEF GiveUp

-----------------------------------------------------------------------------

(* The environment starts registered, in an older form or with its tables. *)
LEMMA InvInit == Init => RecordInv
<1> SUFFICES ASSUME Init PROVE RecordInv
  OBVIOUS
<1>1. /\ Registered(AnyWorkflow) \in EnvironmentType /\ Registered(AnyWorkflow).verified = FALSE
      /\ Idle(AnyWorkflow) \in CommandState /\ Backed(Idle(AnyWorkflow).copy)
      /\ Kept(Idle(AnyWorkflow), row, rows) /\ Tables(Idle(AnyWorkflow))
  BY IdleTyped, AnyWorkflowIsOne DEF Kept, Tables, Registered
<1>2. PICK i \in SUBSET LegacyItems : row = [Registered(AnyWorkflow) EXCEPT !.inline = i]
  BY DEF Init
<1>3. i \in SUBSET Items
  BY RecordAssumption
<1>4. row \in EnvironmentType /\ row.verified = FALSE
  BY <1>1, <1>2, <1>3 DEF EnvironmentType
<1>5. rows \in SUBSET Items /\ command = [c \in Commands |-> Idle(AnyWorkflow)]
  BY RecordAssumption DEF Init
<1>6. TypeOK
  BY <1>1, <1>4, <1>5, Typed
<1> QED
  BY <1>1, <1>4, <1>5, <1>6 DEF RecordInv, BackedInv, Backed, KeptInv

(* Every step keeps the invariant. *)
LEMMA InvNext == RecordInv /\ [Next]_vars => RecordInv'
<1> SUFFICES ASSUME RecordInv, [Next]_vars PROVE RecordInv'
  OBVIOUS
<1>1. CASE UNCHANGED vars
  BY <1>1 DEF vars, RecordInv, TypeOK, BackedInv, KeptInv
<1>2. CASE Next
  BY <1>2, ReadKeeps, PrepareKeeps, UpsertRowKeeps, ReplaceKeeps, RegisterKeeps, RecordingKeeps,
     MovingKeeps, GiveUpKeeps DEF Next
<1> QED
  BY <1>1, <1>2

(* The invariant holds in every behaviour. *)
THEOREM Invariant == Spec => []RecordInv
<1> QED
  BY InvInit, InvNext, PTL DEF Spec

(* An environment in verified discovery names a run that was accepted for   *)
(* the workflow it has now, with a topology, whatever commands have raced.  *)
THEOREM VerifiedIsAccepted == Spec => []VerifiedRunAccepted
<1>1. RecordInv => VerifiedRunAccepted
  BY DEF RecordInv, BackedInv, Backed, VerifiedRunAccepted
<1> QED
  BY <1>1, Invariant, PTL

(* A command nobody disturbed loses none of the files, services and checks  *)
(* it read on their way between the row's JSON and the tables.              *)
THEOREM UndisturbedIsWhole == Spec => UndisturbedKeepsItems
<1>1. ASSUME RecordInv, [Next]_vars, NEW c \in Commands,
             command[c].fresh, command[c].op # "register", command'[c].at = "idle",
             \/ upsertEnvironment(c)
             \/ ReplaceEnvironmentFiles(c)
             \/ ReplaceEnvironmentServices(c)
      PROVE  command[c].base \subseteq View'
  <2>1. /\ command[c] \in CommandState /\ Kept(command[c], row, rows) /\ Tables(command[c])
        /\ command \in [Commands -> CommandState]
    BY <1>1, Typed DEF RecordInv, KeptInv
  <2>2. CASE upsertEnvironment(c)
    <3>1. /\ command[c].at = "write" /\ row' = command[c].copy /\ rows' = rows
          /\ Wrote(c, AfterUpsert(command[c].op))
      BY <2>2 DEF upsertEnvironment
    <3>2. AfterUpsert(command[c].op) = "idle"
      <4>1. AfterUpsert(command[c].op) # "idle" => command'[c].at = AfterUpsert(command[c].op)
        BY <2>1, <3>1 DEF Wrote, CommandState
      <4> QED
        BY <1>1, <4>1
    <3>3. Replaced(command[c].op) = {}
      BY <3>2 DEF AfterUpsert, Replaced
    <3> QED
      BY <1>1, <2>1, <3>1, <3>3, MergeShows DEF Kept, RowsAfter, View, AllSeen
  <2>3. CASE ReplaceEnvironmentFiles(c) \/ ReplaceEnvironmentServices(c)
    <3>1. /\ command[c].at \in {"files", "services"} /\ row' = row
          /\ rows' = RowsAfter(command[c], rows)
      BY <1>1, <2>1, <2>3 DEF ReplaceEnvironmentFiles, ReplaceEnvironmentServices, Replace, Tables,
         RowsAfter, Replaced
    <3> QED
      BY <1>1, <2>1, <3>1, MergeShows DEF Kept, View, AllSeen
  <2> QED
    BY <1>1, <2>2, <2>3
<1>2. RecordInv /\ [Next]_vars =>
        [\A c \in Commands :
           /\ command[c].fresh /\ command[c].op # "register" /\ command'[c].at = "idle"
           /\ \/ upsertEnvironment(c)
              \/ ReplaceEnvironmentFiles(c)
              \/ ReplaceEnvironmentServices(c)
           => command[c].base \subseteq View']_vars
  BY <1>1
<1> QED
  BY <1>2, Invariant, PTL DEF Spec, UndisturbedKeepsItems

-----------------------------------------------------------------------------
(* Copies of Stores (StoreCopy)                                             *)

Steps == {"idle", "resolve", "catalog", "write catalog", "index", "config", "models", "list",
          "next", "upsert", "list rows", "service rows", "check rows", "graph", "done"}

OneByOne == {"next", "upsert", "list rows", "service rows", "check rows", "graph"}
Listed == OneByOne \cup {"list", "done"}

ConfigFiles ==
  [readable : BOOLEAN, urls : {f \in [Names -> SUBSET URLs] : \A n \in Names : Single(f[n])},
   active : {A \in SUBSET Names : Single(A)}]
AdminState == [at : {"idle", "truncate", "write"}, new : ConfigFiles]
Listings == UNION {[D -> SUBSET EnvironmentRecords] : D \in SUBSET Environments}
CopyState ==
  [at : Steps, ok : BOOLEAN, to : {""} \cup {r[2] : r \in References},
   source : SUBSET URLs, target : SUBSET URLs, catalog : SUBSET Catalogs,
   config : SUBSET ConfigVersions, todo : SUBSET Environments, listed : Listings,
   env : SUBSET Environments, rows : SUBSET Entries, lost : SUBSET (Environments \X Entries),
   graphs : SUBSET (Environments \X SUBSET Parts), require : {{}} \cup Requirements]

(* What has been listed, and which environment is under way.                *)
Sorted(c) ==
  IF c.at \in OneByOne \cup {"done"}
  THEN /\ c.todo \subseteq DOMAIN c.listed
       /\ Single(c.env) /\ c.env \subseteq DOMAIN c.listed \ c.todo
       /\ c.env = {} <=> c.at \in {"next", "done"}
       /\ c.at = "done" => c.todo = {}
       /\ \A e \in DOMAIN c.listed : c.listed[e] # {} /\ Single(c.listed[e])
  ELSE c.env = {} /\ c.lost = {} /\ c.graphs = {}

CopyTyped ==
  /\ file \in ConfigFiles /\ admin \in [Admins -> AdminState]
  /\ store \in [URLs -> StoreStates]
  /\ copy \in CopyState /\ Single(copy.source) /\ Single(copy.target)
  /\ copy.at # "idle" => copy.source # {}
  /\ copy.at \notin {"idle", "resolve"} => copy.target # {}
  /\ Sorted(copy)

(* What copy c has made, of a source that holds S, in a target that holds T.*)
CatalogFollows(c, S, T) ==
  /\ c.at # "catalog" => c.catalog = S.catalog
  /\ c.at \notin {"catalog", "write catalog"} => (S.catalog # {} => T.catalog = S.catalog)
  /\ c.at = "models" => c.config = S.config
  /\ c.at \in Listed =>
       (S.catalog # {} /\ (\A p \in S.catalog : ProfileOf[p] # "")
          => T.models = {[catalog |-> S.catalog, config |-> S.config]})

(* What is lost of environment e; what was listed and read of it, as long   *)
(* as the source still has it; what is carried over.                        *)
LostOf(c, e) == {l[2] : l \in {k \in c.lost : k[1] = e}}
Fresh(c, S, e) == c.listed[e] = {[x EXCEPT !.json = Shown(x)] : x \in S.environments[e]}
RowsRead(c, S, e) == c.rows = UNION {x.rows : x \in S.environments[e]}
SameMark(c, T, e) ==
  \A y \in T.environments[e], z \in c.listed[e] : y.workflow = z.workflow /\ y.verified = z.verified
Carried(e, lost, S, T) ==
  /\ T.environments[e] # {}
  /\ \A x \in S.environments[e], y \in T.environments[e] :
       y.workflow = x.workflow /\ y.verified = x.verified /\ Shown(y) = Shown(x) \ lost
  /\ S.graphs[e] \in {{}, T.graphs[e]}

(* The environment under way, in the target: its entries, and the kinds of  *)
(* rows that were replaced.                                                 *)
ReplacedKinds(at) ==
  CASE at = "list rows" -> {}
    [] at = "service rows" -> {"list", "content"}
    [] at = "check rows" -> {"list", "content", "service"}
    [] OTHER -> {"list", "content", "service", "check"}
Arriving(c, T, e) ==
  /\ T.environments[e] # {} /\ SameMark(c, T, e)
  /\ \A y \in T.environments[e], z \in c.listed[e] :
       LET sent == storeCopyEnvironmentForTarget(z.json, c.rows) IN
       /\ y.json \subseteq sent /\ LostOf(c, e) = (sent \ y.json) \ c.rows
       /\ \A i \in Entries : Kind[i] \in ReplacedKinds(c.at) => (i \in y.rows <=> i \in c.rows)

Done(c) == DOMAIN c.listed \ (c.todo \cup c.env)
EnvironmentsFollow(c, S, T) ==
  c.at \in OneByOne \cup {"done"} =>
    /\ DOMAIN c.listed = {e \in Environments : S.environments[e] # {}}
    /\ \A e \in c.todo : Fresh(c, S, e) /\ LostOf(c, e) = {}
    /\ \A e \in c.env :
         /\ c.at = "upsert" => LostOf(c, e) = {}
         /\ c.at = "upsert" \/ c.source # c.target => Fresh(c, S, e) /\ RowsRead(c, S, e)
         /\ c.at # "upsert" => Arriving(c, T, e)
    /\ \A e \in Done(c) : Carried(e, LostOf(c, e), S, T) /\ SameMark(c, T, e)
    /\ \A g \in c.graphs : g[1] \in Done(c) /\ g[2] = T.graphs[g[1]]

RequirementsMet(c, T) ==
  c.at = "done" /\ c.ok =>
    \A q \in c.require : \A e \in q.environment :
      /\ q.components <= Cardinality(T.graphs[e] \cap Components)
      /\ \A y \in T.environments[e] :
           (q.workflow # {} => y.workflow \in q.workflow) /\ (q.verified => y.verified)

Follows(c, S, T) == CatalogFollows(c, S, T) /\ EnvironmentsFollow(c, S, T) /\ RequirementsMet(c, T)

CopyFollows ==
  /\ CopyTyped
  /\ quiet /\ copy.at \notin {"idle", "resolve"} => Follows(copy, Source, Target)

-----------------------------------------------------------------------------
(* The items of an environment *)

(* Of what a read of the source shows, the target shows everything but the  *)
(* entries that were sent and that the target took out.                     *)
LEMMA NothingElseIsLost ==
  ASSUME NEW J, NEW R, NEW K, K \subseteq storeCopyEnvironmentForTarget(StructuredView(J, R), R)
  PROVE  StructuredView(K, R)
           = StructuredView(J, R) \ ((storeCopyEnvironmentForTarget(StructuredView(J, R), R) \ K) \ R)
<1> DEFINE E == {j \in WithoutMatches(J, R) : Kind[j] = "list" => \A r \in R : Kind[r] # "list"}
           sent == storeCopyEnvironmentForTarget(StructuredView(J, R), R)
<1>1. StructuredView(J, R) = R \cup E
  BY DEF StructuredView
<1>2. E \subseteq sent /\ sent \subseteq R \cup E
  BY <1>1 DEF storeCopyEnvironmentForTarget, WithoutMatches
<1>3. \A j \in E : \A r \in R : ~SameItem(r, j)
  BY DEF WithoutMatches
<1>4. \A j \in E : Kind[j] = "list" => \A r \in R : Kind[r] # "list"
  OBVIOUS
<1>5. StructuredView(K, R) = R \cup {j \in K : (\A r \in R : ~SameItem(r, j))
                                       /\ (Kind[j] = "list" => \A r \in R : Kind[r] # "list")}
  BY DEF StructuredView, WithoutMatches
<1> HIDE DEF E, sent
<1>6. K \subseteq sent
  BY DEF sent
<1>7. StructuredView(K, R) = (R \cup E) \ ((sent \ K) \ R)
  <2>1. \A j \in K : j \in R \/ j \in E
    BY <1>2, <1>6
  <2> QED BY <2>1, <1>2, <1>3, <1>4, <1>5, <1>6
<1> QED BY <1>1, <1>7 DEF sent

-----------------------------------------------------------------------------
(* Types *)

(* A reference names one Store or none. *)
LEMMA ReferenceIsOneStore ==
  ASSUME file \in ConfigFiles, NEW ref
  PROVE  resolveStoreReference(ref) \in SUBSET URLs /\ Single(resolveStoreReference(ref))
<1>1. activeStoreConfig \in SUBSET URLs /\ Single(activeStoreConfig)
  BY DEF activeStoreConfig, ConfigFiles, Single
<1>2. ref \in Names => file.urls[ref] \in SUBSET URLs /\ Single(file.urls[ref])
  BY DEF ConfigFiles
<1>3. Single({ref}) /\ Single({})
  BY DEF Single
<1> QED BY <1>1, <1>2, <1>3 DEF resolveStoreReference

LEMMA NoCopyIsTyped ==
  /\ NoCopy \in CopyState /\ NoCopy.at = "idle" /\ NoCopy.env = {} /\ NoCopy.lost = {}
  /\ NoCopy.graphs = {} /\ NoCopy.source = {} /\ NoCopy.target = {}
<1>1. <<>> \in Listings
  <2>1. <<>> \in [{} -> SUBSET EnvironmentRecords]
    OBVIOUS
  <2> QED BY <2>1 DEF Listings
<1> QED BY <1>1 DEF NoCopy, CopyState, Steps

(* A listing by its environments. *)
LEMMA ListingsAreFunctions ==
  ASSUME NEW c \in CopyState
  PROVE  /\ c.listed = [e \in DOMAIN c.listed |-> c.listed[e]]
         /\ DOMAIN c.listed \subseteq Environments
         /\ \A e \in DOMAIN c.listed : c.listed[e] \in SUBSET EnvironmentRecords
<1>1. c.listed \in Listings
  BY DEF CopyState
<1>2. PICK D \in SUBSET Environments : c.listed \in [D -> SUBSET EnvironmentRecords]
  BY <1>1 DEF Listings
<1> QED BY <1>2

(* The Stores of a copy that has resolved its references. *)
LEMMA OneSourceOneTarget ==
  ASSUME CopyTyped, copy.at \notin {"idle", "resolve"}
  PROVE  /\ Source \in StoreStates /\ Target \in StoreStates
         /\ copy.source = copy.target => Source = Target
         /\ \E s, t \in URLs : /\ copy.source = {s} /\ copy.target = {t}
                               /\ Source = store[s] /\ Target = store[t]
<1>1. \E s, t \in URLs : copy.source = {s} /\ copy.target = {t}
  <2>1. copy.source \in SUBSET URLs /\ copy.target \in SUBSET URLs
    BY DEF CopyTyped, CopyState
  <2>2. PICK s \in copy.source, t \in copy.target : TRUE
    BY DEF CopyTyped
  <2>3. copy.source = {s} /\ copy.target = {t}
    BY DEF CopyTyped, Single
  <2> QED BY <2>1, <2>3
<1>2. PICK s \in URLs, t \in URLs : copy.source = {s} /\ copy.target = {t}
  BY <1>1
<1>3. (CHOOSE u \in {s} : TRUE) = s /\ (CHOOSE u \in {t} : TRUE) = t
  OBVIOUS
<1>4. Source = store[s] /\ Target = store[t]
  BY <1>2, <1>3 DEF Source, Target
<1> QED BY <1>2, <1>4 DEF CopyTyped

-----------------------------------------------------------------------------
(* Steps of a copy *)

(* A step that reads. *)
LEMMA CopyReads ==
  ASSUME CopyFollows, NEW c \in CopyState, copy' = c, UNCHANGED <<file, admin, store, quiet>>,
         copy.at \notin {"idle", "resolve"}, c.source = copy.source, c.target = copy.target,
         Sorted(c),
         quiet => Follows(c, Source, Target)
  PROVE  CopyFollows'
<1>1. Source' = Source /\ Target' = Target
  BY DEF Source, Target
<1>2. CopyTyped'
  BY DEF CopyFollows, CopyTyped
<1> QED BY <1>1, <1>2 DEF CopyFollows

(* A step that writes the target, which may be the source. *)
LEMMA CopyWrites ==
  ASSUME CopyFollows, NEW c \in CopyState, copy' = c, UNCHANGED <<file, admin, quiet>>,
         NEW T \in StoreStates, store' = [u \in URLs |-> IF u \in copy.target THEN T ELSE store[u]],
         copy.at \notin {"idle", "resolve"}, c.source = copy.source, c.target = copy.target,
         Sorted(c),
         \A S \in StoreStates :
           /\ quiet
           /\ IF copy.source = copy.target THEN S = T /\ Source = Target ELSE S = Source
           => Follows(c, S, T)
  PROVE  CopyFollows'
<1>1. CopyTyped
  BY DEF CopyFollows
<1>2. PICK s \in URLs, t \in URLs : /\ copy.source = {s} /\ copy.target = {t}
                                    /\ Source = store[s] /\ Target = store[t]
  BY <1>1, OneSourceOneTarget
<1>3. (CHOOSE u \in {s} : TRUE) = s /\ (CHOOSE u \in {t} : TRUE) = t
  OBVIOUS
<1>4. Target' = T /\ Source' = IF s = t THEN T ELSE store[s]
  BY <1>2, <1>3 DEF Source, Target
<1>5. store' \in [URLs -> StoreStates]
  BY <1>1 DEF CopyTyped
<1>6. CopyTyped'
  BY <1>1, <1>5 DEF CopyTyped
<1>7. Source' \in StoreStates
  BY <1>1, <1>4 DEF CopyTyped
<1>8. copy.source = copy.target <=> s = t
  BY <1>2
<1>9. quiet => Follows(c, Source', T)
  BY <1>2, <1>4, <1>7, <1>8
<1> QED BY <1>4, <1>6, <1>9 DEF CopyFollows
-----------------------------------------------------------------------------
(* The operations of the command before the environments *)

LEMMA StartsEmpty ==
  CopyInit => CopyFollows
<1> SUFFICES ASSUME CopyInit
             PROVE  CopyFollows
  OBVIOUS
<1>1. store \in [URLs -> StoreStates]
  BY CopyAssumption DEF CopyInit
<1>2. file \in ConfigFiles
  BY CopyAssumption DEF CopyInit, ConfigFiles
<1>3. admin \in [Admins -> AdminState]
  BY <1>2 DEF CopyInit, Off, AdminState
<1>4. Single({})
  BY DEF Single
<1> QED BY <1>1, <1>2, <1>3, <1>4, NoCopyIsTyped DEF CopyFollows, CopyTyped, CopyInit, OneByOne, Sorted

(* The commands that change store-config.json. *)
LEMMA SettingsAreTyped ==
  ASSUME CopyFollows, NEW p \in Admins,
         runStoreConfigSet(p) \/ runStoreConfigRemove(p) \/ runStoreUse(p) \/ saveStoreConfig(p)
  PROVE  CopyFollows'
<1>1. /\ CopyTyped /\ UNCHANGED <<store, copy, quiet>>
  BY DEF CopyFollows, runStoreConfigSet, runStoreConfigRemove, runStoreUse, saveStoreConfig, Save
<1>2. file' \in ConfigFiles /\ admin' \in [Admins -> AdminState]
  <2>1. file \in ConfigFiles /\ admin \in [Admins -> AdminState]
    BY <1>1 DEF CopyTyped
  <2>2. ASSUME NEW urls \in {f \in [Names -> SUBSET URLs] : \A n \in Names : Single(f[n])},
               NEW active \in {A \in SUBSET Names : Single(A)}, Save(p, urls, active)
        PROVE  file' \in ConfigFiles /\ admin' \in [Admins -> AdminState]
    <3> DEFINE new == [readable |-> TRUE, urls |-> urls, active |-> active]
    <3>1. [at |-> "truncate", new |-> new] \in AdminState
      BY DEF AdminState, ConfigFiles
    <3> QED BY <2>1, <2>2, <3>1 DEF Save
  <2>3. /\ file.urls \in {f \in [Names -> SUBSET URLs] : \A n \in Names : Single(f[n])}
        /\ file.active \in {A \in SUBSET Names : Single(A)}
    BY <2>1 DEF ConfigFiles
  <2>4. CASE runStoreConfigSet(p)
    <3>1. PICK n \in Names, u \in URLs : Save(p, [file.urls EXCEPT ![n] = {u}], file.active)
      BY <2>4 DEF runStoreConfigSet
    <3>2. Single({u})
      BY DEF Single
    <3>3. [file.urls EXCEPT ![n] = {u}]
            \in {f \in [Names -> SUBSET URLs] : \A m \in Names : Single(f[m])}
      BY <2>3, <3>2
    <3> QED BY <2>2, <2>3, <3>1, <3>3
  <2>5. CASE runStoreConfigRemove(p)
    <3>1. PICK n \in Names : Save(p, [file.urls EXCEPT ![n] = {}], file.active \ {n})
      BY <2>5 DEF runStoreConfigRemove
    <3>2. Single({}) /\ Single(file.active \ {n})
      BY <2>3 DEF Single
    <3>3. [file.urls EXCEPT ![n] = {}]
            \in {f \in [Names -> SUBSET URLs] : \A m \in Names : Single(f[m])}
      BY <2>3, <3>2
    <3>4. file.active \ {n} \in {A \in SUBSET Names : Single(A)}
      BY <2>3, <3>2
    <3> QED BY <2>2, <3>1, <3>3, <3>4
  <2>6. CASE runStoreUse(p)
    <3>1. PICK n \in Names : Save(p, file.urls, {n})
      BY <2>6 DEF runStoreUse
    <3>2. {n} \in {A \in SUBSET Names : Single(A)}
      BY DEF Single
    <3> QED BY <2>2, <2>3, <3>1, <3>2
  <2>7. CASE saveStoreConfig(p)
    <3>1. admin[p].new \in ConfigFiles /\ [file EXCEPT !.readable = FALSE] \in ConfigFiles
      BY <2>1 DEF AdminState, ConfigFiles
    <3>2. /\ [admin[p] EXCEPT !.at = "write"] \in AdminState
          /\ [at |-> "idle", new |-> admin[p].new] \in AdminState
      BY <2>1, <3>1 DEF AdminState
    <3> QED BY <2>1, <2>7, <3>1, <3>2 DEF saveStoreConfig
  <2> QED BY <2>4, <2>5, <2>6, <2>7
<1>3. CopyTyped' /\ Source' = Source /\ Target' = Target
  BY <1>1, <1>2 DEF CopyTyped, Source, Target
<1> QED BY <1>1, <1>3 DEF CopyFollows

(* The begin of a copy, its end and its failures. *)
LEMMA BeginsAndEnds ==
  ASSUME CopyFollows, runStoreCopy \/ Report \/ refuseStoreCopy \/ failStoreCopy
  PROVE  CopyFollows'
<1>1. CopyTyped /\ UNCHANGED <<file, admin, store>>
  BY DEF CopyFollows, runStoreCopy, Report, refuseStoreCopy, failStoreCopy, Read, Continue
<1>2. Single({})
  BY DEF Single
<1>3. CASE copy' = NoCopy
  <2>1. CopyTyped'
    BY <1>1, <1>2, <1>3, NoCopyIsTyped DEF CopyTyped, Sorted, OneByOne
  <2> QED BY <1>3, <2>1, NoCopyIsTyped DEF CopyFollows
<1>4. CASE runStoreCopy
  <2>1. PICK ref \in References, q \in Requirements :
          /\ resolveStoreReference(ref[1]) # {}
          /\ copy' = [NoCopy EXCEPT !.at = "resolve", !.source = resolveStoreReference(ref[1]),
                                    !.to = ref[2], !.require = q]
    BY <1>4 DEF runStoreCopy
  <2> DEFINE c == [NoCopy EXCEPT !.at = "resolve", !.source = resolveStoreReference(ref[1]),
                                 !.to = ref[2], !.require = q]
  <2>2. /\ resolveStoreReference(ref[1]) \in SUBSET URLs /\ Single(resolveStoreReference(ref[1]))
    BY <1>1, ReferenceIsOneStore DEF CopyTyped
  <2>3. /\ c \in CopyState /\ c.at = "resolve" /\ c.source = resolveStoreReference(ref[1])
        /\ c.env = {} /\ c.lost = {} /\ c.graphs = {} /\ c.target = {}
    BY <2>2, NoCopyIsTyped DEF CopyState, Steps
  <2> HIDE DEF c
  <2>4. copy' = c
    BY <2>1 DEF c
  <2>5. CopyTyped'
    BY <1>1, <1>2, <2>1, <2>2, <2>3, <2>4 DEF CopyTyped, Sorted, OneByOne
  <2> QED BY <2>3, <2>4, <2>5 DEF CopyFollows
<1> QED BY <1>3, <1>4 DEF Report, refuseStoreCopy, failStoreCopy, Read, Continue

LEMMA TargetIsResolved ==
  ASSUME CopyFollows, resolveTarget
  PROVE  CopyFollows'
<1> DEFINE c == [copy EXCEPT !.at = "catalog", !.target = resolveStoreReference(copy.to)]
<1>1. /\ CopyTyped /\ UNCHANGED <<file, admin, store, quiet>> /\ copy' = c /\ copy.at = "resolve"
      /\ resolveStoreReference(copy.to) # {}
  BY DEF CopyFollows, resolveTarget, Read, Continue
<1>2. /\ resolveStoreReference(copy.to) \in SUBSET URLs /\ Single(resolveStoreReference(copy.to))
  BY <1>1, ReferenceIsOneStore DEF CopyTyped
<1>3. /\ c \in CopyState /\ c.at = "catalog" /\ c.source = copy.source
      /\ c.target = resolveStoreReference(copy.to)
      /\ c.env = copy.env /\ c.lost = copy.lost /\ c.graphs = copy.graphs
  BY <1>1, <1>2 DEF CopyTyped, CopyState, Steps
<1> HIDE DEF c
<1>4. CopyTyped'
  BY <1>1, <1>2, <1>3 DEF CopyTyped, Sorted, OneByOne
<1> QED BY <1>1, <1>3, <1>4
        DEF CopyFollows, Follows, CatalogFollows, EnvironmentsFollow, RequirementsMet, OneByOne, Listed

(* Before the environments, only the catalog and what belongs to it count. *)
LEMMA OnlyTheCatalog ==
  ASSUME NEW c, NEW S, NEW T, c.at \notin OneByOne \cup {"done"}, CatalogFollows(c, S, T)
  PROVE  Follows(c, S, T)
BY DEF Follows, EnvironmentsFollow, RequirementsMet, OneByOne

LEMMA CatalogIsRead ==
  ASSUME CopyFollows, GetProfileCatalog
  PROVE  CopyFollows'
<1> DEFINE c == [copy EXCEPT !.at = IF Source.catalog = {} THEN "list" ELSE "write catalog",
                             !.catalog = Source.catalog]
<1>1. /\ CopyTyped /\ UNCHANGED <<file, admin, store, quiet>> /\ copy' = c /\ copy.at = "catalog"
  BY DEF CopyFollows, GetProfileCatalog, Read, Continue
<1>2. Source \in StoreStates
  BY <1>1, OneSourceOneTarget
<1>3. /\ c \in CopyState /\ c.source = copy.source /\ c.target = copy.target
      /\ c.at = (IF Source.catalog = {} THEN "list" ELSE "write catalog")
      /\ c.catalog = Source.catalog
      /\ c.env = copy.env /\ c.lost = copy.lost /\ c.graphs = copy.graphs
  BY <1>1, <1>2 DEF CopyTyped, CopyState, Steps, StoreStates
<1> HIDE DEF c
<1>6. copy.env = {} /\ copy.lost = {} /\ copy.graphs = {}
  BY <1>1 DEF CopyTyped, Sorted, OneByOne
<1>4. CatalogFollows(c, Source, Target)
  BY <1>3 DEF CatalogFollows, Listed, OneByOne
<1>5. Follows(c, Source, Target)
  BY <1>3, <1>4, OnlyTheCatalog DEF OneByOne
<1> QED BY <1>1, <1>3, <1>5, <1>6, CopyReads DEF Sorted, OneByOne

LEMMA CatalogIsWritten ==
  ASSUME CopyFollows, ReplaceProfileCatalog
  PROVE  CopyFollows'
<1> DEFINE next == IF \A p \in copy.catalog : ProfileOf[p] = "" THEN "list" ELSE "index"
           c == [copy EXCEPT !.at = next]
           T == [Target EXCEPT !.catalog = copy.catalog]
<1>1. /\ CopyTyped /\ UNCHANGED <<file, admin, quiet>> /\ copy' = c /\ copy.at = "write catalog"
      /\ store' = [u \in URLs |-> IF u \in copy.target THEN T ELSE store[u]]
  BY DEF CopyFollows, ReplaceProfileCatalog, WriteTarget, Continue
<1>2. Source \in StoreStates /\ Target \in StoreStates
  BY <1>1, OneSourceOneTarget
<1>3. /\ c \in CopyState /\ c.source = copy.source /\ c.target = copy.target /\ c.at = next
      /\ c.catalog = copy.catalog /\ c.env = {} /\ c.lost = {} /\ c.graphs = {}
  BY <1>1 DEF CopyTyped, CopyState, Steps, OneByOne, Sorted
<1>4. T \in StoreStates /\ T.catalog = copy.catalog
  BY <1>1, <1>2 DEF StoreStates, CopyTyped, CopyState
<1>5. ASSUME NEW S \in StoreStates, quiet,
             IF copy.source = copy.target THEN S = T /\ Source = Target ELSE S = Source
      PROVE  Follows(c, S, T)
  <2>1. copy.catalog = Source.catalog
    BY <1>1, <1>5 DEF CopyFollows, Follows, CatalogFollows
  <2>2. S.catalog = copy.catalog
    BY <1>4, <1>5, <2>1
  <2>3. next \in {"list", "index"}
        /\ (next = "list" => \A p \in copy.catalog : ProfileOf[p] = "")
    OBVIOUS
  <2> HIDE DEF c, T, next
  <2>4. CatalogFollows(c, S, T)
    BY <1>3, <1>4, <2>2, <2>3 DEF CatalogFollows, Listed, OneByOne
  <2> QED BY <1>3, <2>3, <2>4, OnlyTheCatalog DEF OneByOne
<1>6. Sorted(c)
  <2>1. next \notin OneByOne \cup {"done"}
    BY DEF OneByOne
  <2> HIDE DEF c, next
  <2> QED BY <1>3, <2>1 DEF Sorted
<1> HIDE DEF c, T, next
<1> QED BY <1>1, <1>3, <1>4, <1>5, <1>6, CopyWrites

LEMMA IndexIsCopied ==
  ASSUME CopyFollows, copyProfileIndex
  PROVE  CopyFollows'
<1> DEFINE c == [copy EXCEPT !.at = "config"]
           T == [Target EXCEPT
                   !.index = @ \cup (Source.index \cap {ProfileOf[p] : p \in copy.catalog})]
<1>1. /\ CopyTyped /\ UNCHANGED <<file, admin, quiet>> /\ copy' = c /\ copy.at = "index"
      /\ store' = [u \in URLs |-> IF u \in copy.target THEN T ELSE store[u]]
  BY DEF CopyFollows, copyProfileIndex, WriteTarget, Continue
<1>2. Source \in StoreStates /\ Target \in StoreStates
  BY <1>1, OneSourceOneTarget
<1>3. /\ c \in CopyState /\ c.source = copy.source /\ c.target = copy.target /\ c.at = "config"
      /\ c.catalog = copy.catalog /\ c.env = {} /\ c.lost = {} /\ c.graphs = {}
  BY <1>1 DEF CopyTyped, CopyState, Steps, OneByOne, Sorted
<1>4. T \in StoreStates /\ T.catalog = Target.catalog
  BY <1>2 DEF StoreStates
<1> HIDE DEF c, T
<1>5. ASSUME NEW S \in StoreStates, quiet,
             IF copy.source = copy.target THEN S = T /\ Source = Target ELSE S = Source
      PROVE  Follows(c, S, T)
  <2>1. CatalogFollows(copy, Source, Target)
    BY <1>1, <1>5 DEF CopyFollows, Follows
  <2>2. S.catalog = Source.catalog
    BY <1>4, <1>5
  <2>3. CatalogFollows(c, S, T)
    BY <1>1, <1>3, <1>4, <2>1, <2>2 DEF CatalogFollows, Listed, OneByOne
  <2> QED BY <1>3, <2>3, OnlyTheCatalog DEF OneByOne
<1> QED BY <1>1, <1>3, <1>4, <1>5, CopyWrites DEF Sorted, OneByOne

LEMMA VersionIsCopied ==
  ASSUME CopyFollows, copyActiveConfigVersion
  PROVE  CopyFollows'
<1> DEFINE c == [copy EXCEPT !.at = "models", !.config = Source.config]
           T == IF Source.config = {} THEN Target ELSE [Target EXCEPT !.config = Source.config]
<1>1. /\ CopyTyped /\ UNCHANGED <<file, admin, quiet>> /\ copy' = c /\ copy.at = "config"
      /\ store' = [u \in URLs |->
                     IF u \in copy.target /\ Source.config # {}
                     THEN [store[u] EXCEPT !.config = Source.config] ELSE store[u]]
  BY DEF CopyFollows, copyActiveConfigVersion, Continue
<1>2. PICK s \in URLs, t \in URLs : /\ copy.source = {s} /\ copy.target = {t}
                                    /\ Source = store[s] /\ Target = store[t]
  BY <1>1, OneSourceOneTarget
<1>3. Source \in StoreStates /\ Target \in StoreStates
  BY <1>1, OneSourceOneTarget
<1>4. /\ c \in CopyState /\ c.source = copy.source /\ c.target = copy.target /\ c.at = "models"
      /\ c.catalog = copy.catalog /\ c.config = Source.config
      /\ c.env = {} /\ c.lost = {} /\ c.graphs = {}
  BY <1>1, <1>3 DEF CopyTyped, CopyState, Steps, OneByOne, StoreStates, Sorted
<1>5. T \in StoreStates /\ T.catalog = Target.catalog
      /\ T.config = (IF Source.config = {} THEN Target.config ELSE Source.config)
  BY <1>3 DEF StoreStates
<1>6. store' = [u \in URLs |-> IF u \in copy.target THEN T ELSE store[u]]
  BY <1>1, <1>2
<1> HIDE DEF c, T
<1>7. ASSUME NEW S \in StoreStates, quiet,
             IF copy.source = copy.target THEN S = T /\ Source = Target ELSE S = Source
      PROVE  Follows(c, S, T)
  <2>1. CatalogFollows(copy, Source, Target)
    BY <1>1, <1>7 DEF CopyFollows, Follows
  <2>2. S.catalog = Source.catalog /\ S.config = Source.config
    BY <1>5, <1>7
  <2>3. CatalogFollows(c, S, T)
    BY <1>1, <1>4, <1>5, <2>1, <2>2 DEF CatalogFollows, Listed, OneByOne
  <2> QED BY <1>4, <2>3, OnlyTheCatalog DEF OneByOne
<1> QED BY <1>1, <1>4, <1>5, <1>6, <1>7, CopyWrites DEF Sorted, OneByOne

LEMMA ModelsAreMade ==
  ASSUME CopyFollows, UpsertProfileReadModels
  PROVE  CopyFollows'
<1> DEFINE c == [copy EXCEPT !.at = "list"]
           made == [catalog |-> copy.catalog, config |-> copy.config]
           T == [Target EXCEPT !.models = {made}]
<1>1. /\ CopyTyped /\ UNCHANGED <<file, admin, quiet>> /\ copy' = c /\ copy.at = "models"
      /\ store' = [u \in URLs |-> IF u \in copy.target THEN T ELSE store[u]]
  BY DEF CopyFollows, UpsertProfileReadModels, WriteTarget, Continue
<1>2. Source \in StoreStates /\ Target \in StoreStates
  BY <1>1, OneSourceOneTarget
<1>3. /\ c \in CopyState /\ c.source = copy.source /\ c.target = copy.target /\ c.at = "list"
      /\ c.catalog = copy.catalog /\ c.env = {} /\ c.lost = {} /\ c.graphs = {}
  BY <1>1 DEF CopyTyped, CopyState, Steps, OneByOne, Sorted
<1>4. made \in [catalog : SUBSET Catalogs, config : SUBSET ConfigVersions]
  BY <1>1 DEF CopyTyped, CopyState
<1>5. T \in StoreStates /\ T.catalog = Target.catalog /\ T.config = Target.config
      /\ T.models = {made}
  <2> HIDE DEF made
  <2> QED BY <1>2, <1>4 DEF StoreStates
<1>6. ASSUME NEW S \in StoreStates, quiet,
             IF copy.source = copy.target THEN S = T /\ Source = Target ELSE S = Source
      PROVE  Follows(c, S, T)
  <2>1. CatalogFollows(copy, Source, Target)
    BY <1>1, <1>6 DEF CopyFollows, Follows
  <2> HIDE DEF c, T
  <2>2. S.catalog = Source.catalog /\ S.config = Source.config
    BY <1>5, <1>6
  <2>3. T.models = {[catalog |-> S.catalog, config |-> S.config]}
    BY <1>1, <1>5, <2>1, <2>2 DEF CatalogFollows
  <2> HIDE DEF made
  <2>4. CatalogFollows(c, S, T)
    BY <1>1, <1>3, <1>5, <2>1, <2>2, <2>3 DEF CatalogFollows, Listed, OneByOne
  <2> QED BY <1>3, <2>4, OnlyTheCatalog DEF OneByOne
<1> HIDE DEF c, T
<1> QED BY <1>1, <1>3, <1>5, <1>6, CopyWrites DEF Sorted, OneByOne

-----------------------------------------------------------------------------
(* The environments, one by one *)

(* Once the environments are listed, the catalog and what belongs to it     *)
(* stay as they are.                                                        *)
LEMMA CatalogStays ==
  ASSUME NEW c, NEW d, NEW S, NEW T, NEW S2, NEW T2, CatalogFollows(c, S, T),
         c.at \in Listed, d.at \in Listed, d.catalog = c.catalog,
         S2.catalog = S.catalog, S2.config = S.config, T2.catalog = T.catalog, T2.models = T.models
  PROVE  CatalogFollows(d, S2, T2)
BY DEF CatalogFollows, Listed, OneByOne

LEMMA EnvironmentsAreListed ==
  ASSUME CopyFollows, ListEnvironments
  PROVE  CopyFollows'
<1> DEFINE present == {e \in Environments : Source.environments[e] # {}}
           list == [e \in present |-> {[x EXCEPT !.json = Shown(x)] : x \in Source.environments[e]}]
           c == [copy EXCEPT !.at = "next", !.todo = present, !.listed = list]
<1>1. /\ CopyTyped /\ UNCHANGED <<file, admin, store, quiet>> /\ copy' = c /\ copy.at = "list"
  BY DEF CopyFollows, ListEnvironments, Read, Continue
<1>2. Source \in StoreStates
  BY <1>1, OneSourceOneTarget
<1>3. \A e \in Environments : /\ Source.environments[e] \in SUBSET EnvironmentRecords
                              /\ Single(Source.environments[e])
  BY <1>2 DEF StoreStates
<1>4. \A e \in present : \A x \in Source.environments[e] :
        [x EXCEPT !.json = Shown(x)] \in EnvironmentRecords
  <2> SUFFICES ASSUME NEW e \in present, NEW x \in Source.environments[e]
               PROVE  [x EXCEPT !.json = Shown(x)] \in EnvironmentRecords
    OBVIOUS
  <2>1. x \in EnvironmentRecords
    BY <1>3
  <2>2. Shown(x) \in SUBSET Entries
    BY <2>1 DEF Shown, StructuredView, WithoutMatches, EnvironmentRecords
  <2> QED BY <2>1, <2>2 DEF EnvironmentRecords
<1>5. list \in [present -> SUBSET EnvironmentRecords]
  BY <1>4
<1>6. list \in Listings
  BY <1>5 DEF Listings
<1>7. ASSUME NEW e \in present
      PROVE  list[e] # {} /\ Single(list[e])
  <2>1. PICK x \in Source.environments[e] : Source.environments[e] = {x}
    BY <1>3 DEF Single
  <2>2. list[e] = {[y EXCEPT !.json = Shown(y)] : y \in {x}}
    BY <2>1
  <2>3. list[e] = {[x EXCEPT !.json = Shown(x)]}
    BY <2>2
  <2> HIDE DEF list
  <2> QED BY <2>3 DEF Single
<1>8. /\ DOMAIN list = present /\ present \subseteq Environments
      /\ \A e \in present : list[e] = {[x EXCEPT !.json = Shown(x)] : x \in Source.environments[e]}
      /\ \A e \in present : Source.environments[e] # {}
  OBVIOUS
<1>present. present = {e \in Environments : Source.environments[e] # {}}
  OBVIOUS
<1> HIDE DEF present, list
<1>9. /\ c \in CopyState /\ c.source = copy.source /\ c.target = copy.target /\ c.at = "next"
      /\ c.catalog = copy.catalog /\ c.todo = present /\ c.listed = list
      /\ c.env = {} /\ c.lost = {} /\ c.graphs = {}
  BY <1>1, <1>6, <1>8 DEF CopyTyped, CopyState, Steps, OneByOne, Sorted
<1> HIDE DEF c
<1>10. ASSUME quiet
       PROVE  Follows(c, Source, Target)
  <2>1. CatalogFollows(copy, Source, Target)
    BY <1>1, <1>10 DEF CopyFollows, Follows
  <2>2. CatalogFollows(c, Source, Target)
    BY <1>1, <1>9, <2>1, CatalogStays DEF Listed, OneByOne
  <2>3. \A e : LostOf(c, e) = {}
    BY <1>9 DEF LostOf
  <2>4. \A e \in c.todo : Fresh(c, Source, e)
    BY <1>8, <1>9 DEF Fresh
  <2>5. Done(c) = {}
    BY <1>8, <1>9 DEF Done
  <2>7. /\ DOMAIN c.listed = {e \in Environments : Source.environments[e] # {}}
        /\ c.todo = DOMAIN c.listed
    <3>1. DOMAIN c.listed = present
      BY <1>8, <1>9
    <3> QED BY <3>1, <1>present, <1>9
  <2>8. EnvironmentsFollow(c, Source, Target)
    BY <1>9, <2>3, <2>4, <2>5, <2>7 DEF EnvironmentsFollow
  <2> QED BY <1>9, <2>2, <2>8 DEF Follows, RequirementsMet
<1>11. Sorted(c)
  <2>1. \A e \in DOMAIN c.listed : c.listed[e] # {} /\ Single(c.listed[e])
    BY <1>7, <1>8, <1>9
  <2> QED BY <1>8, <1>9, <2>1 DEF Sorted, Single
<1> QED BY <1>1, <1>9, <1>10, <1>11, CopyReads

LEMMA NextEnvironmentIsRead ==
  ASSUME CopyFollows, listStructuredRows
  PROVE  CopyFollows'
<1>1. PICK E \in copy.todo :
        copy' = [copy EXCEPT !.at = "upsert", !.todo = @ \ {E}, !.env = {E},
                             !.rows = UNION {x.rows : x \in Source.environments[E]}]
        /\ copy.at = "next" /\ UNCHANGED <<file, admin, store, quiet>>
  BY DEF listStructuredRows, Read, Continue
<1> DEFINE read == UNION {x.rows : x \in Source.environments[E]}
           c == [copy EXCEPT !.at = "upsert", !.todo = copy.todo \ {E}, !.env = {E}, !.rows = read]
<1>2. CopyTyped /\ copy' = c
  BY <1>1 DEF CopyFollows, CopyTyped, CopyState
<1>3. Source \in StoreStates /\ E \in Environments
  BY <1>1, <1>2, OneSourceOneTarget DEF CopyTyped, CopyState
<1>4. read \in SUBSET Entries
  <2>1. \A x \in Source.environments[E] : x.rows \in SUBSET Entries
    BY <1>3 DEF StoreStates, EnvironmentRecords
  <2> QED BY <2>1
<1>5. RowsRead([rows |-> read], Source, E)
  BY DEF RowsRead
<1> HIDE DEF read
<1>6. /\ c \in CopyState /\ c.source = copy.source /\ c.target = copy.target /\ c.at = "upsert"
      /\ c.catalog = copy.catalog /\ c.todo = copy.todo \ {E} /\ c.env = {E} /\ c.rows = read
      /\ c.listed = copy.listed /\ c.lost = copy.lost /\ c.graphs = copy.graphs
  BY <1>1, <1>2, <1>3, <1>4 DEF CopyTyped, CopyState, Steps
<1> HIDE DEF c
<1>8. /\ copy.todo \subseteq DOMAIN copy.listed /\ copy.env = {}
      /\ \A e \in DOMAIN copy.listed : copy.listed[e] # {} /\ Single(copy.listed[e])
  BY <1>1, <1>2 DEF CopyTyped, Sorted, OneByOne
<1>9. Sorted(c)
  BY <1>1, <1>6, <1>8 DEF Sorted, Single, OneByOne
<1>7. ASSUME quiet
      PROVE  Follows(c, Source, Target)
  <2>1. CatalogFollows(copy, Source, Target) /\ EnvironmentsFollow(copy, Source, Target)
    BY <1>1, <1>7 DEF CopyFollows, Follows
  <2>2. CatalogFollows(c, Source, Target)
    BY <1>1, <1>6, <2>1, CatalogStays DEF Listed, OneByOne
  <2>3. /\ DOMAIN copy.listed = {e \in Environments : Source.environments[e] # {}}
        /\ \A e \in copy.todo : Fresh(copy, Source, e) /\ LostOf(copy, e) = {}
        /\ \A e \in Done(copy) : /\ Carried(e, LostOf(copy, e), Source, Target)
                                 /\ SameMark(copy, Target, e)
        /\ \A g \in copy.graphs : g[1] \in Done(copy) /\ g[2] = Target.graphs[g[1]]
    BY <1>1, <2>1 DEF EnvironmentsFollow, OneByOne
  <2>4. Done(c) = Done(copy)
    BY <1>1, <1>6, <1>8 DEF Done
  <2>5. \A e : LostOf(c, e) = LostOf(copy, e)
    BY <1>6 DEF LostOf
  <2>6. \A e : /\ Fresh(c, Source, e) <=> Fresh(copy, Source, e)
               /\ SameMark(c, Target, e) <=> SameMark(copy, Target, e)
    BY <1>6 DEF Fresh, SameMark
  <2>7. RowsRead(c, Source, E)
    BY <1>5, <1>6 DEF RowsRead
  <2>9. DOMAIN c.listed = {e \in Environments : Source.environments[e] # {}}
    BY <1>6, <2>3
  <2>10. \A e \in c.todo : Fresh(c, Source, e) /\ LostOf(c, e) = {}
    BY <1>6, <2>3, <2>5, <2>6
  <2>11. \A e \in c.env : /\ LostOf(c, e) = {} /\ Fresh(c, Source, e) /\ RowsRead(c, Source, e)
    BY <1>1, <1>6, <2>3, <2>5, <2>6, <2>7
  <2>12. /\ \A e \in Done(c) : Carried(e, LostOf(c, e), Source, Target) /\ SameMark(c, Target, e)
         /\ \A g \in c.graphs : g[1] \in Done(c) /\ g[2] = Target.graphs[g[1]]
    BY <1>6, <2>3, <2>4, <2>5, <2>6
  <2>13. EnvironmentsFollow(c, Source, Target)
    BY <1>6, <2>9, <2>10, <2>11, <2>12 DEF EnvironmentsFollow
  <2> QED BY <1>6, <2>2, <2>13 DEF Follows, RequirementsMet
<1> QED BY <1>1, <1>2, <1>6, <1>7, <1>9, CopyReads

(* A write of the environment under way, to which only its own entry in the *)
(* target belongs, leaves what was copied and what is still to be copied.   *)
Underway == {"list rows", "service rows", "check rows", "graph"}
LEMMA AtOneEnvironment ==
  ASSUME NEW c \in CopyState, NEW d \in CopyState, NEW E \in Environments, c.env = {E},
         NEW S \in StoreStates, NEW T \in StoreStates,
         NEW S2 \in StoreStates, NEW T2 \in StoreStates,
         Sorted(c), EnvironmentsFollow(c, S, T), c.at \in Underway \cup {"upsert"}, d.at \in Underway,
         d.todo = c.todo, d.listed = c.listed, d.env = c.env, d.rows = c.rows,
         d.graphs = c.graphs, d.source = c.source, d.target = c.target,
         \A e \in Environments \ {E} : LostOf(d, e) = LostOf(c, e),
         \A e \in Environments \ {E} : T2.environments[e] = T.environments[e],
         T2.graphs = T.graphs,
         IF c.source = c.target THEN S2 = T2 /\ S = T ELSE S2 = S,
         Arriving(d, T2, E)
  PROVE  EnvironmentsFollow(d, S2, T2)
<1>1. /\ DOMAIN c.listed = {e \in Environments : S.environments[e] # {}}
      /\ c.todo \subseteq DOMAIN c.listed /\ c.env \subseteq DOMAIN c.listed \ c.todo
      /\ \A e \in c.todo : Fresh(c, S, e) /\ LostOf(c, e) = {}
      /\ \A e \in c.env : c.source # c.target => Fresh(c, S, e) /\ RowsRead(c, S, e)
      /\ \A e \in Done(c) : Carried(e, LostOf(c, e), S, T) /\ SameMark(c, T, e)
      /\ \A g \in c.graphs : g[1] \in Done(c) /\ g[2] = T.graphs[g[1]]
  BY DEF Sorted, EnvironmentsFollow, OneByOne, Underway
<1>2. \A e \in Environments \ {E} : S2.environments[e] = S.environments[e]
  OBVIOUS
<1>3. S2.graphs = S.graphs
  OBVIOUS
<1>4. S2.environments[E] # {} <=> S.environments[E] # {}
  <2>1. S.environments[E] # {}
    BY <1>1
  <2>2. T2.environments[E] # {}
    BY DEF Arriving
  <2> QED BY <2>1, <2>2
<1>5. DOMAIN d.listed = {e \in Environments : S2.environments[e] # {}}
  BY <1>1, <1>2, <1>4
<1>6. Done(d) = Done(c) /\ E \notin Done(c) /\ Done(c) \subseteq Environments
  BY <1>1 DEF Done
<1>7. \A e \in d.todo : Fresh(d, S2, e) /\ LostOf(d, e) = {}
  <2> SUFFICES ASSUME NEW e \in d.todo
               PROVE  Fresh(d, S2, e) /\ LostOf(d, e) = {}
    OBVIOUS
  <2>1. e \in Environments \ {E}
    BY <1>1
  <2>2. S2.environments[e] = S.environments[e]
    BY <1>2, <2>1
  <2> QED BY <1>1, <2>1, <2>2 DEF Fresh
<1>8. \A e \in d.env : d.source # d.target => Fresh(d, S2, e) /\ RowsRead(d, S2, e)
  BY <1>1 DEF Fresh, RowsRead
<1>9. \A e \in Done(d) : Carried(e, LostOf(d, e), S2, T2) /\ SameMark(d, T2, e)
  <2> SUFFICES ASSUME NEW e \in Done(d)
               PROVE  Carried(e, LostOf(d, e), S2, T2) /\ SameMark(d, T2, e)
    OBVIOUS
  <2>1. /\ Carried(e, LostOf(c, e), S, T) /\ SameMark(c, T, e)
        /\ S2.environments[e] = S.environments[e] /\ T2.environments[e] = T.environments[e]
        /\ LostOf(d, e) = LostOf(c, e)
    BY <1>1, <1>2, <1>6
  <2> QED BY <1>3, <2>1 DEF Carried, SameMark
<1>10. \A g \in d.graphs : g[1] \in Done(d) /\ g[2] = T2.graphs[g[1]]
  BY <1>1, <1>6
<1> QED BY <1>1, <1>5, <1>7, <1>8, <1>9, <1>10 DEF EnvironmentsFollow, OneByOne, Underway

(* The environment under way. *)
LEMMA OneUnderway ==
  ASSUME CopyTyped, copy.at \in Underway \cup {"upsert"}
  PROVE  \E E \in Environments, z \in EnvironmentRecords :
           /\ copy.env = {E} /\ Environment = E
           /\ E \in DOMAIN copy.listed /\ copy.listed[E] = {z}
<1>1. PICK E \in copy.env : copy.env = {E} /\ E \in DOMAIN copy.listed
  <2>1. copy.env # {} /\ Single(copy.env) /\ copy.env \subseteq DOMAIN copy.listed
    BY DEF CopyTyped, Sorted, OneByOne, Underway
  <2>2. PICK E \in copy.env : TRUE
    BY <2>1
  <2>3. copy.env = {E}
    BY <2>1, <2>2 DEF Single
  <2> QED BY <2>1, <2>3
<1>2. (CHOOSE e \in {E} : TRUE) = E
  OBVIOUS
<1>3. copy \in CopyState
  BY DEF CopyTyped
<1>4. E \in Environments /\ copy.listed[E] \in SUBSET EnvironmentRecords
  BY <1>1, <1>3, ListingsAreFunctions
<1>5. copy.listed[E] # {} /\ Single(copy.listed[E])
  BY <1>1 DEF CopyTyped, Sorted, OneByOne, Underway
<1>6. PICK z \in copy.listed[E] : copy.listed[E] = {z}
  BY <1>5 DEF Single
<1> QED BY <1>1, <1>2, <1>4, <1>6 DEF Environment

(* A Store with another environment. *)
LEMMA EnvironmentReplaced ==
  ASSUME NEW T \in StoreStates, NEW E \in Environments,
         NEW F \in SUBSET EnvironmentRecords, Single(F)
  PROVE  LET new == [T EXCEPT !.environments[E] = F] IN
         /\ new \in StoreStates /\ new.catalog = T.catalog /\ new.models = T.models
         /\ new.config = T.config /\ new.graphs = T.graphs /\ new.environments[E] = F
         /\ \A e \in Environments \ {E} : new.environments[e] = T.environments[e]
<1>1. F \in {G \in SUBSET EnvironmentRecords : Single(G)}
  OBVIOUS
<1> QED BY <1>1 DEF StoreStates

(* What is added to the lost entries of one environment. *)
LEMMA LostGrows ==
  ASSUME NEW c \in CopyState, NEW d \in CopyState, NEW E \in Environments, NEW L \in SUBSET Entries,
         d.lost = c.lost \cup {<<E, j>> : j \in L}
  PROVE  /\ LostOf(d, E) = LostOf(c, E) \cup L
         /\ \A e \in Environments \ {E} : LostOf(d, e) = LostOf(c, e)
<1>1. \A j \in L : <<E, j>>[1] = E /\ <<E, j>>[2] = j
  OBVIOUS
<1>2. \A l \in d.lost : l \in c.lost \/ (l[1] = E /\ l[2] \in L)
  BY <1>1
<1>3. c.lost \subseteq d.lost
  OBVIOUS
<1>4. \A j \in L : \E l \in d.lost : l[1] = E /\ l[2] = j
  BY <1>1
<1>5. LostOf(d, E) = LostOf(c, E) \cup L
  BY <1>2, <1>3, <1>4 DEF LostOf
<1>6. \A e \in Environments \ {E} : LostOf(d, e) = LostOf(c, e)
  BY <1>2, <1>3 DEF LostOf
<1> QED BY <1>5, <1>6

(* The steps that write the environment under way and keep it under way.    *)
LEMMA EnvironmentIsWritten ==
  ASSUME CopyFollows, UNCHANGED <<file, admin, quiet>>, copy.at \in Underway \cup {"upsert"},
         NEW E \in Environments, copy.env = {E}, NEW d \in CopyState, copy' = d, d.at \in Underway,
         d.todo = copy.todo, d.listed = copy.listed, d.env = copy.env, d.rows = copy.rows,
         d.graphs = copy.graphs, d.source = copy.source, d.target = copy.target,
         d.catalog = copy.catalog,
         \A e \in Environments \ {E} : LostOf(d, e) = LostOf(copy, e),
         NEW F \in SUBSET EnvironmentRecords, Single(F),
         store' = [u \in URLs |-> IF u \in copy.target THEN [Target EXCEPT !.environments[E] = F]
                                  ELSE store[u]],
         quiet => \A T \in StoreStates : T.environments[E] = F => Arriving(d, T, E)
  PROVE  CopyFollows'
<1> DEFINE T == [Target EXCEPT !.environments[E] = F]
<1>1. CopyTyped /\ copy \in CopyState /\ Sorted(copy)
  BY DEF CopyFollows, CopyTyped
<1>2. copy.at \notin {"idle", "resolve"}
  BY DEF Underway
<1>3. Target \in StoreStates /\ Source \in StoreStates
  BY <1>1, <1>2, OneSourceOneTarget
<1>4. /\ T \in StoreStates /\ T.catalog = Target.catalog /\ T.models = Target.models
      /\ T.config = Target.config /\ T.graphs = Target.graphs /\ T.environments[E] = F
      /\ \A e \in Environments \ {E} : T.environments[e] = Target.environments[e]
  BY <1>3, EnvironmentReplaced
<1>5. store' = [u \in URLs |-> IF u \in copy.target THEN T ELSE store[u]]
  OBVIOUS
<1> HIDE DEF T
<1>6. Sorted(d)
  BY <1>1 DEF Sorted, OneByOne, Underway
<1>7. ASSUME NEW S \in StoreStates, quiet,
             IF copy.source = copy.target THEN S = T /\ Source = Target ELSE S = Source
      PROVE  Follows(d, S, T)
  <2>1. CatalogFollows(copy, Source, Target) /\ EnvironmentsFollow(copy, Source, Target)
    BY <1>2, <1>7 DEF CopyFollows, Follows
  <2>2. S.catalog = Source.catalog /\ S.config = Source.config
    BY <1>4, <1>7
  <2>3. CatalogFollows(d, S, T)
    BY <1>4, <2>1, <2>2, CatalogStays DEF Listed, OneByOne, Underway
  <2>4. Arriving(d, T, E)
    BY <1>4, <1>7
  <2>5. EnvironmentsFollow(d, S, T)
    BY <1>1, <1>3, <1>4, <1>7, <2>1, <2>4, AtOneEnvironment
  <2> QED BY <2>3, <2>5 DEF Follows, RequirementsMet, Underway
<1> QED BY <1>2, <1>4, <1>5, <1>6, <1>7, CopyWrites

LEMMA EnvironmentIsUpserted ==
  ASSUME CopyFollows, UpsertEnvironment
  PROVE  CopyFollows'
<1>1. CopyTyped /\ copy \in CopyState /\ copy.at = "upsert" /\ UNCHANGED <<file, admin, quiet>>
  BY DEF CopyFollows, CopyTyped, UpsertEnvironment
<1>2. PICK E \in Environments, z \in EnvironmentRecords :
        copy.env = {E} /\ Environment = E /\ E \in DOMAIN copy.listed /\ copy.listed[E] = {z}
  BY <1>1, OneUnderway
<1>3. Target \in StoreStates
  BY <1>1, OneSourceOneTarget
<1> DEFINE sent == storeCopyEnvironmentForTarget(z.json, copy.rows)
           kept == WithoutMatches(sent, TargetRows)
           a == [z EXCEPT !.json = sent, !.rows = TargetRows]
           b == [a EXCEPT !.json = kept]
           L == (sent \ kept) \ copy.rows
           d == [copy EXCEPT !.at = "list rows", !.lost = copy.lost \cup {<<E, j>> : j \in L}]
<1>4. TargetRows \in SUBSET Entries
  <2>1. \A x \in Target.environments[E] : x.rows \in SUBSET Entries
    BY <1>3 DEF StoreStates, EnvironmentRecords
  <2> QED BY <1>2, <2>1 DEF TargetRows
<1>5. sent \in SUBSET Entries /\ kept \subseteq sent
  BY DEF storeCopyEnvironmentForTarget, WithoutMatches, EnvironmentRecords
<1>6. ForTarget = {a}
  BY <1>2 DEF ForTarget
<1> HIDE DEF sent
<1>7. a \in EnvironmentRecords /\ a.json = sent /\ a.rows = TargetRows
      /\ a.workflow = z.workflow /\ a.verified = z.verified
  BY <1>4, <1>5 DEF EnvironmentRecords
<1>8. {[x EXCEPT !.json = WithoutMatches(x.json, TargetRows)] : x \in ForTarget} = {b}
  BY <1>6, <1>7
<1>9. (UNION {x.json \ WithoutMatches(x.json, TargetRows) : x \in ForTarget}) \ copy.rows = L
  <2> DEFINE out == {x.json \ WithoutMatches(x.json, TargetRows) : x \in ForTarget}
  <2>1. out = {sent \ kept}
    BY <1>6, <1>7
  <2> HIDE DEF a, kept, out
  <2>2. UNION out = sent \ kept
    BY <2>1
  <2>3. (UNION out) \ copy.rows = L
    BY <2>2
  <2> QED BY <2>3 DEF out
<1> HIDE DEF a, kept
<1>10. /\ b \in EnvironmentRecords /\ b.json = kept /\ b.rows = TargetRows
       /\ b.workflow = z.workflow /\ b.verified = z.verified
  BY <1>5, <1>7 DEF EnvironmentRecords
<1>11. /\ copy' = d
       /\ store' = [u \in URLs |-> IF u \in copy.target
                                   THEN [store[u] EXCEPT !.environments[E] = {b}] ELSE store[u]]
  <2>1. /\ copy' = [copy EXCEPT !.at = "list rows",
                     !.lost = @ \cup {<<Environment, j>> :
                                j \in (UNION {x.json \ WithoutMatches(x.json, TargetRows) :
                                              x \in ForTarget}) \ copy.rows}]
        /\ store' = [u \in URLs |->
             IF u \in copy.target
             THEN [store[u] EXCEPT !.environments[Environment] =
                     {[x EXCEPT !.json = WithoutMatches(x.json, TargetRows)] : x \in ForTarget}]
             ELSE store[u]]
    BY DEF UpsertEnvironment
  <2> HIDE DEF b, L
  <2>2. copy' = d
    BY <1>1, <1>2, <1>9, <2>1
  <2> QED BY <1>2, <1>8, <2>1, <2>2
<1> HIDE DEF b
<1>12. L \in SUBSET Entries
  BY <1>5
<1> HIDE DEF L
<1>13. /\ d \in CopyState /\ d.at = "list rows" /\ d.lost = copy.lost \cup {<<E, j>> : j \in L}
       /\ d.todo = copy.todo /\ d.listed = copy.listed /\ d.env = copy.env /\ d.rows = copy.rows
       /\ d.graphs = copy.graphs /\ d.source = copy.source /\ d.target = copy.target
       /\ d.catalog = copy.catalog
  <2>1. {<<E, j>> : j \in L} \subseteq Environments \X Entries
    BY <1>12
  <2> QED BY <1>1, <2>1 DEF CopyState, Steps
<1> HIDE DEF d
<1>14. LostOf(d, E) = LostOf(copy, E) \cup L
       /\ \A e \in Environments \ {E} : LostOf(d, e) = LostOf(copy, e)
  BY <1>1, <1>12, <1>13, LostGrows
<1>15. store' = [u \in URLs |-> IF u \in copy.target THEN [Target EXCEPT !.environments[E] = {b}]
                                ELSE store[u]]
  <2>1. PICK t \in URLs : copy.target = {t} /\ Target = store[t]
    BY <1>1, OneSourceOneTarget
  <2> QED BY <1>11, <2>1
<1>16. ASSUME quiet, NEW T \in StoreStates, T.environments[E] = {b}
       PROVE  Arriving(d, T, E)
  <2>1. LostOf(copy, E) = {}
    BY <1>1, <1>2, <1>16 DEF CopyFollows, Follows, EnvironmentsFollow, OneByOne
  <2>2. LostOf(d, E) = (sent \ b.json) \ copy.rows
    BY <1>10, <1>14, <2>1 DEF L
  <2>3. ReplacedKinds(d.at) = {}
    BY <1>13 DEF ReplacedKinds
  <2>4. d.listed[E] = {z} /\ d.rows = copy.rows
    BY <1>2, <1>13
  <2>5. SameMark(d, T, E)
    BY <1>10, <1>16, <2>4 DEF SameMark
  <2> QED BY <1>5, <1>10, <1>16, <2>2, <2>3, <2>4, <2>5 DEF Arriving, sent
<1>17. {b} \in SUBSET EnvironmentRecords /\ Single({b})
  BY <1>10 DEF Single
<1> QED BY <1>1, <1>2, <1>11, <1>13, <1>14, <1>15, <1>16, <1>17, EnvironmentIsWritten DEF Underway

LEMMA RowsAreReplaced ==
  ASSUME CopyFollows, NEW here \in {"list rows", "service rows", "check rows"},
         NEW kinds \in SUBSET {"list", "content", "service", "check"}, NEW next \in Underway,
         ReplaceRows(here, kinds, next),
         ReplacedKinds(next) = ReplacedKinds(here) \cup kinds
  PROVE  CopyFollows'
<1>1. CopyTyped /\ copy \in CopyState /\ copy.at = here /\ UNCHANGED <<file, admin, quiet>>
  BY DEF CopyFollows, CopyTyped, ReplaceRows, WriteTarget, Continue
<1>2. PICK E \in Environments, z \in EnvironmentRecords :
        copy.env = {E} /\ Environment = E /\ E \in DOMAIN copy.listed /\ copy.listed[E] = {z}
  BY <1>1, OneUnderway DEF Underway
<1>3. Target \in StoreStates
  BY <1>1, OneSourceOneTarget
<1> DEFINE new(x) == [x EXCEPT !.rows = {r \in x.rows : Kind[r] \notin kinds}
                                        \cup {r \in copy.rows : Kind[r] \in kinds}]
           F == {new(x) : x \in Target.environments[E]}
           d == [copy EXCEPT !.at = next]
<1>4. /\ copy' = d
      /\ store' = [u \in URLs |-> IF u \in copy.target THEN [Target EXCEPT !.environments[E] = F]
                                  ELSE store[u]]
  BY <1>2 DEF ReplaceRows, WriteTarget, Continue
<1>5. /\ d \in CopyState /\ d.at = next /\ d.lost = copy.lost
      /\ d.todo = copy.todo /\ d.listed = copy.listed /\ d.env = copy.env /\ d.rows = copy.rows
      /\ d.graphs = copy.graphs /\ d.source = copy.source /\ d.target = copy.target
      /\ d.catalog = copy.catalog
  BY <1>1 DEF CopyState, Steps, Underway
<1> HIDE DEF d
<1>6. copy.rows \in SUBSET Entries /\ Target.environments[E] \in SUBSET EnvironmentRecords
      /\ Single(Target.environments[E])
  BY <1>1, <1>3 DEF CopyState, StoreStates
<1>7. ASSUME NEW x \in Target.environments[E]
      PROVE  /\ new(x) \in EnvironmentRecords /\ new(x).json = x.json
             /\ new(x).workflow = x.workflow /\ new(x).verified = x.verified
             /\ new(x).rows = {r \in x.rows : Kind[r] \notin kinds}
                              \cup {r \in copy.rows : Kind[r] \in kinds}
  BY <1>6 DEF EnvironmentRecords
<1> HIDE DEF new
<1>8. F \in SUBSET EnvironmentRecords
  BY <1>7
<1>9. Single(F)
  BY <1>6 DEF Single
<1>10. ASSUME quiet, NEW T \in StoreStates, T.environments[E] = F
       PROVE  Arriving(d, T, E)
  <2>1. Arriving(copy, Target, E)
    BY <1>1, <1>2, <1>10 DEF CopyFollows, Follows, EnvironmentsFollow, OneByOne
  <2>2. F # {}
    <3>1. PICK x \in Target.environments[E] : TRUE
      BY <2>1 DEF Arriving
    <3>2. new(x) \in F
      BY <3>1
    <3> QED BY <3>2
  <2>3. \A y \in F : \E x \in Target.environments[E] : y = new(x)
    OBVIOUS
  <2>4. SameMark(d, T, E)
    <3>1. \A x \in Target.environments[E], q \in copy.listed[E] :
            new(x).workflow = q.workflow /\ new(x).verified = q.verified
      BY <1>7, <2>1 DEF Arriving, SameMark
    <3>2. \A y \in F, q \in copy.listed[E] : y.workflow = q.workflow /\ y.verified = q.verified
      <4> SUFFICES ASSUME NEW y \in F, NEW q \in copy.listed[E]
                   PROVE  y.workflow = q.workflow /\ y.verified = q.verified
        OBVIOUS
      <4>1. PICK x \in Target.environments[E] : y = new(x)
        BY <2>3
      <4> QED BY <3>1, <4>1
    <3> HIDE DEF F
    <3> QED BY <1>5, <1>10, <3>2 DEF SameMark
  <2>5. \A e : LostOf(d, e) = LostOf(copy, e)
    BY <1>5 DEF LostOf
  <2>6. ASSUME NEW y \in F, NEW q \in copy.listed[E]
        PROVE  LET sent == storeCopyEnvironmentForTarget(q.json, copy.rows) IN
               /\ y.json \subseteq sent /\ LostOf(d, E) = (sent \ y.json) \ copy.rows
               /\ \A i \in Entries : Kind[i] \in ReplacedKinds(next) => (i \in y.rows <=> i \in copy.rows)
    <3>1. PICK x \in Target.environments[E] : y = new(x)
      BY <2>3
    <3> DEFINE sent == storeCopyEnvironmentForTarget(q.json, copy.rows)
    <3>2. /\ x.json \subseteq sent /\ LostOf(copy, E) = (sent \ x.json) \ copy.rows
          /\ \A i \in Entries : Kind[i] \in ReplacedKinds(here) => (i \in x.rows <=> i \in copy.rows)
      BY <1>1, <2>1 DEF Arriving
    <3> HIDE DEF sent
    <3>3. y.json = x.json
          /\ y.rows = {r \in x.rows : Kind[r] \notin kinds} \cup {r \in copy.rows : Kind[r] \in kinds}
      BY <1>7, <3>1
    <3>4. \A i \in Entries : Kind[i] \in ReplacedKinds(next) => (i \in y.rows <=> i \in copy.rows)
      BY <3>2, <3>3
    <3> QED BY <2>5, <3>2, <3>3, <3>4 DEF sent
  <2> QED BY <1>5, <1>10, <2>2, <2>4, <2>6 DEF Arriving
<1> HIDE DEF F
<1>11. \A e \in Environments \ {E} : LostOf(d, e) = LostOf(copy, e)
  BY <1>5 DEF LostOf
<1> QED BY <1>1, <1>2, <1>4, <1>5, <1>8, <1>9, <1>10, <1>11, EnvironmentIsWritten DEF Underway

LEMMA AllRowsAreReplaced ==
  ASSUME CopyFollows, ReplaceTargetFiles \/ ReplaceTargetServices \/ ReplaceTargetChecks
  PROVE  CopyFollows'
<1>1. /\ ReplacedKinds("service rows") = ReplacedKinds("list rows") \cup {"list", "content"}
      /\ ReplacedKinds("check rows") = ReplacedKinds("service rows") \cup {"service"}
      /\ ReplacedKinds("graph") = ReplacedKinds("check rows") \cup {"check"}
  BY DEF ReplacedKinds
<1> QED BY <1>1, RowsAreReplaced
        DEF ReplaceTargetFiles, ReplaceTargetServices, ReplaceTargetChecks, Underway

(* What has arrived whole is carried over. *)
LEMMA ArrivedIsCarried ==
  ASSUME NEW c \in CopyState, c.at = "graph", NEW E \in Environments,
         NEW S \in StoreStates, NEW T \in StoreStates, E \in DOMAIN c.listed,
         S.environments[E] # {}, Single(c.listed[E]), c.listed[E] # {}, Arriving(c, T, E),
         c.source = c.target => S = T, c.source # c.target => Fresh(c, S, E) /\ RowsRead(c, S, E)
  PROVE  \A x \in S.environments[E], y \in T.environments[E] :
           /\ y.workflow = x.workflow /\ y.verified = x.verified
           /\ Shown(y) = Shown(x) \ LostOf(c, E)
<1> SUFFICES ASSUME NEW x \in S.environments[E], NEW y \in T.environments[E]
             PROVE  /\ y.workflow = x.workflow /\ y.verified = x.verified
                    /\ Shown(y) = Shown(x) \ LostOf(c, E)
  OBVIOUS
<1>1. /\ x \in EnvironmentRecords /\ y \in EnvironmentRecords
      /\ S.environments[E] = {x} /\ T.environments[E] = {y}
  BY DEF StoreStates, Single
<1>2. PICK z \in c.listed[E] : c.listed[E] = {z}
  BY DEF Single
<1> DEFINE sent == storeCopyEnvironmentForTarget(z.json, c.rows)
<1>3. /\ y.json \subseteq sent /\ LostOf(c, E) = (sent \ y.json) \ c.rows
      /\ \A i \in Entries : Kind[i] \in ReplacedKinds("graph") => (i \in y.rows <=> i \in c.rows)
      /\ y.workflow = z.workflow /\ y.verified = z.verified
  BY <1>2 DEF Arriving, SameMark
<1>4. y.rows = c.rows
  <2>1. \A i \in Entries : Kind[i] \in ReplacedKinds("graph")
    BY CopyAssumption DEF ReplacedKinds
  <2>2. y.rows \in SUBSET Entries /\ c.rows \in SUBSET Entries
    BY <1>1 DEF EnvironmentRecords, CopyState
  <2> QED BY <1>3, <2>1, <2>2
<1>5. CASE c.source = c.target
  <2>1. x = y
    BY <1>1, <1>5
  <2>2. Shown(y) \subseteq y.rows \cup y.json
    BY DEF Shown, StructuredView, WithoutMatches
  <2> HIDE DEF sent
  <2> QED BY <1>3, <1>4, <2>1, <2>2
<1>6. CASE c.source # c.target
  <2>1. c.listed[E] = {[u EXCEPT !.json = Shown(u)] : u \in {x}} /\ c.rows = UNION {u.rows : u \in {x}}
    BY <1>1, <1>6 DEF Fresh, RowsRead
  <2>2. z = [x EXCEPT !.json = Shown(x)]
    BY <1>2, <2>1
  <2>3. z.json = Shown(x) /\ z.workflow = x.workflow /\ z.verified = x.verified
    BY <1>1, <2>2 DEF EnvironmentRecords
  <2>4. c.rows = x.rows
    <3>1. {u.rows : u \in {x}} = {x.rows}
      OBVIOUS
    <3> QED BY <2>1, <3>1
  <2>5. y.json \subseteq storeCopyEnvironmentForTarget(StructuredView(x.json, x.rows), x.rows)
    BY <1>3, <2>3, <2>4 DEF Shown
  <2>6. StructuredView(y.json, x.rows)
          = StructuredView(x.json, x.rows)
            \ ((storeCopyEnvironmentForTarget(StructuredView(x.json, x.rows), x.rows) \ y.json) \ x.rows)
    BY <2>5, NothingElseIsLost
  <2>7. Shown(y) = Shown(x) \ LostOf(c, E)
    BY <1>3, <1>4, <2>3, <2>4, <2>6 DEF Shown
  <2> QED BY <1>3, <2>3, <2>7
<1> QED BY <1>5, <1>6

LEMMA GraphIsCopied ==
  ASSUME CopyFollows, copyComponentGraph
  PROVE  CopyFollows'
<1>1. CopyTyped /\ copy \in CopyState /\ Sorted(copy) /\ copy.at = "graph"
      /\ UNCHANGED <<file, admin, quiet>>
  BY DEF CopyFollows, CopyTyped, copyComponentGraph, Continue
<1>2. PICK E \in Environments, z \in EnvironmentRecords :
        copy.env = {E} /\ Environment = E /\ E \in DOMAIN copy.listed /\ copy.listed[E] = {z}
  BY <1>1, OneUnderway DEF Underway
<1>3. Source \in StoreStates /\ Target \in StoreStates
  BY <1>1, OneSourceOneTarget
<1> DEFINE g == Source.graphs[E]
           more == IF g = {} THEN copy.graphs ELSE copy.graphs \cup {<<E, g>>}
           d == [copy EXCEPT !.at = "next", !.env = {}, !.rows = {}, !.graphs = more]
           T == IF g = {} THEN Target ELSE [Target EXCEPT !.graphs[E] = g]
<1>4. g \in SUBSET Parts
  BY <1>3 DEF StoreStates
<1>5. copy' = d
  BY <1>1, <1>2 DEF copyComponentGraph, Continue
<1>6. store' = [u \in URLs |-> IF u \in copy.target THEN T ELSE store[u]]
  <2>1. PICK t \in URLs : copy.target = {t} /\ Target = store[t]
    BY <1>1, OneSourceOneTarget
  <2>2. store' = [u \in URLs |-> IF u \in copy.target /\ g # {}
                                 THEN [store[u] EXCEPT !.graphs[E] = g] ELSE store[u]]
    BY <1>2 DEF copyComponentGraph
  <2> QED BY <2>1, <2>2
<1>7. /\ T \in StoreStates /\ T.catalog = Target.catalog /\ T.models = Target.models
      /\ T.config = Target.config /\ T.environments = Target.environments
      /\ T.graphs[E] = (IF g = {} THEN Target.graphs[E] ELSE g)
      /\ \A e \in Environments \ {E} : T.graphs[e] = Target.graphs[e]
  BY <1>3, <1>4 DEF StoreStates
<1>8. more \in SUBSET (Environments \X SUBSET Parts)
      /\ \A k \in more : k \in copy.graphs \/ (g # {} /\ k[1] = E /\ k[2] = g)
  <2> HIDE DEF g
  <2>1. copy.graphs \in SUBSET (Environments \X SUBSET Parts)
    BY <1>1 DEF CopyState
  <2>2. <<E, g>> \in Environments \X SUBSET Parts
    BY <1>4
  <2>3. <<E, g>>[1] = E /\ <<E, g>>[2] = g
    OBVIOUS
  <2> QED BY <2>1, <2>2, <2>3
<1> HIDE DEF T, more
<1>9. /\ d \in CopyState /\ d.at = "next" /\ d.env = {} /\ d.graphs = more
      /\ d.todo = copy.todo /\ d.listed = copy.listed /\ d.lost = copy.lost
      /\ d.source = copy.source /\ d.target = copy.target /\ d.catalog = copy.catalog
  BY <1>1, <1>8 DEF CopyState, Steps
<1> HIDE DEF d
<1>10. Sorted(d)
  BY <1>1, <1>9 DEF Sorted, OneByOne, Single
<1>11. ASSUME NEW S \in StoreStates, quiet,
              IF copy.source = copy.target THEN S = T /\ Source = Target ELSE S = Source
       PROVE  Follows(d, S, T)
  <2>1. CatalogFollows(copy, Source, Target) /\ EnvironmentsFollow(copy, Source, Target)
    BY <1>1, <1>11 DEF CopyFollows, Follows
  <2>2. S.catalog = Source.catalog /\ S.config = Source.config /\ S.environments = Source.environments
    BY <1>7, <1>11
  <2>3. \A e \in Environments : S.graphs[e] = Source.graphs[e]
    BY <1>7, <1>11
  <2>4. CatalogFollows(d, S, T)
    BY <1>1, <1>7, <1>9, <2>1, <2>2, CatalogStays DEF Listed, OneByOne
  <2>5. \A e : LostOf(d, e) = LostOf(copy, e)
    BY <1>9 DEF LostOf
  <2>6. /\ DOMAIN copy.listed = {e \in Environments : Source.environments[e] # {}}
        /\ \A e \in copy.todo : Fresh(copy, Source, e) /\ LostOf(copy, e) = {}
        /\ copy.source # copy.target => Fresh(copy, Source, E) /\ RowsRead(copy, Source, E)
        /\ Arriving(copy, Target, E)
        /\ \A e \in Done(copy) : /\ Carried(e, LostOf(copy, e), Source, Target)
                                 /\ SameMark(copy, Target, e)
        /\ \A k \in copy.graphs : k[1] \in Done(copy) /\ k[2] = Target.graphs[k[1]]
    BY <1>1, <1>2, <2>1 DEF EnvironmentsFollow, OneByOne
  <2>7. Done(d) = Done(copy) \cup {E} /\ E \notin Done(copy) /\ Done(copy) \subseteq Environments
    BY <1>1, <1>2, <1>9, <2>6 DEF Done, Sorted, OneByOne
  <2>8. \A e \in d.todo : Fresh(d, S, e) /\ LostOf(d, e) = {}
    BY <1>9, <2>2, <2>5, <2>6 DEF Fresh
  <2>9. Carried(E, LostOf(d, E), S, T) /\ SameMark(d, T, E)
    <3>1. \A x \in Source.environments[E], y \in Target.environments[E] :
            /\ y.workflow = x.workflow /\ y.verified = x.verified
            /\ Shown(y) = Shown(x) \ LostOf(copy, E)
      <4>1. Source.environments[E] # {} /\ Single(copy.listed[E]) /\ copy.listed[E] # {}
        BY <1>2, <2>6 DEF Single
      <4>2. /\ copy.source = copy.target => Source = Target
            /\ copy.source # copy.target => Fresh(copy, Source, E) /\ RowsRead(copy, Source, E)
        BY <1>11, <2>6
      <4>3. Arriving(copy, Target, E)
        BY <2>6
      <4>4. copy \in CopyState /\ copy.at = "graph" /\ E \in DOMAIN copy.listed
        BY <1>1, <1>2
      <4> HIDE DEF g
      <4> QED BY <1>3, <4>1, <4>2, <4>3, <4>4, ArrivedIsCarried
    <3>2. S.graphs[E] \in {{}, T.graphs[E]}
      BY <1>7, <2>3
    <3>3. SameMark(copy, Target, E) /\ Target.environments[E] # {}
      BY <2>6 DEF Arriving
    <3> QED BY <1>7, <1>9, <2>2, <2>5, <3>1, <3>2, <3>3 DEF Carried, SameMark
  <2>10. \A e \in Done(copy) : Carried(e, LostOf(d, e), S, T) /\ SameMark(d, T, e)
    <3> SUFFICES ASSUME NEW e \in Done(copy)
                 PROVE  Carried(e, LostOf(d, e), S, T) /\ SameMark(d, T, e)
      OBVIOUS
    <3>1. /\ Carried(e, LostOf(copy, e), Source, Target) /\ SameMark(copy, Target, e)
          /\ S.graphs[e] = Source.graphs[e] /\ T.graphs[e] = Target.graphs[e]
      BY <1>7, <2>3, <2>6, <2>7
    <3> QED BY <1>7, <1>9, <2>2, <2>5, <3>1 DEF Carried, SameMark
  <2>11. \A k \in d.graphs : k[1] \in Done(d) /\ k[2] = T.graphs[k[1]]
    BY <1>7, <1>8, <1>9, <2>6, <2>7
  <2>12. DOMAIN d.listed = {e \in Environments : S.environments[e] # {}}
    BY <1>9, <2>2, <2>6
  <2>13. EnvironmentsFollow(d, S, T)
    BY <1>9, <2>7, <2>8, <2>9, <2>10, <2>11, <2>12 DEF EnvironmentsFollow
  <2> QED BY <1>9, <2>4, <2>13 DEF Follows, RequirementsMet
<1> QED BY <1>1, <1>5, <1>6, <1>7, <1>9, <1>10, <1>11, CopyWrites

LEMMA CopyEnds ==
  ASSUME CopyFollows, finishStoreCopy
  PROVE  CopyFollows'
<1> DEFINE good == \A q \in copy.require : validateStoreCopyRequirements(q)
           d == [copy EXCEPT !.at = "done", !.ok = good]
<1>1. /\ CopyTyped /\ copy \in CopyState /\ Sorted(copy) /\ copy.at = "next" /\ copy.todo = {}
      /\ UNCHANGED <<file, admin, store, quiet>> /\ copy' = d
  BY DEF CopyFollows, CopyTyped, finishStoreCopy, Read, Continue
<1>2. Source \in StoreStates /\ Target \in StoreStates
  BY <1>1, OneSourceOneTarget
<1>3. good \in BOOLEAN /\ (good => \A q \in copy.require : validateStoreCopyRequirements(q))
  OBVIOUS
<1> HIDE DEF good
<1>4. /\ d \in CopyState /\ d.at = "done" /\ d.ok = good /\ d.env = copy.env
      /\ d.graphs = copy.graphs /\ d.todo = copy.todo /\ d.listed = copy.listed
      /\ d.lost = copy.lost /\ d.require = copy.require
      /\ d.source = copy.source /\ d.target = copy.target /\ d.catalog = copy.catalog
  BY <1>1, <1>3 DEF CopyState, Steps
<1> HIDE DEF d
<1>5. Sorted(d)
  BY <1>1, <1>4 DEF Sorted, OneByOne
<1>6. ASSUME quiet
      PROVE  Follows(d, Source, Target)
  <2>1. CatalogFollows(copy, Source, Target) /\ EnvironmentsFollow(copy, Source, Target)
    BY <1>1, <1>6 DEF CopyFollows, Follows
  <2>2. CatalogFollows(d, Source, Target)
    BY <1>1, <1>4, <2>1, CatalogStays DEF Listed, OneByOne
  <2>3. /\ DOMAIN copy.listed = {e \in Environments : Source.environments[e] # {}}
        /\ \A e \in Done(copy) : /\ Carried(e, LostOf(copy, e), Source, Target)
                                 /\ SameMark(copy, Target, e)
        /\ \A k \in copy.graphs : k[1] \in Done(copy) /\ k[2] = Target.graphs[k[1]]
    BY <1>1, <2>1 DEF EnvironmentsFollow, OneByOne
  <2>4. /\ Done(d) = Done(copy) /\ Done(copy) = DOMAIN copy.listed /\ copy.env = {}
        /\ \A e \in DOMAIN copy.listed : copy.listed[e] # {}
    BY <1>1, <1>4 DEF Done, Sorted, OneByOne
  <2>5. \A e : LostOf(d, e) = LostOf(copy, e) /\ (SameMark(copy, Target, e) => SameMark(d, Target, e))
    BY <1>4 DEF LostOf, SameMark
  <2>6. EnvironmentsFollow(d, Source, Target)
    <3>1. DOMAIN d.listed = {e \in Environments : Source.environments[e] # {}}
      BY <1>4, <2>3
    <3> QED BY <1>1, <1>4, <2>3, <2>4, <2>5, <3>1 DEF EnvironmentsFollow
  <2>7. ASSUME good, NEW q \in copy.require, NEW e \in q.environment
        PROVE  /\ q.components <= Cardinality(Target.graphs[e] \cap Components)
               /\ \A y \in Target.environments[e] :
                    (q.workflow # {} => y.workflow \in q.workflow) /\ (q.verified => y.verified)
    <3>1. /\ e \in DOMAIN copy.listed
          /\ \A x \in copy.listed[e] : (q.workflow # {} => x.workflow \in q.workflow)
                                       /\ (q.verified => x.verified)
          /\ q.components + q.assets > 0 =>
               \E g \in copy.graphs : /\ g[1] = e
                                      /\ Cardinality(g[2] \cap Components) >= q.components
      BY <1>3, <2>7 DEF validateStoreCopyRequirements
    <3>2. q.components \in Nat /\ q.assets \in Nat
      <4>1. q \in UNION Requirements
        BY <1>1 DEF CopyState
      <4> QED BY <4>1, CopyAssumption
    <3>3. PICK x \in copy.listed[e] : TRUE
      BY <2>4, <3>1
    <3>4. SameMark(copy, Target, e) /\ e \in Environments
      BY <2>3, <2>4, <3>1
    <3>5. Cardinality(Target.graphs[e] \cap Components) \in Nat
      <4>1. Target.graphs[e] \cap Components \subseteq Parts
        BY CopyAssumption
      <4>2. IsFiniteSet(Target.graphs[e] \cap Components)
        BY <4>1, CopyAssumption, FS_Subset
      <4> QED BY <4>2, FS_CardinalityType
    <3>6. q.components <= Cardinality(Target.graphs[e] \cap Components)
      <4>1. CASE q.components + q.assets > 0
        <5>1. PICK g \in copy.graphs : g[1] = e /\ Cardinality(g[2] \cap Components) >= q.components
          BY <3>1, <4>1
        <5>2. g[2] = Target.graphs[e]
          BY <2>3, <5>1
        <5> QED BY <3>2, <3>5, <5>1, <5>2
      <4>2. CASE q.components = 0
        BY <3>5, <4>2
      <4> QED BY <3>2, <4>1, <4>2
    <3> QED BY <3>1, <3>3, <3>4, <3>6 DEF SameMark
  <2>8. RequirementsMet(d, Target)
    BY <1>4, <2>7 DEF RequirementsMet
  <2> QED BY <2>2, <2>6, <2>8 DEF Follows
<1> QED BY <1>1, <1>4, <1>5, <1>6, CopyReads

-----------------------------------------------------------------------------
(* Other clients, and the theorem *)

(* Entries become rows. *)
LEMMA EntriesAsRows ==
  ASSUME NEW json \in SUBSET Entries
  PROVE  /\ EnvironmentFilesFromComposeJSON(json) \subseteq Entries
         /\ EnvironmentServicesFromJSON(json) \subseteq Entries
         /\ EnvironmentHealthChecksFromJSON(json) \subseteq Entries
<1>1. \A j \in json : Structured[j] \in Entries
  BY CopyAssumption
<1>2. EnvironmentFilesFromComposeJSON(json) \subseteq Entries
  BY <1>1 DEF EnvironmentFilesFromComposeJSON
<1>3. EnvironmentServicesFromJSON(json) \subseteq Entries
  BY <1>1 DEF EnvironmentServicesFromJSON
<1>4. EnvironmentHealthChecksFromJSON(json) \subseteq Entries
  BY <1>1 DEF EnvironmentHealthChecksFromJSON
<1> QED BY <1>2, <1>3, <1>4

LEMMA OthersWrite ==
  ASSUME CopyFollows,
         RegisterEnvironment \/ SetRepositories \/ ReplaceEnvironmentComponentGraph
  PROVE  CopyFollows'
<1>1. CopyTyped
  BY DEF CopyFollows
<1>2. ASSUME NEW u \in URLs, NEW t \in StoreStates, Disturb(u, t)
      PROVE  CopyFollows'
  <2>1. store' \in [URLs -> StoreStates] /\ UNCHANGED <<file, admin, copy>> /\ quiet' = FALSE
    BY <1>1, <1>2 DEF Disturb, CopyTyped
  <2> QED BY <1>1, <2>1 DEF CopyTyped, CopyFollows
<1>3. \A u \in URLs : store[u] \in StoreStates
  BY <1>1 DEF CopyTyped
<1>4. CASE RegisterEnvironment
  <2>1. PICK u \in URLs, e \in Environments, x \in NewEnvironments :
          Disturb(u, [store[u] EXCEPT !.environments[e] =
            {[x EXCEPT !.json = WithoutMatches({j \in x.json : Kind[j] = "list"},
                                               UNION {y.rows : y \in store[u].environments[e]}),
                       !.rows = EnvironmentFilesFromComposeJSON(x.json)
                                \cup EnvironmentServicesFromJSON(x.json)
                                \cup EnvironmentHealthChecksFromJSON(x.json)]}])
    BY <1>4 DEF RegisterEnvironment
  <2> DEFINE json == WithoutMatches({j \in x.json : Kind[j] = "list"},
                                    UNION {y.rows : y \in store[u].environments[e]})
             rows1 == EnvironmentFilesFromComposeJSON(x.json) \cup EnvironmentServicesFromJSON(x.json)
                      \cup EnvironmentHealthChecksFromJSON(x.json)
             new == [x EXCEPT !.json = json, !.rows = rows1]
  <2>2. x \in EnvironmentRecords
    BY CopyAssumption
  <2>3. json \in SUBSET Entries
    BY <2>2 DEF EnvironmentRecords, WithoutMatches
  <2>4. rows1 \in SUBSET Entries
    BY <2>2, EntriesAsRows DEF EnvironmentRecords
  <2>5. new \in EnvironmentRecords
    <3> HIDE DEF json, rows1
    <3> QED BY <2>2, <2>3, <2>4 DEF EnvironmentRecords
  <2>6. Disturb(u, [store[u] EXCEPT !.environments[e] = {new}])
    BY <2>1
  <2> HIDE DEF new
  <2>7. {new} \in SUBSET EnvironmentRecords /\ Single({new})
    BY <2>5 DEF Single
  <2>8. [store[u] EXCEPT !.environments[e] = {new}] \in StoreStates
    BY <1>3, <2>7, EnvironmentReplaced
  <2> QED BY <1>2, <2>6, <2>8
<1>5. CASE SetRepositories
  <2>1. PICK u \in URLs, e \in Environments :
          Disturb(u, [store[u] EXCEPT !.environments[e] =
            {[x EXCEPT !.json = {j \in Shown(x) : Kind[j] # "service"} \ x.rows,
                       !.rows = ServicesWithLegacyJSON(x)] : x \in @}])
    BY <1>5 DEF SetRepositories
  <2> DEFINE new(x) == [x EXCEPT !.json = {j \in Shown(x) : Kind[j] # "service"} \ x.rows,
                                 !.rows = ServicesWithLegacyJSON(x)]
             old == store[u].environments[e]
             F == {new(x) : x \in old}
  <2>2. old \in SUBSET EnvironmentRecords /\ Single(old)
    BY <1>3 DEF StoreStates
  <2>3. ASSUME NEW x \in old
        PROVE  new(x) \in EnvironmentRecords
    <3>1. x \in EnvironmentRecords
      BY <2>2
    <3>2. Shown(x) \in SUBSET Entries
      BY <3>1 DEF Shown, StructuredView, WithoutMatches, EnvironmentRecords
    <3>3. ServicesWithLegacyJSON(x) \in SUBSET Entries
      <4>1. EnvironmentServicesFromJSON(Shown(x) \ x.rows) \subseteq Entries
        BY <3>2, EntriesAsRows
      <4>2. x.rows \subseteq Entries
        BY <3>1 DEF EnvironmentRecords
      <4> QED BY <4>1, <4>2 DEF ServicesWithLegacyJSON
    <3> QED BY <3>1, <3>2, <3>3 DEF EnvironmentRecords
  <2>4. Disturb(u, [store[u] EXCEPT !.environments[e] = F])
    BY <2>1
  <2> HIDE DEF new, old
  <2>5. F \in SUBSET EnvironmentRecords
    BY <2>3
  <2>6. Single(F)
    BY <2>2 DEF Single
  <2> HIDE DEF F
  <2>7. [store[u] EXCEPT !.environments[e] = F] \in StoreStates
    BY <1>3, <2>5, <2>6, EnvironmentReplaced
  <2> QED BY <1>2, <2>4, <2>7
<1>6. CASE ReplaceEnvironmentComponentGraph
  <2>1. PICK u \in URLs, e \in Environments, g \in {{}, Parts} :
          Disturb(u, [store[u] EXCEPT !.graphs[e] = g])
    BY <1>6 DEF ReplaceEnvironmentComponentGraph
  <2>2. [store[u] EXCEPT !.graphs[e] = g] \in StoreStates
    BY <1>3 DEF StoreStates
  <2> QED BY <1>2, <2>1, <2>2
<1> QED BY <1>4, <1>5, <1>6

LEMMA CopyStep == CopyFollows /\ [CopyNext]_copyVars => CopyFollows'
<1> SUFFICES ASSUME CopyFollows, [CopyNext]_copyVars
             PROVE  CopyFollows'
  OBVIOUS
<1>1. CASE UNCHANGED copyVars
  <2>1. Source' = Source /\ Target' = Target
    BY <1>1 DEF copyVars, Source, Target
  <2>2. CopyTyped'
    BY <1>1 DEF copyVars, CopyFollows, CopyTyped
  <2> QED BY <1>1, <2>1, <2>2 DEF copyVars, CopyFollows
<1>2. CASE CopyNext
  BY <1>2, SettingsAreTyped, BeginsAndEnds, TargetIsResolved, CatalogIsRead, CatalogIsWritten,
     IndexIsCopied, VersionIsCopied, ModelsAreMade, EnvironmentsAreListed, NextEnvironmentIsRead,
     EnvironmentIsUpserted, AllRowsAreReplaced, GraphIsCopied, CopyEnds, OthersWrite DEF CopyNext
<1> QED BY <1>1, <1>2

(* A copy at any statement, as long as nobody else has written either Store *)
(* since it began: the catalog, version and read models are the source's    *)
(* from the statement on that writes them, the environments behind it are   *)
(* carried over, the one under way has arrived as far as the statement      *)
(* says, and the ones ahead are as they were listed; also when the source   *)
(* is the target.                                                           *)
THEOREM CopiesFollowTheirSource ==
  CopySpec => []CopyFollows
<1> QED BY StartsEmpty, CopyStep, PTL DEF CopySpec

(* A copy that reports OK while nobody else wrote to either Store, whatever *)
(* was left half copied before it, has made the target answer as the source *)
(* does, and the report's requirements are true of the target.              *)
THEOREM CopiesAreWhole ==
  CopySpec => []CopiedStateIsWhole
<1>1. CopyFollows => CopiedStateIsWhole
  <2> SUFFICES ASSUME CopyFollows, copy.at = "done", copy.ok, quiet
               PROVE  /\ Source.catalog # {} =>
                           /\ Target.catalog = Source.catalog
                           /\ (\A c \in Source.catalog : ProfileOf[c] # "") =>
                                /\ \A m \in Target.models : m.catalog = Target.catalog
                                                            /\ m.config = Source.config
                                /\ Target.models # {}
                      /\ \A e \in {d \in Environments : Source.environments[d] # {}} : EnvironmentCopied(e)
                      /\ \A q \in copy.require : \A e \in q.environment :
                           /\ q.components <= Cardinality(Target.graphs[e] \cap Components)
                           /\ \A y \in Target.environments[e] :
                                /\ q.workflow # {} => y.workflow \in q.workflow
                                /\ q.verified => y.verified
    BY DEF CopiedStateIsWhole
  <2>1. /\ CatalogFollows(copy, Source, Target) /\ EnvironmentsFollow(copy, Source, Target)
        /\ RequirementsMet(copy, Target) /\ Sorted(copy)
    BY DEF CopyFollows, CopyTyped, Follows
  <2>2. ASSUME Source.catalog # {}
        PROVE  /\ Target.catalog = Source.catalog
               /\ (\A c \in Source.catalog : ProfileOf[c] # "") =>
                    /\ \A m \in Target.models : m.catalog = Target.catalog /\ m.config = Source.config
                    /\ Target.models # {}
    <3>1. Target.catalog = Source.catalog
      BY <2>1, <2>2 DEF CatalogFollows
    <3>2. ASSUME \A c \in Source.catalog : ProfileOf[c] # ""
          PROVE  /\ \A m \in Target.models : m.catalog = Target.catalog /\ m.config = Source.config
                 /\ Target.models # {}
      <4>1. Target.models = {[catalog |-> Source.catalog, config |-> Source.config]}
        BY <2>1, <2>2, <3>2 DEF CatalogFollows, Listed
      <4> QED BY <3>1, <4>1
    <3> QED BY <3>1, <3>2
  <2>3. ASSUME NEW e \in Environments, Source.environments[e] # {}
        PROVE  EnvironmentCopied(e)
    <3>1. e \in Done(copy)
      BY <2>1, <2>3 DEF EnvironmentsFollow, Sorted, Done, OneByOne
    <3>2. Carried(e, LostOf(copy, e), Source, Target)
      BY <2>1, <3>1 DEF EnvironmentsFollow
    <3> QED BY <3>2 DEF Carried, EnvironmentCopied, LostOf
  <2>4. ASSUME NEW q \in copy.require, NEW e \in q.environment
        PROVE  /\ q.components <= Cardinality(Target.graphs[e] \cap Components)
               /\ \A y \in Target.environments[e] :
                    /\ q.workflow # {} => y.workflow \in q.workflow
                    /\ q.verified => y.verified
    BY <2>1 DEF RequirementsMet
  <2> QED BY <2>2, <2>3, <2>4
<1> QED BY <1>1, CopiesFollowTheirSource, PTL

=============================================================================
