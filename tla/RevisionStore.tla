----------------------------- MODULE RevisionStore -----------------------------
(***************************************************************************)
(* How the engine keeps revisions of models and of narrative graphs, and   *)
(* why it may trust what it once validated.                                *)
(*                                                                         *)
(* A revision is named by its content.  Its row holds it whole or as its   *)
(* changes from the revision before.  A seal records the bytes of a row    *)
(* and the seal of the row before it, so it stands for all the rows of an  *)
(* ancestry: here it is the function that gives them.  A session knows     *)
(* every revision by its header; it holds the rows that are not yet in the *)
(* file and reads the others when they are needed, each checked against    *)
(* its seal.                                                               *)
(*                                                                         *)
(* A row that was written right may be changed behind the engine's back:   *)
(* respelled, which leaves what it says, or made wrong without a change of *)
(* its length, which only its seal or a validation can tell.               *)
(***************************************************************************)
EXTENDS Naturals, FiniteSets, FiniteSetsExt, Functions

CONSTANTS
  Models, Graphs,  \* the revisions of models and of narrative graphs
  Previous,        \* the revision each is made from, or Nothing
  Source,          \* the model each graph revision is grounded in
  KeptWhole,       \* models whose changes are no smaller than the whole
  Sessions,
  MaxReady,        \* REBUILT_MODELS_KEPT, and what the caches of graphs may hold
  Nothing,
  MaxStored,       \* bound: the revisions of a file that is found
  MaxGeneration,   \* bound: writes of the state file
  MaxDamage        \* bound: changes made to the file by something else

Revisions == Models \cup Graphs

ASSUME StoreAssumption ==
  /\ Models \cap Graphs = {} /\ Nothing \notin Revisions
  /\ Previous \in [Revisions -> Revisions \cup {Nothing}]
  /\ \A r \in Revisions : Previous[r] # Nothing => (r \in Models <=> Previous[r] \in Models)
  /\ Source \in [Graphs -> Models] /\ KeptWhole \subseteq Models
  /\ {MaxStored, MaxGeneration, MaxDamage} \subseteq Nat /\ MaxReady \in Nat \ {0}

(* A hash covers that of the revision before: no revision comes before     *)
(* itself, and every line of revisions has a first.                        *)
ASSUME AncestryAssumption ==
  \A S \in SUBSET Revisions : S # {} => \E r \in S : Previous[r] \notin S

Rows == [form : {"whole", "changes"}, text : {"right", "respelled", "wrong"}]

(* What stands for no seal is none.                                        *)
ASSUME NothingAssumption == \A S \in SUBSET Revisions : Nothing \notin [S -> Rows]

VARIABLES
  file,            \* its version (0: none yet), generation, rows and seals
  session,         \* each process, Nothing when it does not run
  damage

storeVars == <<file, session, damage>>

-----------------------------------------------------------------------------
(* Rows and seals.                                                         *)

Ancestry[r \in Revisions] == {r} \cup IF Previous[r] = Nothing THEN {} ELSE Ancestry[Previous[r]]

(* What is written takes the place of what was there under its name.       *)
Over(new, old) == [x \in DOMAIN new \cup DOMAIN old |-> IF x \in DOMAIN new THEN new[x] ELSE old[x]]
Only(r, value) == [x \in {r} |-> value]

KeptForm(r) == IF Previous[r] = Nothing \/ r \in KeptWhole THEN "whole" ELSE "changes"
Row(form) == [form |-> form, text |-> "right"]

SameLength(a, b) == a.form = b.form /\ (a.text = "respelled" <=> b.text = "respelled")

(* A root is sealed by its row alone; a revision whose predecessor has no  *)
(* seal cannot be sealed.                                                  *)
Seal(r, row, parent) ==
  IF Previous[r] = Nothing THEN Only(r, row)
  ELSE IF parent = Nothing THEN Nothing ELSE Over(Only(r, row), parent)

SealIn(seals, r) == IF r \in DOMAIN seals THEN seals[r] ELSE Nothing
ParentSeal(seals, r) == IF Previous[r] = Nothing THEN Nothing ELSE SealIn(seals, Previous[r])

(* The rows that must be applied to have r: down to a model that is whole, *)
(* to the root of a graph, or to a revision that is ready.                 *)
Needed(form, ready, r) ==
  LET from[a \in Revisions] ==
        {a} \cup IF Previous[a] = Nothing \/ (a \in Models /\ form[a] = "whole") \/ Previous[a] \in ready
                 THEN {} ELSE from[Previous[a]]
  IN  from[r]

-----------------------------------------------------------------------------
(* Opening a state file.                                                   *)

Heads(rows) == {r \in rows : \A c \in rows : Previous[c] # r}

Line(rows, r) == {o \in Heads(rows) \cap Models : Ancestry[o] \cap Ancestry[r] # {}}

(* Of each model one newest head is loaded, of graphs every head.          *)
Newest(rows) ==
  {CHOOSE o \in Line(rows, r) : \A p \in Line(rows, r) : Cardinality(Ancestry[p]) <= Cardinality(Ancestry[o]) :
     r \in Heads(rows) \cap Models}

WorkingSet(rows) == (Heads(rows) \cap Graphs) \cup Newest(rows)

(* A seal is usable if its row is as long as it says.                      *)
UsableSeal(f, r) == r \in DOMAIN f.seals /\ SameLength(f.rows[r], f.seals[r][r])

(* A row is trusted when its seal and all those before it are usable and   *)
(* each names the seal before it.                                          *)
Trusted(f) ==
  {r \in DOMAIN f.rows : \A a \in Ancestry[r] :
     /\ a \in DOMAIN f.rows /\ UsableSeal(f, a)
     /\ f.seals[a] = Seal(a, f.seals[a][a], ParentSeal(f.seals, a))}

(* Every other row is validated: rebuilt from rows that are validated      *)
(* themselves, or match their seals, and compared with the revision.       *)
Good(f, trusted, r) ==
  IF r \in trusted THEN f.rows[r] = f.seals[r][r] ELSE f.rows[r].text # "wrong"

Forms(f) == [r \in DOMAIN f.rows |-> f.rows[r].form]

GoodFor(f, trusted, r) == \A a \in Needed(Forms(f), {}, r) : Good(f, trusted, a)

Validated(f, trusted) ==
  \A r \in DOMAIN f.rows \ trusted :
    /\ GoodFor(f, trusted, r)
    /\ Previous[r] # Nothing => GoodFor(f, trusted, Previous[r])
    /\ r \in Graphs => GoodFor(f, trusted, Source[r])

SealsOf(f, trusted) ==
  LET sealOf[r \in DOMAIN f.rows] ==
        IF r \in trusted THEN f.seals[r]
        ELSE Seal(r, f.rows[r], IF Previous[r] = Nothing THEN Nothing ELSE sealOf[Previous[r]])
  IN  sealOf

(* A file kept as changes is indexed by its seals.                         *)
Indexed(f, trusted) ==
  LET seals == SealsOf(f, trusted)
      ready == (DOMAIN f.rows \ trusted) \cup WorkingSet(DOMAIN f.rows)
  IN  [known |-> [r \in DOMAIN f.rows |-> [form |-> f.rows[r].form, seal |-> seals[r]]],
       held |-> <<>>, reader |-> TRUE, dirty |-> {}, writing |-> FALSE, sealing |-> <<>>,
       generation |-> f.generation, ready |-> [r \in ready |-> TRUE]]

OpensIndexed(f, trusted) ==
  /\ Validated(f, trusted)
  /\ \A r \in WorkingSet(DOMAIN f.rows) : GoodFor(f, trusted, r)

(* An older file, every row whole, is held in memory, in the form its      *)
(* models will be kept in.                                                 *)
Whole(f) ==
  [known |-> [r \in DOMAIN f.rows |-> [form |-> KeptForm(r), seal |-> Nothing]],
   held |-> [r \in DOMAIN f.rows |-> Row(KeptForm(r))],
   reader |-> FALSE, dirty |-> {}, writing |-> FALSE, sealing |-> <<>>,
   generation |-> f.generation, ready |-> [r \in DOMAIN f.rows |-> TRUE]]

Opens(f, trusted) ==
  CASE f.version = 0 -> TRUE
    [] f.version = 2 -> \A r \in DOMAIN f.rows : f.rows[r].text # "wrong"
    [] OTHER         -> OpensIndexed(f, trusted)

Opened(f, trusted) == IF f.version = 3 THEN Indexed(f, trusted) ELSE Whole(f)

NewSeals(f, trusted) == Restrict(SealsOf(f, trusted), DOMAIN f.rows \ trusted)

-----------------------------------------------------------------------------
(* Reading a revision.                                                     *)

Forming(s) == [r \in DOMAIN session[s].known |-> session[s].known[r].form]

NeededBy(s, r) ==
  IF r \in DOMAIN session[s].ready THEN {}
  ELSE Needed(Forming(s), DOMAIN session[s].ready, r)

(* Mutant: a row read from the file is not checked.                        *)
UncheckedRow(s, r) == r \in DOMAIN file.rows

CheckedRow(s, r) == r \in DOMAIN file.rows /\ file.rows[r] = session[s].known[r].seal[r]

Readable(s, r) ==
  \/ r \in DOMAIN session[s].held
  \/ session[s].reader /\ session[s].known[r].seal # Nothing /\ CheckedRow(s, r)

RowOf(s, r) ==
  IF r \in DOMAIN session[s].held THEN session[s].held[r] ELSE file.rows[r]

(* What applying the rows gives; a model is compared with its hash again.  *)
Right(s, r) ==
  LET start == {Previous[a] : a \in NeededBy(s, r)} \cap DOMAIN session[s].ready
  IN  /\ \A a \in NeededBy(s, r) : RowOf(s, a).text # "wrong"
      /\ \A a \in start : session[s].ready[a]

Materializes(s, r) ==
  /\ r \in DOMAIN session[s].known
  /\ \A a \in NeededBy(s, r) : Readable(s, a)
  /\ r \in Models => Right(s, r)

(* A revision that was rebuilt is cached.  Rows that were read are cached  *)
(* too, each checked before, which only saves reading them again.          *)
Materialized(s, r) ==
  [session[s] EXCEPT !.ready = IF r \in DOMAIN @ THEN @ ELSE Over(@, Only(r, Right(s, r)))]

-----------------------------------------------------------------------------
(* Writing.                                                                *)

Dirty(s) == session[s].dirty

(* A migration writes every model again, in the form it is kept in.        *)
Pending(s) == IF file.version = 2 THEN (DOMAIN session[s].known \cap Models) \cup Dirty(s) ELSE Dirty(s)

(* Mutant: the row that is sealed is the revision whole.                   *)
SealedWhole(s, r) == Row("whole")

SealedRow(s, r) == RowOf(s, r)

WrittenRows(s) == [r \in Pending(s) |-> RowOf(s, r)]

(* A row kept as changes is written after the one before it; a migration   *)
(* may write a whole one earlier, whichever hash is less.                  *)
MayGoEarly(s) == {r \in Pending(s) : Previous[r] \in Pending(s) /\ RowOf(s, r).form = "whole"}

(* Each row is sealed upon the seal of the one before it, written before   *)
(* or known; without one it stays unsealed.                                *)
WrittenSeals(s, early) ==
  LET known == session[s].known
      sealOf[r \in Revisions] ==
        IF r \in Pending(s)
        THEN Seal(r, SealedRow(s, r), IF Previous[r] = Nothing \/ r \in early THEN Nothing ELSE sealOf[Previous[r]])
        ELSE IF r \in DOMAIN known THEN known[r].seal ELSE Nothing
  IN  Restrict(sealOf, {r \in Pending(s) : sealOf[r] # Nothing})

Written(s, early) ==
  [version |-> 3, generation |-> file.generation + 1,
   rows |-> Over(WrittenRows(s), file.rows), seals |-> Over(WrittenSeals(s, early), file.seals)]

(* Mutant: every row that was written is released.                         *)
ReleasesWritten(seals) == Revisions

Released(seals) == DOMAIN seals

AfterWrite(s, early) ==
  LET seals == WrittenSeals(s, early)
  IN  [session[s] EXCEPT
         !.known = [r \in DOMAIN @ |-> IF r \in DOMAIN seals THEN [@[r] EXCEPT !.seal = seals[r]] ELSE @[r]],
         !.held = Restrict(@, DOMAIN @ \ Released(seals)),
         !.reader = TRUE, !.dirty = {}, !.writing = FALSE, !.generation = @ + 1]

-----------------------------------------------------------------------------
Ready(s) == session[s] # Nothing /\ session[s].sealing = <<>> /\ ~session[s].writing

(* What is rebuilt is cached within bounds: beyond them something goes.    *)
Trimmed(ready) ==
  IF Cardinality(ready) <= MaxReady THEN {ready} ELSE kSubset(MaxReady, ready)

Become(s, next) ==
  \E kept \in Trimmed(DOMAIN next.ready) :
    session' = [session EXCEPT ![s] = [next EXCEPT !.ready = Restrict(@, kept)]]

(* A process opens the file, trusting its seals, and seals what it had to  *)
(* validate.                                                               *)
Start(s) ==
  /\ session[s] = Nothing
  /\ LET trusted == Trusted(file) IN
       /\ Opens(file, trusted)
       /\ Become(s, [Opened(file, trusted) EXCEPT
                       !.sealing = IF file.version = 3 THEN NewSeals(file, trusted) ELSE <<>>])
  /\ UNCHANGED <<file, damage>>

(* The seals are written apart from what they seal, with no regard to the  *)
(* generation; if they cannot be, the session goes on.                     *)
WriteSeals(s) ==
  /\ session[s] # Nothing /\ session[s].sealing # <<>>
  /\ Become(s, [session[s] EXCEPT !.sealing = <<>>])
  /\ \/ file' = [file EXCEPT !.seals = Over(session[s].sealing, @)]
     \/ UNCHANGED file
  /\ UNCHANGED damage

Kill(s) ==
  /\ session[s] # Nothing /\ session' = [session EXCEPT ![s] = Nothing]
  /\ UNCHANGED <<file, damage>>

(* A revision is asked for.                                                *)
Read(s, r) ==
  /\ Ready(s) /\ Materializes(s, r)
  /\ Become(s, Materialized(s, r))
  /\ UNCHANGED <<file, damage>>

(* A new revision is compared with the one before it, which must be        *)
(* rebuilt, and a graph with the model it is grounded in.                  *)
Revise(s, r) ==
  /\ Ready(s) /\ Dirty(s) = {} /\ r \notin DOMAIN session[s].known
  /\ Previous[r] # Nothing => Materializes(s, Previous[r])
  /\ r \in Graphs => Materializes(s, Source[r])
  /\ Become(s, [session[s] EXCEPT
                  !.known = Over(@, Only(r, [form |-> KeptForm(r), seal |-> Nothing])),
                  !.held = Over(@, Only(r, Row(KeptForm(r)))),
                  !.ready = Over(@, Only(r, TRUE)),
                  !.dirty = {r}, !.writing = TRUE])
  /\ UNCHANGED <<file, damage>>

CanWrite(s) == session[s].generation = file.generation /\ file.generation < MaxGeneration

Persist(s) ==
  /\ session[s] # Nothing /\ session[s].writing /\ CanWrite(s)
  /\ \E early \in SUBSET MayGoEarly(s) :
       file' = Written(s, early) /\ Become(s, AfterWrite(s, early))
  /\ UNCHANGED damage

(* A write that failed, was overtaken, or took effect without the session  *)
(* learning of it: the session returns to the file and leaves what it      *)
(* validates there unsealed; if it cannot, it keeps the change and refuses *)
(* any other.                                                              *)
PersistFails(s) ==
  /\ session[s] # Nothing /\ session[s].writing
  /\ \/ UNCHANGED file
     \/ CanWrite(s) /\ \E early \in SUBSET MayGoEarly(s) : file' = Written(s, early)
  /\ LET trusted == Trusted(file')
     IN  Become(s, IF Opens(file', trusted) THEN Opened(file', trusted)
                   ELSE [session[s] EXCEPT !.writing = FALSE])
  /\ UNCHANGED damage

AuditTrusts == {}

(* audit_store validates every row of the file apart from the session,     *)
(* and may write the seals that are missing or differ.                     *)
Audit(s, reseal) ==
  /\ Ready(s) /\ file.version > 0 /\ Opens(file, AuditTrusts)
  /\ LET seals   == NewSeals(file, AuditTrusts)
         differs == {r \in DOMAIN seals : SealIn(file.seals, r) # seals[r]}
     IN  Become(s, [session[s] EXCEPT
           !.sealing = IF reseal /\ file.version = 3 THEN Restrict(seals, differs) ELSE <<>>])
  /\ UNCHANGED <<file, damage>>

(* Something else changes a row, or a seal is lost.                        *)
Damage ==
  /\ damage < MaxDamage /\ damage' = damage + 1
  /\ \E r \in DOMAIN file.rows :
       \/ \E text \in {"respelled", "wrong"} :
            file.rows[r].text = "right" /\ file' = [file EXCEPT !.rows[r].text = text]
       \/ r \in DOMAIN file.seals /\ file' = [file EXCEPT !.seals = Restrict(@, DOMAIN @ \ {r})]
  /\ UNCHANGED session

(* There is no file, an older one, or one that engines without seals may   *)
(* have written.                                                           *)
Found ==
  {rs \in SUBSET Revisions :
     /\ Cardinality(rs) \in 1..MaxStored
     /\ \A r \in rs : Ancestry[r] \subseteq rs /\ (r \in Graphs => Source[r] \in rs)}

OlderForm(r) == IF r \in Models THEN "whole" ELSE KeptForm(r)

InitialFiles ==
  {[version |-> 0, generation |-> 0, rows |-> <<>>, seals |-> <<>>]}
  \cup {[version |-> 2, generation |-> 1, rows |-> [r \in rs |-> Row(OlderForm(r))], seals |-> <<>>] : rs \in Found}
  \cup {[version |-> 3, generation |-> 1, rows |-> [r \in rs |-> Row(KeptForm(r))], seals |-> <<>>] : rs \in Found}

StoreInit == file \in InitialFiles /\ session = [s \in Sessions |-> Nothing] /\ damage = 0

StoreNext ==
  \/ \E s \in Sessions :
       \/ Start(s) \/ WriteSeals(s) \/ Kill(s) \/ Persist(s) \/ PersistFails(s)
       \/ \E r \in Revisions : Read(s, r) \/ Revise(s, r)
       \/ \E reseal \in BOOLEAN : Audit(s, reseal)
  \/ Damage

StoreSpec == StoreInit /\ [][StoreNext]_storeVars

-----------------------------------------------------------------------------
(* Properties.                                                             *)

Running == {s \in Sessions : session[s] # Nothing}

(* Every revision a session knows can be read again at any time: it is     *)
(* held, or in the file under a seal the session has, with the very bytes  *)
(* of that seal unless something else changed them.                        *)
EveryRevisionReads ==
  \A s \in Running : \A r \in DOMAIN session[s].known :
    \/ r \in DOMAIN session[s].held
    \/ /\ session[s].reader /\ session[s].known[r].seal # Nothing /\ r \in DOMAIN file.rows
       /\ file.rows[r].text = "right" => file.rows[r] = session[s].known[r].seal[r]

(* Whatever is done to the file, a session serves for a revision what was *)
(* accepted under its name, and no seal, in the file or in a session,      *)
(* stands for a row that is wrong.                                         *)
ServesAccepted ==
  LET Stands(seal) == seal = Nothing \/ \A a \in DOMAIN seal : seal[a].text # "wrong"
  IN  /\ \A r \in DOMAIN file.seals : Stands(file.seals[r])
      /\ \A s \in Running : /\ \A r \in DOMAIN session[s].ready : session[s].ready[r]
                            /\ \A r \in DOMAIN session[s].known : Stands(session[s].known[r].seal)

(* What was sealed is not validated again: as long as nothing else changes *)
(* the file, a seal is trusted once those before it are there, whichever   *)
(* sessions wrote them.                                                    *)
SealedOnce ==
  damage = 0 => \A r \in DOMAIN file.seals :
                  Ancestry[r] \subseteq DOMAIN file.seals => r \in Trusted(file)
===============================================================================
