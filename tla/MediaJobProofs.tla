--------------------------- MODULE MediaJobProofs ---------------------------
(***************************************************************************)
(* The media jobs of a session for any number of calls, passes, models and *)
(* troubles: the session's money, one file and one report per job, and the *)
(* element on the canvas.                                                  *)
(***************************************************************************)
EXTENDS MediaJob, FiniteSetTheorems, FunctionTheorems, WellFoundedInduction, TLAPS

\* Where a call stands before its job is recorded, and after.
BeforeJob == {"idle", "walk", "sent", "made", "spent"}
Rendering == {"again", "resent", "keep", "store", "restore", "landing", "failing"}
AfterJob == Rendering \cup {"draw"}

\* Where each worker may stand, which job it holds, and what of it has a model.
PlaceOf(w) ==
  /\ w \in Call => at[w] = w /\ pc[w] \in BeforeJob \cup AfterJob \cup {"over"}
  /\ w \in Pass => pc[w] \in {"idle", "open", "lock", "poll", "refail", "redraw"} \cup AfterJob
  /\ w \in Place => pc[w] \in {"idle", "place", "name", "over"}
  /\ Holds(w) => at[w] \in Call

ModelOf(w) ==
  /\ pc[w] \in {"made", "poll", "refail", "redraw"} \cup AfterJob => copy[w].model \in Model
  /\ pc[w] \in {"lock", "place", "name"} /\ copy[w].status = "running" => copy[w].model \in Model
  /\ pc[w] = "lock" => copy[w].status = "running"
  /\ pc[w] = "landing" => copy[w].status = "succeeded"
  /\ pc[w] \in {"draw", "refail", "redraw"} => Terminal(copy[w])
  /\ pc[w] = "place" => copy[w].status # "absent"
  /\ pc[w] \in {"sent", "resent"} => cand[w] \in Model
  /\ w \in Pass /\ pc[w] = "resent" => view[w] > 0

ModelsRecorded == \A j \in Call : rec[j].status = "running" => rec[j].model \in Model

TypedInv ==
  Typed /\ ModelsRecorded /\ \A w \in Worker : PlaceOf(w) /\ ModelOf(w)

\* A job is one pass's at a time; it is its call's until it is recorded, and its
\* call's alone while that still renders.
OneAtWork ==
  /\ \A p, q \in Pass : Locked(p) /\ Locked(q) /\ at[p] = at[q] => p = q
  /\ \A c \in Call : pc[c] \in BeforeJob =>
       rec[c] = NoRow /\ \A w \in Pass \cup Place : Holds(w) => at[w] # c
  /\ \A c \in Call : pc[c] \in AfterJob =>
       /\ ~rec[c].task /\ (pc[c] # "keep" => ~copy[c].task)
       /\ \A p \in Pass : Holds(p) => at[p] # c
       /\ \A q \in Place : Holds(q) /\ at[q] = c => ~copy[q].task

\* What the calls at work have bought and are buying, which the budget covers.
Purchases(c) == Len(bought[c]) + IF pc[c] \in {"sent", "resent"} THEN 1 ELSE 0
OnBudget == UNION {{c} \X (1 .. Purchases(c)) : c \in {c \in Call : Active(c)}}
BudgetCovers ==
  /\ \A c \in Call : pc[c] = "idle" => bought[c] = <<>>
  /\ billed \in 0 .. MaxAdvances + 1
  /\ IsFiniteSet(OnBudget) /\ Cardinality(OnBudget) <= billed

\* A holder whose copy is not stale has the record's state, of which its task and the
\* time of its next poll are no part; one at work changes no element's name.
SameJob(c, r) ==
  /\ c.status = r.status /\ c.model = r.model /\ c.advances = r.advances
  /\ c.banked = r.banked /\ c.tried = r.tried /\ c.metered = r.metered
  /\ c.element = r.element
FreshOf(w) ==
  w \notin stale =>
    /\ pc[w] \in {"lock", "place", "name"} => SameJob(copy[w], rec[at[w]])
    /\ pc[w] \in {"poll", "refail", "redraw"} \cup AfterJob =>
         copy[w].element = rec[at[w]].element
Fresh == \A w \in Worker : FreshOf(w)

\* The books of a job no step of which was torn: what is bought for it, what its
\* record says, and what the one at work on it holds.
BankingAt == {"walk", "sent", "spent", "again", "resent", "failing"}
PendingAt == {"made", "poll", "keep", "store", "restore", "landing"}
OverAt == {"draw", "refail", "redraw"}
AtWork == Call \cup Pass
WorksOn(w, j) == pc[w] \in BankingAt \cup PendingAt \cup OverAt /\ at[w] = j
Worked(j, pcs) == \A w \in AtWork : WorksOn(w, j) => pc[w] \in pcs

Bought(j, tried) == \A i \in DOMAIN bought[j] : bought[j][i] \in tried
Pending(j, c) == Len(bought[j]) = c.banked + 1 /\ Bought(j, c.tried \cup {c.model})
Banking(j, c) == Len(bought[j]) = c.banked /\ Bought(j, c.tried)
InBounds(j) ==
  /\ Len(bought[j]) <= MaxAdvances + 1 /\ landed[j] <= 1
  /\ \A i, k \in DOMAIN bought[j] : bought[j][i] = bought[j][k] => i = k

RecordBooks(j) ==
  /\ rec[j].status = "running" =>
       /\ ~rec[j].metered /\ reported[j] = 0
       /\ rec[j].banked = rec[j].advances /\ rec[j].advances <= MaxAdvances
       /\ Worked(j, {"poll"}) => Pending(j, rec[j]) /\ landed[j] = 0
  /\ Terminal(rec[j]) =>
       rec[j].metered /\ reported[j] = Len(bought[j]) /\ Worked(j, OverAt)

HolderBooks(w, j) ==
  /\ pc[w] \in BankingAt => Banking(j, copy[w])
  /\ pc[w] \in PendingAt => Pending(j, copy[w])
  /\ pc[w] \in BankingAt \cup PendingAt =>
       /\ reported[j] = 0 /\ ~copy[w].metered
       /\ copy[w].status = IF pc[w] = "landing" THEN "succeeded" ELSE "running"
       /\ w \in stale \/ ~rec[j].metered
  /\ pc[w] \in (BankingAt \cup PendingAt) \ {"landing", "failing"} => landed[j] = 0
  /\ pc[w] \in {"made", "poll", "again", "resent", "keep", "store"} =>
       copy[w].banked = copy[w].advances /\ copy[w].advances <= MaxAdvances
  /\ pc[w] \in {"sent", "resent"} => cand[w] \notin copy[w].tried
  /\ pc[w] \in OverAt =>
       /\ Terminal(copy[w]) /\ copy[w].metered /\ reported[j] = Len(bought[j])
       /\ rec[j].status # "running"
       /\ pc[w] = "draw" /\ Terminal(rec[j]) => rec[j].status = copy[w].status

BooksOf(j) ==
  RecordBooks(j) /\ InBounds(j) /\ \A w \in AtWork : WorksOn(w, j) => HolderBooks(w, j)
Books ==
  /\ \A c \in Call : pc[c] = "idle" => reported[c] = 0 /\ landed[c] = 0 /\ copy[c] = Blank
  /\ \A j \in Call \ torn : BooksOf(j)

\* What is on the canvas for a job no step of which was torn or blurred: its element
\* bears the name the record knows, or place is about to write it down; and it
\* shows the outcome, or place has an old copy, or the outcome is being drawn.
Naming(j) == \E q \in Place : pc[q] = "name" /\ at[q] = j
Replacing(j) == \E q \in Place : Holds(q) /\ at[q] = j /\ q \in stale
Drawing(j) ==
  \E w \in Call \cup Pass :
    pc[w] = "draw" /\ at[w] = j /\ copy[w].element /\ copy[w].status = rec[j].status
ElementBooks(j) ==
  clip[j] # None =>
    /\ rec[j].element \/ Naming(j)
    /\ purge \in {"marked", "gone"} => Naming(j)
    /\ Terminal(rec[j]) => clip[j] = Shown(rec[j]) \/ Replacing(j) \/ Drawing(j)
ClipInv ==
  /\ \A w \in Pass : pc[w] \in {"refail", "redraw"} => at[w] \in blurred
  /\ \A q \in Place : purge \in {"marked", "gone"} /\ Holds(q) => q \in stale
  /\ \A j \in Call \ (torn \cup blurred) : ElementBooks(j)
-----------------------------------------------------------------------------
(* Candidates. *)

\* A set of naturals that is not empty has a least member.
LEMMA MinOfNaturals ==
  ASSUME NEW T, T \subseteq Nat, T # {}
  PROVE  Min(T) \in T
<1>1. PICK m \in T : \A k \in T : <<k, m>> \notin OpToRel(<, Nat)
  BY WFMin, NatLessThanWellFounded, Zenon
<1>2. \A k \in T : ~(k < m)
  BY <1>1, Zenon DEF OpToRel
<1>3. \E x \in T : \A y \in T : x <= y
  BY <1>2
<1> QED BY <1>3 DEF Min

\* The model submitted to is one of the models, and one not tried yet.
LEMMA CandidateIsNew ==
  ASSUME Typed, NEW tried, Candidate(tried) # None
  PROVE  Candidate(tried) \in Model \ tried
<1> DEFINE free == {i \in DOMAIN Chain : Chain[i] \notin tried \cup down \cup gone}
<1>1. free # {} /\ Candidate(tried) = Chain[Min(free)]
  BY DEF Candidate
<1>2. free \subseteq Nat /\ free \subseteq DOMAIN Chain /\ Chain \in Seq(Model)
  BY ChainAssumption
<1>3. Min(free) \in free
  BY <1>1, <1>2, MinOfNaturals
<1> QED BY <1>1, <1>2, <1>3
-----------------------------------------------------------------------------
(* What is written into a job. *)

\* The fields of a job.
LEMMA Fields ==
  ASSUME NEW c \in Record
  PROVE  /\ c.status \in {"absent", "running", "succeeded", "failed", "deleted"}
         /\ c.model \in Model \cup {None} /\ c.task \in BOOLEAN /\ c.advances \in Nat
         /\ c.banked \in Nat /\ c.tried \subseteq Model /\ c.metered \in BOOLEAN
         /\ c.element \in BOOLEAN /\ c.due \in BOOLEAN
BY DEF Record

\* The job of a call that has recorded none.
LEMMA Blanks ==
  /\ Blank \in Record /\ NoRow \in Record
  /\ NoRow.status = "absent" /\ ~NoRow.task /\ ~NoRow.element
  /\ Blank.status = "running" /\ ~Blank.task /\ Blank.banked = 0 /\ Blank.advances = 0
  /\ Blank.tried = {} /\ ~Blank.metered /\ ~Blank.element
BY DEF Blank, NoRow, Record

\* Tried keeps the type and changes these fields only.
LEMMA TriedJob ==
  ASSUME NEW c \in Record, NEW m \in Model
  PROVE  /\ Tried(c, m) \in Record
         /\ Tried(c, m).status = c.status /\ Tried(c, m).model = c.model
         /\ Tried(c, m).task = c.task /\ Tried(c, m).advances = c.advances
         /\ Tried(c, m).banked = c.banked /\ Tried(c, m).tried = c.tried \cup {m}
         /\ Tried(c, m).metered = c.metered /\ Tried(c, m).element = c.element
         /\ Tried(c, m).due = c.due
BY DEF Tried, Record

\* Banked keeps the type and changes these fields only.
LEMMA BankedJob ==
  ASSUME NEW c \in Record, NEW m \in Model
  PROVE  /\ Banked(c, m) \in Record
         /\ Banked(c, m).status = c.status /\ Banked(c, m).model = c.model
         /\ Banked(c, m).task = c.task /\ Banked(c, m).advances = c.advances
         /\ Banked(c, m).banked = c.banked + 1
         /\ Banked(c, m).tried = c.tried \cup {m}
         /\ Banked(c, m).metered = c.metered /\ Banked(c, m).element = c.element
         /\ Banked(c, m).due = c.due
<1>1. c.banked + 1 \in Nat /\ c.tried \cup {m} \in SUBSET Model
  BY Fields
<1> QED BY <1>1 DEF Banked, Record

\* Taken keeps the type and changes these fields only.
LEMMA TakenJob ==
  ASSUME NEW c \in Record, NEW m \in Model
  PROVE  /\ Taken(c, m) \in Record
         /\ Taken(c, m).status = c.status /\ Taken(c, m).model = m
         /\ Taken(c, m).task = (c.task \/ m \notin Inline)
         /\ Taken(c, m).advances = c.advances /\ Taken(c, m).banked = c.banked
         /\ Taken(c, m).tried = c.tried /\ Taken(c, m).metered = c.metered
         /\ Taken(c, m).element = c.element /\ Taken(c, m).due = FALSE
BY DEF Taken, Record

\* Carried keeps the type and changes these fields only.
LEMMA CarriedJob ==
  ASSUME NEW c \in Record
  PROVE  /\ Carried(c) \in Record
         /\ Carried(c).status = c.status /\ Carried(c).model = c.model
         /\ Carried(c).task = c.task /\ Carried(c).advances = c.banked
         /\ Carried(c).banked = c.banked /\ Carried(c).tried = c.tried
         /\ Carried(c).metered = c.metered /\ Carried(c).element = c.element
         /\ Carried(c).due = c.due
BY DEF Carried, Record

\* Advanced keeps the type and changes these fields only.
LEMMA AdvancedJob ==
  ASSUME NEW c \in Record
  PROVE  /\ Advanced(c) \in Record
         /\ Advanced(c).status = c.status /\ Advanced(c).model = c.model
         /\ Advanced(c).task = c.task /\ Advanced(c).advances = c.advances + 1
         /\ Advanced(c).banked = c.banked /\ Advanced(c).tried = c.tried
         /\ Advanced(c).metered = c.metered /\ Advanced(c).element = c.element
         /\ Advanced(c).due = c.due
BY DEF Advanced, Record

\* Ended keeps the type and changes these fields only.
LEMMA EndedJob ==
  ASSUME NEW c \in Record, NEW s \in {"failed", "succeeded", "deleted"}
  PROVE  /\ Ended(c, s) \in Record
         /\ Ended(c, s).status = s /\ Ended(c, s).model = c.model
         /\ Ended(c, s).task = c.task /\ Ended(c, s).advances = c.advances
         /\ Ended(c, s).banked = c.banked /\ Ended(c, s).tried = c.tried
         /\ Ended(c, s).metered = c.metered /\ Ended(c, s).element = c.element
         /\ Ended(c, s).due = c.due
BY DEF Ended, Record

\* DueNow keeps the type and changes these fields only.
LEMMA DueNowJob ==
  ASSUME NEW c \in Record, NEW b \in BOOLEAN
  PROVE  /\ DueNow(c, b) \in Record
         /\ DueNow(c, b).status = c.status /\ DueNow(c, b).model = c.model
         /\ DueNow(c, b).task = c.task /\ DueNow(c, b).advances = c.advances
         /\ DueNow(c, b).banked = c.banked /\ DueNow(c, b).tried = c.tried
         /\ DueNow(c, b).metered = c.metered /\ DueNow(c, b).element = c.element
         /\ DueNow(c, b).due = b
BY DEF DueNow, Record

\* Marked keeps the type and changes these fields only.
LEMMA MarkedJob ==
  ASSUME NEW c \in Record, NEW b \in BOOLEAN
  PROVE  /\ Marked(c, b) \in Record
         /\ Marked(c, b).status = c.status /\ Marked(c, b).model = c.model
         /\ Marked(c, b).task = c.task /\ Marked(c, b).advances = c.advances
         /\ Marked(c, b).banked = c.banked /\ Marked(c, b).tried = c.tried
         /\ Marked(c, b).metered = (c.metered \/ b)
         /\ Marked(c, b).element = c.element /\ Marked(c, b).due = c.due
BY DEF Marked, Record

\* Named keeps the type and changes these fields only.
LEMMA NamedJob ==
  ASSUME NEW c \in Record
  PROVE  /\ Named(c) \in Record
         /\ Named(c).status = c.status /\ Named(c).model = c.model
         /\ Named(c).task = c.task /\ Named(c).advances = c.advances
         /\ Named(c).banked = c.banked /\ Named(c).tried = c.tried
         /\ Named(c).metered = c.metered /\ Named(c).element = TRUE
         /\ Named(c).due = c.due
BY DEF Named, Record

-----------------------------------------------------------------------------
(* What each step does to its worker. *)

\* No worker moves but w.
Alone(w) ==
  /\ \A o \in Worker \ {w} :
       pc'[o] = pc[o] /\ at'[o] = at[o] /\ copy'[o] = copy[o] /\ cand'[o] = cand[o]
  /\ \A p \in Pass \ {w} : view'[p] = view[p]

\* What a worker that leaves does: it drops what it held, and nobody else does.
LeaveEffect(w) ==
  /\ pc' \in [Worker -> Phase] /\ at' \in [Worker -> Call \cup {None}]
  /\ copy' \in [Worker -> Record] /\ cand' \in [Worker -> Model \cup {None}]
  /\ view' \in [Pass -> Nat]
  /\ Alone(w)
  /\ w \in Call => at'[w] = w
  /\ w \in Call \cup Place => pc'[w] = "over"
  /\ w \in Pass => pc'[w] \in {"idle", "open"}
  /\ copy'[w] = Blank

\* Leave does that.
LEMMA LeaveDoes ==
  ASSUME TypedInv, NEW w \in Worker, Leave(w)
  PROVE  LeaveEffect(w)
<1> USE CallAssumption, Blanks DEF TypedInv, Typed, PlaceOf, Pass, Worker
<1>1. /\ pc' \in [Worker -> Phase]
      /\ \A o \in Worker \ {w} : pc'[o] = pc[o]
      /\ w \in Call \cup Place => pc'[w] = "over"
      /\ w \in Pass => pc'[w] \in {"idle", "open"}
  BY DEF Leave, Goto, Phase
<1>2. /\ at' \in [Worker -> Call \cup {None}]
      /\ \A o \in Worker \ {w} : at'[o] = at[o]
      /\ w \in Call => at'[w] = w
  BY DEF Leave
<1>3. /\ copy' \in [Worker -> Record] /\ copy'[w] = Blank
      /\ \A o \in Worker \ {w} : copy'[o] = copy[o]
  BY DEF Leave
<1>4. /\ cand' \in [Worker -> Model \cup {None}]
      /\ \A o \in Worker \ {w} : cand'[o] = cand[o]
  BY DEF Leave
<1>5. view' \in [Pass -> Nat] /\ \A p \in Pass \ {w} : view'[p] = view[p]
  BY DEF Leave
<1> QED BY <1>1, <1>2, <1>3, <1>4, <1>5 DEF LeaveEffect, Alone

\* What a save does: it writes one job, keeps its meter mark, and reports what the job
\* used when it is the first to find it over.
SaveEffect(w, c) ==
  /\ at[w] \in Call
  /\ rec' \in [Call -> Record] /\ reported' \in [Call -> Nat]
  /\ torn' \subseteq Call /\ stale' \subseteq Worker
  /\ \A j \in Call \ {at[w]} : rec'[j] = rec[j] /\ reported'[j] = reported[j]
  /\ rec'[at[w]].status = c.status /\ rec'[at[w]].model = c.model
  /\ rec'[at[w]].task = c.task /\ rec'[at[w]].advances = c.advances
  /\ rec'[at[w]].banked = c.banked /\ rec'[at[w]].tried = c.tried
  /\ rec'[at[w]].element = c.element /\ rec'[at[w]].due = c.due
  /\ rec'[at[w]].metered = (c.metered \/ Terminal(c) \/ rec[at[w]].metered)
  /\ ~Terminal(c) \/ c.metered => reported'[at[w]] = reported[at[w]]
  /\ Terminal(c) /\ ~c.metered => reported'[at[w]] = reported[at[w]] + Spent(c)
  /\ torn \subseteq torn' /\ torn' \subseteq torn \cup {at[w]}
  /\ w \in stale => at[w] \in torn'
  /\ \A o \in Worker \ {w} :
       o \in stale' <=> o \in stale \/ (Holds(o) /\ at[o] = at[w])

\* Save does that.
LEMMA KeptDoes ==
  ASSUME TypedInv, NEW w \in Worker, Holds(w), NEW c \in Record, Kept(w, c)
  PROVE  SaveEffect(w, c)
<1> DEFINE j == at[w]
           b == (Terminal(c) /\ ~c.metered) \/ rec[j].metered
<1>1. j \in Call
  BY DEF TypedInv, PlaceOf
<1>2. b \in BOOLEAN /\ c.metered \in BOOLEAN /\ rec[j].metered \in BOOLEAN
  BY <1>1, Fields DEF TypedInv, Typed
<1>3. rec' = [rec EXCEPT ![j] = Marked(c, b)]
  BY DEF Kept, Meter
<1>4. Marked(c, b) \in Record
  BY <1>2, MarkedJob
<1>5. Marked(c, b).metered = (c.metered \/ b)
  BY <1>2, MarkedJob
<1> HIDE DEF b
<1>6. /\ rec' \in [Call -> Record] /\ rec'[j] = Marked(c, b)
      /\ \A i \in Call \ {j} : rec'[i] = rec[i]
  BY <1>1, <1>3, <1>4 DEF TypedInv, Typed
<1>7. /\ rec'[j].status = c.status /\ rec'[j].model = c.model
      /\ rec'[j].task = c.task /\ rec'[j].advances = c.advances
      /\ rec'[j].banked = c.banked /\ rec'[j].tried = c.tried
      /\ rec'[j].element = c.element /\ rec'[j].due = c.due
  BY <1>2, <1>6, MarkedJob
<1>8. rec'[j].metered = (c.metered \/ Terminal(c) \/ rec[j].metered)
  BY <1>2, <1>5, <1>6 DEF b
<1>9. Spent(c) \in Nat
  BY Fields DEF Spent
<1>10. reported' = IF Terminal(c) /\ ~c.metered
                     THEN [reported EXCEPT ![j] = @ + Spent(c)] ELSE reported
  BY DEF Kept, Metered, Meter
<1>11. /\ reported' \in [Call -> Nat] /\ \A i \in Call \ {j} : reported'[i] = reported[i]
       /\ ~Terminal(c) \/ c.metered => reported'[j] = reported[j]
       /\ Terminal(c) /\ ~c.metered => reported'[j] = reported[j] + Spent(c)
  BY <1>1, <1>9, <1>10 DEF TypedInv, Typed
<1>12. /\ torn' \subseteq Call /\ torn \subseteq torn' /\ torn' \subseteq torn \cup {j}
       /\ w \in stale => j \in torn'
  BY <1>1 DEF Kept, TypedInv, Typed
<1>13. /\ stale' \subseteq Worker
       /\ \A o \in Worker \ {w} : o \in stale' <=> o \in stale \/ (Holds(o) /\ at[o] = at[w])
  BY DEF Kept, OthersOn, TypedInv, Typed
<1> QED BY <1>1, <1>6, <1>7, <1>8, <1>11, <1>12, <1>13 DEF SaveEffect

\* A save that is lost leaves the record, and a report that came before it stands.
LostSave(w) ==
  /\ Holds(w) /\ at[w] \in Call
  /\ reported' \in [Call -> Nat] /\ \A j \in Call \ {at[w]} : reported'[j] = reported[j]
  /\ torn' = torn \cup {at[w]} /\ stale' = stale \cup {w}
  /\ troubles' \in 0 .. MaxTroubles
  /\ rec' = rec

\* Lost does that.
LEMMA LostDoes ==
  ASSUME TypedInv, NEW w \in Worker, Holds(w), NEW c \in Record, Lost(w, c), Trouble
  PROVE  LostSave(w)
<1>1. at[w] \in Call
  BY DEF TypedInv, PlaceOf
<1>2. Spent(c) \in Nat
  BY Fields DEF Spent
<1>3. /\ reported' \in [Call -> Nat]
      /\ \A j \in Call \ {at[w]} : reported'[j] = reported[j]
  BY <1>1, <1>2 DEF Lost, Metered, TypedInv, Typed
<1>4. troubles' \in 0 .. MaxTroubles
  BY BoundAssumption DEF Trouble, TypedInv, Typed
<1> QED BY <1>1, <1>3, <1>4 DEF Lost, LostSave

\* The job as its outcome is saved.
Settled(w) == IF pc[w] = "landing" THEN copy[w] ELSE Ended(copy[w], "failed")

\* w goes from f to l and holds c.
Moves(w, f, l, c) == Alone(w) /\ pc[w] = f /\ pc'[w] = l /\ copy'[w] = c

\* A step of w that loses its save, and goes on as if it had not.
LostEffect(w) ==
  /\ LostSave(w)
  /\ pc' \in [Worker -> Phase] /\ at' \in [Worker -> Call \cup {None}]
  /\ copy' \in [Worker -> Record] /\ cand' \in [Worker -> Model \cup {None}]
  /\ view' \in [Pass -> Nat]
  /\ blurred \subseteq blurred' /\ blurred' \subseteq blurred \cup {at[w]}
  /\ pc[w] = "draw" => at[w] \in blurred'
  /\ UNCHANGED <<clip, down, aged, serving, gone, todo, submits, billed, purge, bought, landed>>
  /\ \/ LeaveEffect(w)
     \/ /\ w \in Call /\ ~copy[w].task /\ Moves(w, "made", "store", copy[w])
        /\ at' = at /\ cand' = cand
     \/ /\ w \in Call \cup Pass /\ pc[w] \in {"landing", "failing", "refail"}
        /\ Moves(w, pc[w], IF pc[w] = "refail" THEN "redraw" ELSE "draw",
                 Marked(Settled(w), TRUE))
        /\ at' = at /\ cand' = cand

\* What a failed render does: it is banked, and the job advances if it can.
BillEffect(w) ==
  /\ copy' \in [Worker -> Record]
  /\ \A o \in Worker \ {w} : copy'[o] = copy[o]
  /\ copy'[w].banked = copy[w].banked + 1
  /\ copy'[w].tried = copy[w].tried \cup {copy[w].model}
  /\ copy'[w].status = copy[w].status /\ copy'[w].model = copy[w].model
  /\ copy'[w].metered = copy[w].metered /\ copy'[w].element = copy[w].element
  /\ copy'[w].task = copy[w].task
  /\ view' \in [Pass -> Nat] /\ down' \subseteq Model
  /\ \A p \in Pass \ {w} : view'[p] = view[p]
  /\ \/ pc'[w] = "failing"
     \/ /\ pc'[w] = "again" /\ copy[w].advances < MaxAdvances
        /\ copy'[w].advances = copy[w].advances + 1

\* _media_job_billable_failure does that.
LEMMA BillDoes ==
  ASSUME TypedInv, NEW w \in Call \cup Pass, copy[w].model \in Model, BillFailure(w)
  PROVE  BillEffect(w)
<1> DEFINE lost == Banked(copy[w], copy[w].model)
<1> USE DEF Worker
<1>1. copy[w] \in Record /\ lost \in Record /\ Advanced(lost) \in Record
  BY BankedJob, AdvancedJob DEF TypedInv, Typed
<1>2. copy[w].advances \in Nat /\ lost.advances = copy[w].advances
  BY <1>1, Fields, BankedJob
<1>3. /\ lost.banked = copy[w].banked + 1
      /\ lost.tried = copy[w].tried \cup {copy[w].model}
      /\ lost.status = copy[w].status /\ lost.model = copy[w].model
      /\ lost.metered = copy[w].metered /\ lost.element = copy[w].element
      /\ lost.task = copy[w].task
  BY <1>1, BankedJob
<1>4. /\ Advanced(lost).banked = lost.banked /\ Advanced(lost).tried = lost.tried
      /\ Advanced(lost).status = lost.status /\ Advanced(lost).model = lost.model
      /\ Advanced(lost).metered = lost.metered /\ Advanced(lost).element = lost.element
      /\ Advanced(lost).task = lost.task /\ Advanced(lost).advances = lost.advances + 1
  BY <1>1, AdvancedJob
<1> HIDE DEF lost
<1>5. copy' = [copy EXCEPT ![w] = IF copy[w].advances < MaxAdvances
                                    THEN Advanced(lost) ELSE lost]
  BY DEF BillFailure, lost
<1>6. /\ copy' \in [Worker -> Record] /\ \A o \in Worker \ {w} : copy'[o] = copy[o]
      /\ copy'[w] = IF copy[w].advances < MaxAdvances THEN Advanced(lost) ELSE lost
  BY <1>1, <1>5 DEF TypedInv, Typed
<1>7. /\ view' \in [Pass -> Nat] /\ down' \subseteq Model
      /\ \A p \in Pass \ {w} : view'[p] = view[p]
  BY <1>2 DEF BillFailure, TypedInv, Typed
<1>8. pc'[w] = "failing" \/ (pc'[w] = "again" /\ copy[w].advances < MaxAdvances)
  BY DEF BillFailure, Goto, TypedInv, Typed
<1>9. copy[w].advances < MaxAdvances => copy'[w].advances = copy[w].advances + 1
  BY <1>2, <1>4, <1>6
<1>10. /\ copy'[w].banked = copy[w].banked + 1
       /\ copy'[w].tried = copy[w].tried \cup {copy[w].model}
       /\ copy'[w].status = copy[w].status /\ copy'[w].model = copy[w].model
       /\ copy'[w].metered = copy[w].metered /\ copy'[w].element = copy[w].element
       /\ copy'[w].task = copy[w].task
  BY <1>3, <1>4, <1>6
<1> QED BY <1>6, <1>7, <1>8, <1>9, <1>10 DEF BillEffect

\* A call that begins walks its chain.
LEMMA AskDoes ==
  ASSUME TypedInv, NEW c \in Call, Ask(c)
  PROVE  /\ Moves(c, "idle", "walk", copy[c])
         /\ billed' = billed \/ (billed' = 0 /\ \A o \in Call : ~Active(o))
         /\ UNCHANGED <<at, copy, cand, rec, clip, purge, stale, torn, blurred, bought,
                        landed, reported>>
BY CallAssumption DEF Ask, OpenPurse, TypedInv, Typed, Goto, jobVars, worldVars,
   workVars, budgetVars, historyVars, Alone, Moves, Pass, Worker

\* A refusal gives the submit back.
LEMMA RefusedDoes ==
  ASSUME TypedInv, NEW c \in Call, Refused(c, "sent", "walk")
  PROVE  /\ Moves(c, "sent", "walk", Tried(copy[c], cand[c])) /\ at'[c] = at[c]
         /\ billed' = billed - 1
         /\ UNCHANGED <<rec, clip, purge, stale, torn, blurred, bought, landed, reported>>
BY CallAssumption DEF Refused, Free, TypedInv, Typed, Goto, jobVars, worldVars,
   workVars, budgetVars, historyVars, Alone, Moves, Pass, Worker

\* A refused advance gives it back, too.
LEMMA AgainRefusedDoes ==
  ASSUME TypedInv, NEW w \in Call \cup Pass, Refused(w, "resent", "failing")
  PROVE  /\ Moves(w, "resent", "failing", Tried(copy[w], cand[w])) /\ at'[w] = at[w]
         /\ billed' = IF w \in Call THEN billed - 1 ELSE billed
         /\ w \in Pass => view'[w] = view[w] - 1
         /\ UNCHANGED <<rec, clip, purge, stale, torn, blurred, bought, landed, reported>>
BY CallAssumption DEF Refused, Free, TypedInv, Typed, Goto, jobVars, worldVars,
   workVars, budgetVars, historyVars, Alone, Moves, Pass, Worker

\* An empty answer is paid for.
LEMMA EmptyDoes ==
  ASSUME TypedInv, NEW c \in Call, Empty(c, "sent", "walk")
  PROVE  /\ Moves(c, "sent", "walk", Banked(copy[c], cand[c])) /\ at'[c] = at[c]
         /\ bought' = [bought EXCEPT ![at[c]] = Append(@, cand[c])]
         /\ UNCHANGED <<billed, rec, clip, purge, stale, torn, blurred, landed, reported>>
BY CallAssumption DEF Empty, Paid, TypedInv, Typed, Goto, jobVars, worldVars,
   workVars, budgetVars, historyVars, Alone, Moves, Pass, Worker

\* So is an empty answer to an advance.
LEMMA AgainEmptyDoes ==
  ASSUME TypedInv, NEW w \in Call \cup Pass, Empty(w, "resent", "failing")
  PROVE  /\ Moves(w, "resent", "failing", Banked(copy[w], cand[w])) /\ at'[w] = at[w]
         /\ bought' = [bought EXCEPT ![at[w]] = Append(@, cand[w])]
         /\ UNCHANGED <<billed, rec, clip, purge, stale, torn, blurred, landed, reported>>
BY CallAssumption DEF Empty, Paid, TypedInv, Typed, Goto, jobVars, worldVars,
   workVars, budgetVars, historyVars, Alone, Moves, Pass, Worker

\* A model that takes the job is paid for.
LEMMA AcceptedDoes ==
  ASSUME TypedInv, NEW c \in Call, Accepted(c, "sent", Carried(copy[c]), "made")
  PROVE  /\ Moves(c, "sent", "made", Taken(Carried(copy[c]), cand[c])) /\ at'[c] = at[c]
         /\ bought' = [bought EXCEPT ![at[c]] = Append(@, cand[c])]
         /\ UNCHANGED <<billed, rec, clip, purge, stale, torn, blurred, landed, reported>>
BY CallAssumption DEF Accepted, Paid, TypedInv, Typed, Goto, jobVars, worldVars,
   workVars, budgetVars, historyVars, Alone, Moves, Pass, Worker

\* So is one that takes it over.
LEMMA AgainAcceptedDoes ==
  ASSUME TypedInv, NEW w \in Call \cup Pass, Accepted(w, "resent", copy[w], IF
     cand[w] \in Inline THEN "restore" ELSE "keep")
  PROVE  /\ Moves(w, "resent", IF cand[w] \in Inline THEN "restore" ELSE "keep", Taken(copy[w], cand[w]))
         /\ at'[w] = at[w]
         /\ bought' = [bought EXCEPT ![at[w]] = Append(@, cand[w])]
         /\ UNCHANGED <<billed, rec, clip, purge, stale, torn, blurred, landed, reported>>
BY CallAssumption DEF Accepted, Paid, TypedInv, Typed, Goto, jobVars, worldVars,
   workVars, budgetVars, historyVars, Alone, Moves, Pass, Worker

\* A walk submits to a model not tried yet, within the budget, or is over.
LEMMA WalkDoes ==
  ASSUME TypedInv, NEW c \in Call, Walk(c)
  PROVE  /\ at' = at /\ copy' = copy /\ UNCHANGED <<rec, clip, purge, stale, torn, blurred,
                                                    bought, landed, reported>>
         /\ \/ /\ Moves(c, "walk", "sent", copy[c]) /\ cand'[c] \in Model \ copy[c].tried
               /\ billed <= MaxAdvances /\ billed' = billed + 1
            \/ /\ Moves(c, "walk", "spent", copy[c]) /\ cand' = cand
               /\ billed' = billed
<1> DEFINE m == Candidate(copy[c].tried)
<1>1. m # None => m \in Model \ copy[c].tried
  BY CandidateIsNew DEF TypedInv
<1> HIDE DEF m
<1>2. Submit(c, m, "sent", "spent") /\ pc[c] = "walk"
      /\ UNCHANGED <<at, copy, rec, clip, purge, stale, torn, blurred, bought, landed,
                     reported>>
  BY DEF Walk, m, TypedInv, Typed, Goto, jobVars, worldVars, workVars, budgetVars, historyVars
<1>3. CASE m # None /\ MayClaim(c)
  BY <1>1, <1>2, <1>3, CallAssumption
  DEF Submit, MayClaim, Bills, Claim, Moves, Alone, Pass, Worker, TypedInv, Typed, Goto,
     jobVars, worldVars, workVars, budgetVars, historyVars
<1>4. CASE ~(m # None /\ MayClaim(c))
  BY <1>2, <1>4, CallAssumption DEF Submit, Moves, Alone, Pass, Worker, TypedInv, Typed,
     Goto, jobVars, worldVars, workVars, budgetVars, historyVars
<1> QED BY <1>3, <1>4

\* An advance submits to a model not tried yet, within the budget, or fails.
LEMMA AgainDoes ==
  ASSUME TypedInv, NEW w \in Call \cup Pass, Again(w)
  PROVE  /\ at' = at /\ copy' = copy /\ UNCHANGED <<rec, clip, purge, stale, torn, blurred,
                                                    bought, landed, reported>>
         /\ \/ /\ Moves(w, "again", "resent", copy[w]) /\ cand'[w] \in Model \ copy[w].tried
               /\ w \in Call => billed <= MaxAdvances /\ billed' = billed + 1
               /\ w \in Pass => billed' = billed /\ view'[w] > 0
            \/ Moves(w, "again", "failing", copy[w]) /\ cand' = cand /\ billed' = billed
<1> DEFINE m == Candidate(copy[w].tried \cup {copy[w].model})
<1>1. m # None => m \in Model \ copy[w].tried
  BY CandidateIsNew DEF TypedInv
<1> HIDE DEF m
<1>2. /\ pc[w] = "again"
      /\ \/ Submit(w, m, "resent", "failing")
         \/ Goto(w, "failing") /\ UNCHANGED <<cand, view, billed>>
      /\ UNCHANGED <<at, copy, rec, clip, purge, stale, torn, blurred, bought, landed,
                     reported>>
  BY DEF Again, m, TypedInv, Typed, Goto, jobVars, worldVars, workVars, budgetVars, historyVars
<1>3. CASE Submit(w, m, "resent", "failing") /\ m # None /\ MayClaim(w)
  <2>1. pc'[w] = "resent" /\ cand'[w] = m /\ Claim(w)
    BY <1>3 DEF Submit, Pass, Worker, TypedInv, Typed, Goto, jobVars, worldVars,
       workVars, budgetVars, historyVars
  <2>2. Moves(w, "again", "resent", copy[w])
    BY <1>2, <1>3 DEF Submit, Claim, Moves, Alone, Pass, Worker, TypedInv, Typed, Goto,
       jobVars, worldVars, workVars, budgetVars, historyVars
  <2>3. /\ w \in Call => billed <= MaxAdvances /\ billed' = billed + 1
        /\ w \in Pass => billed' = billed /\ view'[w] > 0
    BY <1>3, <2>1, CallAssumption DEF Claim, MayClaim, Bills, Pass, Worker, TypedInv,
       Typed, Goto, jobVars, worldVars, workVars, budgetVars, historyVars
  <2> QED BY <1>1, <1>2, <1>3, <2>1, <2>2, <2>3
<1>4. CASE Submit(w, m, "resent", "failing") /\ ~(m # None /\ MayClaim(w))
  BY <1>2, <1>4 DEF Submit, Moves, Alone, Pass, Worker, TypedInv, Typed, Goto, jobVars,
     worldVars, workVars, budgetVars, historyVars
<1>5. CASE Goto(w, "failing") /\ UNCHANGED <<cand, view, billed>>
  BY <1>2, <1>5 DEF Moves, Alone, Pass, Worker, TypedInv, Typed, Goto, jobVars,
     worldVars, workVars, budgetVars, historyVars
<1> QED BY <1>2, <1>3, <1>4, <1>5

\* A job too old is banked and fails.
LEMMA TimedOutDoes ==
  ASSUME TypedInv, NEW p \in Pass, TimedOut(p)
  PROVE  /\ Moves(p, "poll", "failing", Banked(copy[p], copy[p].model)) /\ at' = at
         /\ UNCHANGED <<billed, rec, clip, purge, stale, torn, blurred, bought, landed,
                        reported>>
BY CallAssumption DEF TimedOut, WriteOff, TypedInv, Typed, Goto, jobVars, worldVars,
   workVars, budgetVars, historyVars, Alone, Moves, Pass, Worker

\* A render that is done is fetched.
LEMMA PollSucceededDoes ==
  ASSUME TypedInv, NEW p \in Pass, PollSucceeded(p)
  PROVE  /\ Moves(p, "poll", "store", copy[p]) /\ at' = at
         /\ UNCHANGED <<billed, rec, clip, purge, stale, torn, blurred, bought, landed,
                        reported>>
BY CallAssumption DEF PollSucceeded, TypedInv, Typed, Goto, jobVars, worldVars,
   workVars, budgetVars, historyVars, Alone, Moves, Pass, Worker

\* A pass that opens has nothing yet.
LEMMA OpenDoes ==
  ASSUME TypedInv, NEW p \in Pass, Open(p)
  PROVE  /\ Moves(p, "idle", "open", copy[p])
         /\ billed' = billed \/ (billed' = 0 /\ \A o \in Call : ~Active(o))
         /\ UNCHANGED <<at, copy, cand, rec, clip, purge, stale, torn, blurred, bought,
                        landed, reported>>
BY CallAssumption DEF Open, OpenPurse, TypedInv, Typed, Goto, jobVars, worldVars,
   workVars, budgetVars, historyVars, Alone, Moves, Pass, Worker

\* A file that is good is stored.
LEMMA FileGoodDoes ==
  ASSUME TypedInv, NEW w \in Call \cup Pass, FileGood(w)
  PROVE  /\ Moves(w, pc[w], "landing", Ended(copy[w], "succeeded")) /\ at' = at
         /\ pc[w] \in {"store", "restore"}
         /\ landed' = [landed EXCEPT ![at[w]] = @ + 1]
         /\ UNCHANGED <<billed, rec, clip, purge, stale, torn, blurred, bought, reported>>
BY CallAssumption DEF FileGood, TypedInv, Typed, Goto, jobVars, worldVars, workVars,
   budgetVars, historyVars, Alone, Moves, Pass, Worker

\* place reads a job.
LEMMA PlaceReadDoes ==
  ASSUME TypedInv, NEW q \in Place, NEW j \in Call, PlaceRead(q, j)
  PROVE  /\ Moves(q, "idle", "place", rec[j]) /\ at'[q] = j /\ Known(j) /\ stale' = stale \ {q}
         /\ purge \notin {"marked", "gone"}
         /\ UNCHANGED <<billed, rec, clip, purge, torn, blurred, bought, landed, reported>>
BY CallAssumption DEF PlaceRead, Served, TypedInv, Typed, Goto, jobVars, worldVars,
   workVars, budgetVars, historyVars, Alone, Moves, Pass, Worker

\* place puts its element on the canvas.
LEMMA PlaceDrawDoes ==
  ASSUME TypedInv, NEW q \in Place, PlaceDraw(q)
  PROVE  /\ Moves(q, "place", "name", copy[q]) /\ at' = at
         /\ clip' = [clip EXCEPT ![at[q]] = Shown(copy[q])]
         /\ UNCHANGED <<billed, rec, purge, stale, torn, bought, landed, reported>>
         /\ blurred \subseteq blurred' /\ blurred' \subseteq blurred \cup {at[q]}
BY CallAssumption DEF PlaceDraw, TypedInv, Typed, Goto, jobVars, worldVars,
   workVars, budgetVars, historyVars, Alone, Moves, Pass, Worker

\* A call records its job, and has it polled or fetches its file.
LEMMA MakeDoes ==
  ASSUME TypedInv, NEW c \in Call, Make(c), ~LostEffect(c)
  PROVE  /\ pc[c] = "made" /\ SaveEffect(c, copy[c])
         /\ \/ copy[c].task /\ LeaveEffect(c)
            \/ ~copy[c].task /\ Moves(c, "made", "store", copy[c]) /\ at' = at
         /\ UNCHANGED <<clip, purge, blurred, bought, landed, billed, troubles>>
<1>1. pc[c] = "made" /\ copy[c] \in Record /\ Holds(c)
  BY DEF Make, TypedInv, Typed, Holds, Pass, Worker
<1>2. \/ copy[c].task /\ LeaveEffect(c)
      \/ ~copy[c].task /\ Moves(c, "made", "store", copy[c]) /\ UNCHANGED <<at, copy, cand, view>>
  <2>1. CASE copy[c].task /\ Leave(c)
    BY <1>1, <2>1, LeaveDoes DEF Worker
  <2>2. CASE ~copy[c].task /\ Goto(c, "store") /\ UNCHANGED <<at, copy, cand, view>>
    BY <1>1, <2>2, CallAssumption DEF TypedInv, Typed, Goto, Alone, Moves, Pass, Worker
  <2> QED BY <2>1, <2>2 DEF Make
<1>3. CASE Kept(c, copy[c]) /\ UNCHANGED troubles
  BY <1>1, <1>2, <1>3, KeptDoes DEF Make, budgetVars, Worker
<1>4. CASE Lost(c, copy[c]) /\ Trouble
  <2>1. LostSave(c)
    BY <1>1, <1>4, LostDoes DEF Worker
  <2>2. pc' \in [Worker -> Phase]
    BY <1>2 DEF Make, Goto, Leave, LeaveEffect, TypedInv, Typed, Phase
  <2>3. LostEffect(c)
    BY <1>1, <1>2, <2>1, <2>2 DEF Make, LostEffect, LeaveEffect, TypedInv, Typed,
       worldVars, budgetVars
  <2> QED BY <2>3
<1> QED BY <1>3, <1>4 DEF Make, Save

\* A walk that is over leaves a failed job if it bought anything.
LEMMA WalkOverDoes ==
  ASSUME TypedInv, NEW c \in Call, WalkOver(c), ~LostEffect(c)
  PROVE  /\ pc[c] = "spent" /\ LeaveEffect(c)
         /\ \/ copy[c].banked > 0 /\ SaveEffect(c, Ended(Carried(copy[c]), "failed"))
            \/ copy[c].banked = 0 /\ UNCHANGED <<rec, reported, torn, stale>>
         /\ UNCHANGED <<clip, purge, blurred, bought, landed, billed, troubles>>
<1>1. Ended(Carried(copy[c]), "failed") \in Record
  BY CarriedJob, EndedJob DEF TypedInv, Typed, Holds, Pass, Worker
<1>2. pc[c] = "spent" /\ LeaveEffect(c)
  BY LeaveDoes DEF WalkOver, Worker
<1>3. CASE copy[c].banked > 0 /\ Save(c, Ended(Carried(copy[c]), "failed"))
  <2> DEFINE d == Ended(Carried(copy[c]), "failed")
  <2>1. CASE Kept(c, d) /\ UNCHANGED troubles
    BY <1>1, <1>2, <1>3, <2>1, KeptDoes DEF WalkOver, budgetVars, Holds, Worker
  <2>2. CASE Lost(c, d) /\ Trouble
    <3>1. LostSave(c)
      BY <1>1, <1>2, <2>2, LostDoes DEF Holds, Worker
    <3>2. LostEffect(c)
      BY <1>2, <3>1 DEF WalkOver, LostEffect, LeaveEffect, worldVars, budgetVars
    <3> QED BY <3>2
  <2> QED BY <1>3, <2>1, <2>2 DEF Save
<1>4. CASE copy[c].banked = 0 /\ UNCHANGED <<rec, reported, torn, stale, troubles>>
  BY <1>2, <1>4 DEF WalkOver, budgetVars
<1> QED BY <1>3, <1>4 DEF WalkOver

\* A pass takes a row that can be polled, or looks further.
LEMMA TakeDoes ==
  ASSUME TypedInv, NEW p \in Pass, NEW j \in Call, Take(p, j)
  PROVE  /\ \/ /\ Pollable(rec[j]) /\ Moves(p, "open", "lock", rec[j]) /\ at'[p] = j
               /\ stale' = stale \ {p}
            \/ /\ Moves(p, "open", pc'[p], copy[p]) /\ pc'[p] \in {"idle", "open"}
               /\ at' = at /\ stale' = stale
         /\ UNCHANGED <<cand, billed, rec, clip, purge, torn, blurred, bought, landed,
                        reported>>
<1>1. CASE Pollable(rec[j])
  BY <1>1, CallAssumption DEF Take, TypedInv, Typed, Goto, jobVars, worldVars,
     workVars, budgetVars, historyVars, Alone, Moves, Pass, Worker
<1>2. CASE ~Pollable(rec[j])
  BY <1>2, CallAssumption DEF Take, TypedInv, Typed, Goto, jobVars, worldVars,
     workVars, budgetVars, historyVars, Alone, Moves, Pass, Worker
<1> QED BY <1>1, <1>2

\* Under the lock a pass goes on with the record, with its row, or not at all.
LEMMA EnterDoes ==
  ASSUME TypedInv, NEW p \in Pass, Enter(p)
  PROVE  /\ pc[p] = "lock" /\ \A o \in Pass : at[o] = at[p] => ~Locked(o)
         /\ \/ /\ Known(at[p]) /\ Pollable(rec[at[p]]) /\ Moves(p, "lock", "poll", rec[at[p]])
               /\ at' = at /\ stale' = stale \ {p} /\ torn' = torn
            \/ /\ ~Known(at[p]) /\ Moves(p, "lock", "poll", copy[p])
               /\ at' = at /\ stale' = stale /\ torn' = torn \cup {at[p]}
            \/ LeaveEffect(p) /\ stale' = stale \ {p} /\ torn' = torn
         /\ UNCHANGED <<rec, reported, clip, purge, blurred, bought, landed, billed>>
<1> DEFINE fresh == IF Known(at[p]) THEN rec[at[p]] ELSE copy[p]
<1>1. /\ pc[p] = "lock" /\ \A o \in Pass : at[o] = at[p] => ~Locked(o)
      /\ UNCHANGED <<rec, reported, clip, purge, blurred, bought, landed, billed>>
  BY DEF Enter, jobVars, budgetVars
<1>2. CASE Pollable(fresh) /\ Known(at[p])
  BY <1>1, <1>2, CallAssumption DEF Enter, TypedInv, Typed, Goto, jobVars,
     worldVars, workVars, budgetVars, historyVars, Alone, Moves, Pass, Worker
<1>3. CASE Pollable(fresh) /\ ~Known(at[p])
  BY <1>1, <1>3, CallAssumption DEF Enter, TypedInv, Typed, Goto, jobVars,
     worldVars, workVars, budgetVars, historyVars, Alone, Moves, Pass, Worker
<1>4. CASE ~Pollable(fresh)
  <2>1. Leave(p) /\ stale' = stale \ {p} /\ torn' = torn
    BY <1>4 DEF Enter
  <2> QED BY <1>1, <2>1, LeaveDoes DEF Worker
<1> QED BY <1>2, <1>3, <1>4

\* A pass of a server that is off leaves.
LEMMA NotServingDoes ==
  ASSUME TypedInv, NEW p \in Pass, NotServing(p)
  PROVE  /\ pc[p] = "poll" /\ LeaveEffect(p)
         /\ UNCHANGED <<rec, reported, stale, torn, clip, purge, blurred, bought, landed,
                        billed>>
BY LeaveDoes DEF NotServing, jobVars, budgetVars, historyVars, Worker

\* A job that is still running is put down until the next poll.
LEMMA ProgressDoes ==
  ASSUME TypedInv, NEW p \in Pass, Progress(p), ~LostEffect(p)
  PROVE  /\ pc[p] = "poll" /\ LeaveEffect(p) /\ SaveEffect(p, DueNow(copy[p], FALSE))
         /\ UNCHANGED <<clip, purge, blurred, bought, landed, billed, troubles>>
<1>1. DueNow(copy[p], FALSE) \in Record
  BY DueNowJob DEF TypedInv, Typed, Holds, Pass, Worker
<1>2. pc[p] = "poll" /\ LeaveEffect(p)
  BY LeaveDoes DEF Progress, Pass, Worker
<1>3. CASE Kept(p, DueNow(copy[p], FALSE)) /\ UNCHANGED troubles
  BY <1>1, <1>2, <1>3, KeptDoes DEF Progress, budgetVars, Holds, Pass, Worker
<1>4. CASE Lost(p, DueNow(copy[p], FALSE)) /\ Trouble
  <2>1. LostSave(p)
    BY <1>1, <1>2, <1>4, LostDoes DEF Holds, Pass, Worker
  <2>2. LostEffect(p)
    BY <1>2, <2>1 DEF Progress, LostEffect, LeaveEffect, worldVars, budgetVars
  <2> QED BY <2>2
<1> QED BY <1>3, <1>4 DEF Progress, Save

\* An advance with a task is put down.
LEMMA ResumeDoes ==
  ASSUME TypedInv, NEW w \in Call \cup Pass, Resume(w), ~LostEffect(w)
  PROVE  /\ pc[w] = "keep" /\ LeaveEffect(w) /\ SaveEffect(w, copy[w])
         /\ UNCHANGED <<clip, purge, blurred, bought, landed, billed, troubles>>
<1>1. copy[w] \in Record
  BY DEF TypedInv, Typed, Holds, Pass, Worker
<1>2. pc[w] = "keep" /\ LeaveEffect(w)
  BY LeaveDoes DEF Resume, Pass, Worker
<1>3. CASE Kept(w, copy[w]) /\ UNCHANGED troubles
  BY <1>1, <1>2, <1>3, KeptDoes DEF Resume, budgetVars, Holds, Pass, Worker
<1>4. CASE Lost(w, copy[w]) /\ Trouble
  <2>1. LostSave(w)
    BY <1>1, <1>2, <1>4, LostDoes DEF Holds, Pass, Worker
  <2>2. LostEffect(w)
    BY <1>2, <2>1 DEF Resume, LostEffect, LeaveEffect, worldVars, budgetVars
  <2> QED BY <2>2
<1> QED BY <1>3, <1>4 DEF Resume, Save

\* place saves what it read, with the element's name.
LEMMA PlaceSaveDoes ==
  ASSUME TypedInv, NEW q \in Place, PlaceSave(q), ~LostEffect(q)
  PROVE  /\ pc[q] = "name" /\ LeaveEffect(q) /\ SaveEffect(q, Named(copy[q]))
         /\ UNCHANGED <<clip, purge, blurred, bought, landed, billed, troubles>>
<1>1. Named(copy[q]) \in Record
  BY NamedJob DEF TypedInv, Typed, Holds, Pass, Worker
<1>2. pc[q] = "name" /\ LeaveEffect(q)
  BY LeaveDoes DEF PlaceSave, Pass, Worker
<1>3. CASE Kept(q, Named(copy[q])) /\ UNCHANGED troubles
  BY <1>1, <1>2, <1>3, KeptDoes DEF PlaceSave, budgetVars, Holds, Pass, Worker
<1>4. CASE Lost(q, Named(copy[q])) /\ Trouble
  <2>1. LostSave(q)
    BY <1>1, <1>2, <1>4, LostDoes DEF Holds, Pass, Worker
  <2>2. LostEffect(q)
    BY <1>2, <2>1 DEF PlaceSave, LostEffect, LeaveEffect, worldVars, budgetVars
  <2> QED BY <2>2
<1> QED BY <1>3, <1>4 DEF PlaceSave, Save

\* A failed poll is a failed render.
LEMMA PollFailedDoes ==
  ASSUME TypedInv, NEW p \in Pass, PollFailed(p)
  PROVE  /\ pc[p] = "poll" /\ Alone(p) /\ BillEffect(p) /\ at' = at
         /\ UNCHANGED <<billed, cand, rec, clip, purge, stale, torn, blurred, bought,
                        landed, reported>>
<1>1. copy[p].model \in Model
  BY DEF PollFailed, TypedInv, ModelOf, Pass, Worker
<1>2. BillEffect(p)
  BY <1>1, BillDoes DEF PollFailed
<1>3. Alone(p)
  BY <1>2, CallAssumption DEF PollFailed, BillFailure, BillEffect, TypedInv, Typed,
     Goto, jobVars, worldVars, workVars, budgetVars, historyVars, Alone, Pass,
     Worker
<1> QED BY <1>2, <1>3 DEF PollFailed, jobVars, budgetVars, historyVars

\* So is a file that is not what it should be.
LEMMA FileBadDoes ==
  ASSUME TypedInv, NEW w \in Call \cup Pass, FileBad(w)
  PROVE  /\ \/ pc[w] = "store" /\ Alone(w) /\ BillEffect(w)
            \/ Moves(w, "restore", "failing", Banked(copy[w], copy[w].model))
         /\ at' = at
         /\ UNCHANGED <<billed, cand, rec, clip, purge, stale, torn, blurred, bought,
                        landed, reported>>
<1>1. CASE pc[w] = "store" /\ BillFailure(w)
  <2>1. copy[w].model \in Model
    BY <1>1 DEF TypedInv, ModelOf, AfterJob, Rendering, Pass, Worker
  <2>2. BillEffect(w)
    BY <1>1, <2>1, BillDoes
  <2>3. Alone(w)
    BY <1>1, <2>2, CallAssumption DEF FileBad, BillFailure, BillEffect, TypedInv,
       Typed, Goto, jobVars, worldVars, workVars, budgetVars, historyVars, Alone,
       Pass, Worker
  <2> QED BY <1>1, <2>2, <2>3 DEF FileBad, jobVars, budgetVars, historyVars
<1>2. CASE pc[w] = "restore" /\ WriteOff(w, "failing") /\ UNCHANGED view
  BY <1>2, CallAssumption DEF FileBad, WriteOff, TypedInv, Typed, Goto, jobVars,
     worldVars, workVars, budgetVars, historyVars, Alone, Moves, Pass, Worker
<1> QED BY <1>1, <1>2 DEF FileBad

\* The outcome is saved.
LEMMA SettleDoes ==
  ASSUME TypedInv, NEW w \in Call \cup Pass, Settle(w), ~LostEffect(w)
  PROVE  /\ pc[w] \in {"landing", "failing", "refail"}
         /\ Settled(w) \in Record /\ SaveEffect(w, Settled(w))
         /\ Moves(w, pc[w], IF pc[w] = "refail" THEN "redraw" ELSE "draw",
                  Marked(Settled(w), TRUE))
         /\ at' = at
         /\ UNCHANGED <<clip, purge, blurred, bought, landed, billed, troubles>>
<1>1. pc[w] \in {"landing", "failing", "refail"} /\ Save(w, Settled(w))
  BY DEF Settle, Settled
<1>2. Settled(w) \in Record
  BY EndedJob DEF Settled, TypedInv, Typed, Holds, Pass, Worker
<1>3. copy' = [copy EXCEPT ![w] = Marked(Settled(w), TRUE)] /\ Marked(Settled(w), TRUE) \in Record
  BY <1>2, MarkedJob DEF Settle, Settled
<1>4. /\ Moves(w, pc[w], IF pc[w] = "refail" THEN "redraw" ELSE "draw",
               Marked(Settled(w), TRUE))
      /\ at' = at /\ cand' = cand /\ view' = view
      /\ pc' \in [Worker -> Phase] /\ copy' \in [Worker -> Record]
  <2> HIDE DEF Settled
  <2>1. copy' \in [Worker -> Record] /\ copy'[w] = Marked(Settled(w), TRUE)
        /\ \A o \in Worker \ {w} : copy'[o] = copy[o]
    BY <1>3 DEF TypedInv, Typed, Pass, Worker
  <2>2. /\ pc' \in [Worker -> Phase] /\ pc'[w] = IF pc[w] = "refail" THEN "redraw" ELSE "draw"
        /\ \A o \in Worker \ {w} : pc'[o] = pc[o]
    BY DEF Settle, Goto, TypedInv, Typed, Phase, Pass, Worker
  <2>3. UNCHANGED <<at, cand, view>>
    BY DEF Settle
  <2> QED BY <2>1, <2>2, <2>3 DEF Moves, Alone
<1>5. CASE Kept(w, Settled(w)) /\ UNCHANGED troubles
  BY <1>1, <1>2, <1>4, <1>5, KeptDoes DEF Settle, budgetVars, Holds, Pass, Worker
<1>6. CASE Lost(w, Settled(w)) /\ Trouble
  <2>1. LostSave(w)
    BY <1>1, <1>2, <1>6, LostDoes DEF Holds, Pass, Worker
  <2>2. LostEffect(w)
    BY <1>1, <1>4, <2>1 DEF Settle, LostEffect, TypedInv, Typed, worldVars, budgetVars
  <2> QED BY <2>2
<1> QED BY <1>1, <1>5, <1>6 DEF Save

\* The outcome is drawn on the element the job names.
LEMMA DrawDoes ==
  ASSUME TypedInv, NEW w \in Call \cup Pass, Draw(w)
  PROVE  /\ pc[w] \in {"draw", "redraw"} /\ LeaveEffect(w)
         /\ clip' = IF copy[w].element /\ clip[at[w]] # None
                       THEN [clip EXCEPT ![at[w]] = Shown(copy[w])] ELSE clip
         /\ UNCHANGED <<rec, purge, stale, torn, blurred, bought, landed, reported, billed>>
BY LeaveDoes DEF Draw, budgetVars, historyVars, Pass, Worker

\* A canvas that cannot be read puts the job down, or fails it when it is too
\* old.
LEMMA DrawFailsDoes ==
  ASSUME TypedInv, NEW p \in Pass, DrawFails(p), ~LostEffect(p)
  PROVE  /\ pc[p] \in {"draw", "redraw"} /\ blurred' = blurred \cup {at[p]}
         /\ \/ pc[p] = "draw" /\ LeaveEffect(p) /\ SaveEffect(p, DueNow(copy[p], FALSE))
            \/ /\ Moves(p, "draw", "refail", Banked(copy[p], copy[p].model)) /\ at' = at
               /\ UNCHANGED <<rec, reported, stale, torn>>
            \/ pc[p] = "redraw" /\ LeaveEffect(p) /\ UNCHANGED <<rec, reported, stale, torn>>
         /\ UNCHANGED <<clip, purge, bought, landed, billed>>
<1>1. DueNow(copy[p], FALSE) \in Record
  BY DueNowJob DEF TypedInv, Typed, Holds, Pass, Worker
<1>2. pc[p] \in {"draw", "redraw"} /\ blurred' = blurred \cup {at[p]}
      /\ UNCHANGED <<clip, purge, bought, landed, billed>>
  BY DEF DrawFails, budgetVars
<1>3. CASE pc[p] = "draw" /\ Kept(p, DueNow(copy[p], FALSE)) /\ Leave(p)
  BY <1>1, <1>2, <1>3, KeptDoes, LeaveDoes DEF Holds, Pass, Worker
<1>6. CASE pc[p] = "draw" /\ Lost(p, DueNow(copy[p], FALSE)) /\ Leave(p) /\ UNCHANGED down
  <2>1. LeaveEffect(p) /\ Trouble
    BY <1>6, LeaveDoes DEF DrawFails, Pass, Worker
  <2>2. LostSave(p)
    BY <1>1, <1>6, <2>1, LostDoes DEF Holds, Pass, Worker
  <2>3. LostEffect(p)
    BY <1>2, <1>6, <2>1, <2>2 DEF DrawFails, LostEffect, LeaveEffect, budgetVars
  <2> QED BY <2>3
<1>4. CASE /\ pc[p] = "draw" /\ WriteOff(p, "refail")
           /\ UNCHANGED <<rec, at, cand, view, reported, stale, torn>>
  BY <1>2, <1>4, CallAssumption DEF WriteOff, TypedInv, Typed, Goto, jobVars,
     worldVars, workVars, budgetVars, historyVars, Alone, Moves, Pass, Worker
<1>5. CASE pc[p] = "redraw" /\ Leave(p) /\ UNCHANGED <<rec, down, reported, stale, torn>>
  BY <1>2, <1>5, LeaveDoes DEF Pass, Worker
<1> QED BY <1>3, <1>4, <1>5, <1>6 DEF DrawFails
-----------------------------------------------------------------------------
(* Type correctness. *)

\* A step of one worker leaves the others where they may stand.
LEMMA PlacesMove ==
  ASSUME TypedInv, NEW w \in Worker, Alone(w), PlaceOf(w)', ModelOf(w)'
  PROVE  \A o \in Worker : PlaceOf(o)' /\ ModelOf(o)'
<1>1. ASSUME NEW o \in Worker \ {w} PROVE PlaceOf(o)' /\ ModelOf(o)'
  <2>1. PlaceOf(o) /\ ModelOf(o)
    BY DEF TypedInv
  <2>2. pc'[o] = pc[o] /\ at'[o] = at[o] /\ copy'[o] = copy[o] /\ cand'[o] = cand[o]
    BY DEF Alone
  <2>3. o \in Pass => view'[o] = view[o]
    BY DEF Alone
  <2>4. PlaceOf(o)'
    BY <2>1, <2>2 DEF PlaceOf, Holds
  <2>5. ModelOf(o)'
    BY <2>1, <2>2, <2>3 DEF ModelOf, Terminal
  <2> QED BY <2>4, <2>5
<1> QED BY <1>1

\* A save records a model for a job that goes on, if what is saved has one.
LEMMA SavedModels ==
  ASSUME ModelsRecorded, NEW w, NEW c, SaveEffect(w, c),
         c.status = "running" => c.model \in Model
  PROVE  ModelsRecorded'
BY DEF ModelsRecorded, SaveEffect

\* The type holds at the start.
LEMMA TypedInit == Init => TypedInv
<1> SUFFICES ASSUME Init PROVE TypedInv
  OBVIOUS
<1> USE CallAssumption, BudgetAssumption, BoundAssumption DEF Pass, Worker
<1>1. Typed
  BY Blanks DEF Init, Typed, Phase
<1>2. ModelsRecorded
  BY Blanks DEF Init, ModelsRecorded
<1>3. \A w \in Worker : PlaceOf(w) /\ ModelOf(w)
  BY DEF Init, PlaceOf, ModelOf, Holds, BeforeJob, AfterJob, Rendering
<1> QED BY <1>1, <1>2, <1>3 DEF TypedInv

\* A step that loses its save keeps the type.
LEMMA TypedLost ==
  ASSUME TypedInv, NEW w \in Worker, LostEffect(w)
  PROVE  TypedInv'
<1> USE CallAssumption, BoundAssumption DEF Pass, Worker
<1>1. PlaceOf(w) /\ ModelOf(w) /\ copy[w] \in Record /\ ModelsRecorded /\ Typed
  BY DEF TypedInv, Typed
<1>2. Alone(w) /\ LostSave(w)
  BY DEF LostEffect, LeaveEffect, Moves
<1>3. Typed'
  <2>1. torn' \subseteq Call /\ stale' \subseteq Worker /\ blurred' \subseteq Call
    BY <1>1, <1>2 DEF LostEffect, LostSave, Typed
  <2> QED BY <1>1, <1>2, <2>1 DEF LostEffect, LostSave, Typed
<1>4. ModelsRecorded'
  BY <1>1, <1>2 DEF LostSave, ModelsRecorded
<1>5. PlaceOf(w)' /\ ModelOf(w)'
  <2>1. CASE LeaveEffect(w)
    BY <1>1, <2>1, Blanks DEF LeaveEffect, PlaceOf, ModelOf, Holds, BeforeJob, AfterJob,
       Rendering, Terminal
  <2>2. CASE w \in Call /\ Moves(w, "made", "store", copy[w]) /\ at' = at
    BY <1>1, <2>2 DEF Moves, PlaceOf, ModelOf, Holds, BeforeJob, AfterJob, Rendering
  <2>3. CASE /\ w \in Call \cup Pass /\ pc[w] \in {"landing", "failing", "refail"}
             /\ Moves(w, pc[w], IF pc[w] = "refail" THEN "redraw" ELSE "draw",
                      Marked(Settled(w), TRUE))
             /\ at' = at
    <3>1. copy[w].model \in Model /\ (pc[w] = "landing" => copy[w].status = "succeeded")
      BY <1>1, <2>3 DEF ModelOf, AfterJob, Rendering
    <3>2. Settled(w) \in Record /\ Terminal(Settled(w)) /\ Settled(w).model \in Model
      BY <1>1, <3>1, EndedJob DEF Settled, Terminal
    <3>3. Terminal(Marked(Settled(w), TRUE)) /\ Marked(Settled(w), TRUE).model \in Model
      BY <3>2, MarkedJob DEF Terminal
    <3>4. pc'[w] \in {"draw", "redraw"} /\ copy'[w] = Marked(Settled(w), TRUE)
      BY <2>3 DEF Moves
    <3>5. PlaceOf(w)'
      BY <1>1, <2>3 DEF Moves, PlaceOf, Holds, BeforeJob, AfterJob, Rendering
    <3> QED BY <3>3, <3>4, <3>5 DEF ModelOf
  <2> QED BY <2>1, <2>2, <2>3 DEF LostEffect
<1> QED BY <1>2, <1>3, <1>4, <1>5, PlacesMove DEF TypedInv

\* No step leaves the type.
LEMMA TypedStep == TypedInv /\ [Next]_vars => TypedInv'
<1> SUFFICES ASSUME TypedInv, [Next]_vars PROVE TypedInv'
  OBVIOUS
<1> USE CallAssumption, BudgetAssumption, BoundAssumption DEF Pass, Worker
<1>0. ASSUME NEW w, w \in Call \/ w \in Pass \/ w \in Place, LostEffect(w) PROVE TypedInv'
  BY <1>0, TypedLost DEF Pass, Worker
<1>1. ASSUME NEW c \in Call, Ask(c) PROVE TypedInv'
  <2>1. PlaceOf(c) /\ ModelOf(c) /\ copy[c] \in Record /\ ModelsRecorded
    BY DEF TypedInv, Typed
  <2>2. Typed'
    BY <1>1 DEF Ask, OpenPurse, Purse, TypedInv, Typed, Goto, Phase, jobVars,
       worldVars, workVars, budgetVars, historyVars
  <2>3. ModelsRecorded'
    BY <1>1, <2>1, AskDoes DEF ModelsRecorded
  <2>4. PlaceOf(c)'
    BY <1>1, <2>1, AskDoes DEF PlaceOf, ModelOf, Holds, BeforeJob, AfterJob,
       Rendering, Terminal, Alone, Moves, SaveEffect, LeaveEffect, BillEffect, Pass,
       Worker
  <2>5. ModelOf(c)'
    BY <1>1, <2>1, AskDoes DEF PlaceOf, ModelOf, Holds, BeforeJob, AfterJob,
       Rendering, Terminal, Alone, Moves, SaveEffect, LeaveEffect, BillEffect, Pass,
       Worker
  <2>6. Alone(c)
    BY <1>1, AskDoes DEF Moves, LeaveEffect
  <2> QED BY <2>2, <2>3, <2>4, <2>5, <2>6, PlacesMove DEF TypedInv, Worker
<1>2. ASSUME NEW c \in Call, Walk(c) PROVE TypedInv'
  <2>1. PlaceOf(c) /\ ModelOf(c) /\ copy[c] \in Record /\ ModelsRecorded
    BY DEF TypedInv, Typed
  <2>2. Typed'
    <3>0. Candidate(copy[c].tried) # None => Candidate(copy[c].tried) \in Model
      BY CandidateIsNew DEF TypedInv
    <3>1. submits' \in [Sweep \cup {"session"} -> 0 .. MaxSubmits]
      BY <1>2 DEF Walk, Submit, Claim, MayClaim, Purse, TypedInv, Typed, budgetVars
    <3>2. cand' \in [Worker -> Model \cup {None}]
      <4>1. cand' = cand \/ \E m \in Model : cand' = [cand EXCEPT ![c] = m]
        BY <1>2, <3>0 DEF Walk, Submit
      <4>2. cand \in [Worker -> Model \cup {None}]
        BY DEF TypedInv, Typed
      <4> QED BY <4>1, <4>2
    <3>3. pc' \in [Worker -> Phase]
      BY <1>2 DEF Walk, Submit, Goto, TypedInv, Typed, Phase
    <3>4. billed' \in Int
      BY <1>2 DEF Walk, Submit, Claim, TypedInv, Typed, budgetVars
    <3>5. view' \in [Pass -> Nat]
      BY <1>2 DEF Walk, Submit, Claim, TypedInv, Typed, budgetVars
    <3> QED BY <1>2, <3>1, <3>2, <3>3, <3>4, <3>5 DEF Walk, TypedInv, Typed,
       jobVars, worldVars, historyVars
  <2>3. ModelsRecorded'
    BY <1>2, <2>1, WalkDoes DEF ModelsRecorded
  <2>4. PlaceOf(c)'
    BY <1>2, <2>1, WalkDoes DEF PlaceOf, ModelOf, Holds, BeforeJob, AfterJob,
       Rendering, Terminal, Alone, Moves, SaveEffect, LeaveEffect, BillEffect, Pass,
       Worker
  <2>5. ModelOf(c)'
    BY <1>2, <2>1, WalkDoes DEF PlaceOf, ModelOf, Holds, BeforeJob, AfterJob,
       Rendering, Terminal, Alone, Moves, SaveEffect, LeaveEffect, BillEffect, Pass,
       Worker
  <2>6. Alone(c)
    BY <1>2, WalkDoes DEF Moves, LeaveEffect
  <2> QED BY <2>2, <2>3, <2>4, <2>5, <2>6, PlacesMove DEF TypedInv, Worker
<1>3. ASSUME NEW c \in Call, Refused(c, "sent", "walk") PROVE TypedInv'
  <2>1. cand[c] \in Model /\ copy[c] \in Record
    BY <1>3, RefusedDoes DEF TypedInv, Typed, ModelOf, Moves, Pass, Worker
  <2>2. /\ Tried(copy[c], cand[c]) \in Record
        /\ Tried(copy[c], cand[c]).model = copy[c].model
    BY <2>1, TriedJob
  <2>3. PlaceOf(c) /\ ModelOf(c) /\ copy[c] \in Record /\ ModelsRecorded
    BY DEF TypedInv, Typed
  <2>4. Typed'
    <3>1. pc' \in [Worker -> Phase]
      BY <1>3, <2>3 DEF Refused, Goto, TypedInv, Typed, Phase
    <3>2. copy' \in [Worker -> Record]
      BY <1>3, <2>3, <2>2 DEF Refused, TypedInv, Typed, Phase
    <3>3. cand' \in [Worker -> Model \cup {None}]
      BY <1>3, <2>3 DEF Refused, TypedInv, Typed, Phase
    <3>4. view' \in [Pass -> Nat]
      BY <1>3, <2>3 DEF Refused, Free, ModelOf, TypedInv, Typed, Phase
    <3>5. billed' \in Int
      BY <1>3, <2>3 DEF Refused, Free, TypedInv, Typed, Phase
    <3>6. UNCHANGED <<rec, clip, down, aged, serving, gone, at, todo, submits, purge, troubles,
                      bought, landed, reported, stale, torn, blurred>>
      BY <1>3 DEF Refused, jobVars, worldVars, workVars, budgetVars, historyVars
    <3> QED BY <3>1, <3>2, <3>3, <3>4, <3>5, <3>6 DEF TypedInv, Typed
  <2>5. ModelsRecorded'
    BY <1>3, <2>3, <2>1, <2>2, RefusedDoes DEF ModelsRecorded
  <2>6. PlaceOf(c)'
    BY <1>3, <2>3, <2>1, <2>2, RefusedDoes DEF PlaceOf, ModelOf, Holds, BeforeJob,
       AfterJob, Rendering, Terminal, Alone, Moves, SaveEffect, LeaveEffect,
       BillEffect, Pass, Worker
  <2>7. ModelOf(c)'
    BY <1>3, <2>3, <2>1, <2>2, RefusedDoes DEF PlaceOf, ModelOf, Holds, BeforeJob,
       AfterJob, Rendering, Terminal, Alone, Moves, SaveEffect, LeaveEffect,
       BillEffect, Pass, Worker
  <2>8. Alone(c)
    BY <1>3, RefusedDoes DEF Moves, LeaveEffect
  <2> QED BY <2>4, <2>5, <2>6, <2>7, <2>8, PlacesMove DEF TypedInv, Worker
<1>4. ASSUME NEW c \in Call, Empty(c, "sent", "walk") PROVE TypedInv'
  <2>1. cand[c] \in Model /\ copy[c] \in Record
    BY <1>4, EmptyDoes DEF TypedInv, Typed, ModelOf, Moves, Pass, Worker
  <2>2. /\ Banked(copy[c], cand[c]) \in Record
        /\ Banked(copy[c], cand[c]).model = copy[c].model
    BY <2>1, BankedJob
  <2>3. PlaceOf(c) /\ ModelOf(c) /\ copy[c] \in Record /\ ModelsRecorded
    BY DEF TypedInv, Typed
  <2>4. Typed'
    <3>0. at[c] \in Call
      BY <2>3, <1>4 DEF Empty, PlaceOf, Holds
    <3>1. pc' \in [Worker -> Phase]
      BY <1>4, <2>3 DEF Empty, Goto, TypedInv, Typed, Phase
    <3>2. copy' \in [Worker -> Record]
      BY <1>4, <2>3, <2>2 DEF Empty, TypedInv, Typed, Phase
    <3>3. cand' \in [Worker -> Model \cup {None}]
      BY <1>4, <2>3 DEF Empty, TypedInv, Typed, Phase
    <3>4. bought' \in [Call -> Seq(Model)]
      BY <1>4, <2>3, <2>1, <3>0 DEF Empty, Paid, TypedInv, Typed, Phase
    <3>5. down' \subseteq Model
      BY <1>4, <2>3, <2>1 DEF Empty, TypedInv, Typed, Phase
    <3>6. UNCHANGED <<rec, clip, aged, serving, gone, at, view, todo, submits, billed, purge,
                      troubles, landed, reported, stale, torn, blurred>>
      BY <1>4 DEF Empty, jobVars, worldVars, workVars, budgetVars, historyVars
    <3> QED BY <3>1, <3>2, <3>3, <3>4, <3>5, <3>6 DEF TypedInv, Typed
  <2>5. ModelsRecorded'
    BY <1>4, <2>3, <2>1, <2>2, EmptyDoes DEF ModelsRecorded
  <2>6. PlaceOf(c)'
    BY <1>4, <2>3, <2>1, <2>2, EmptyDoes DEF PlaceOf, ModelOf, Holds, BeforeJob,
       AfterJob, Rendering, Terminal, Alone, Moves, SaveEffect, LeaveEffect,
       BillEffect, Pass, Worker
  <2>7. ModelOf(c)'
    BY <1>4, <2>3, <2>1, <2>2, EmptyDoes DEF PlaceOf, ModelOf, Holds, BeforeJob,
       AfterJob, Rendering, Terminal, Alone, Moves, SaveEffect, LeaveEffect,
       BillEffect, Pass, Worker
  <2>8. Alone(c)
    BY <1>4, EmptyDoes DEF Moves, LeaveEffect
  <2> QED BY <2>4, <2>5, <2>6, <2>7, <2>8, PlacesMove DEF TypedInv, Worker
<1>5. ASSUME NEW c \in Call, Accepted(c, "sent", Carried(copy[c]), "made")
      PROVE  TypedInv'
  <2>1. Carried(copy[c]) \in Record /\ cand[c] \in Model
    BY <1>5, CarriedJob DEF Accepted, TypedInv, Typed, ModelOf, Pass, Worker
  <2>2. /\ Taken(Carried(copy[c]), cand[c]) \in Record
        /\ Taken(Carried(copy[c]), cand[c]).model = cand[c]
    BY <2>1, TakenJob
  <2>3. PlaceOf(c) /\ ModelOf(c) /\ copy[c] \in Record /\ ModelsRecorded
    BY DEF TypedInv, Typed
  <2>4. Typed'
    <3>0. at[c] \in Call
      BY <2>3, <1>5 DEF Accepted, PlaceOf, Holds
    <3>1. pc' \in [Worker -> Phase]
      BY <1>5, <2>3 DEF Accepted, Goto, TypedInv, Typed, Phase
    <3>2. copy' \in [Worker -> Record]
      BY <1>5, <2>3, <2>2 DEF Accepted, TypedInv, Typed, Phase
    <3>3. cand' \in [Worker -> Model \cup {None}]
      BY <1>5, <2>3 DEF Accepted, TypedInv, Typed, Phase
    <3>4. bought' \in [Call -> Seq(Model)]
      BY <1>5, <2>3, <2>1, <3>0 DEF Accepted, Paid, TypedInv, Typed, Phase
    <3>5. UNCHANGED <<rec, clip, down, aged, serving, gone, at, view, todo, submits, billed,
                      purge, troubles, landed, reported, stale, torn, blurred>>
      BY <1>5 DEF Accepted, jobVars, worldVars, workVars, budgetVars, historyVars
    <3> QED BY <3>1, <3>2, <3>3, <3>4, <3>5 DEF TypedInv, Typed
  <2>5. ModelsRecorded'
    BY <1>5, <2>3, <2>1, <2>2, AcceptedDoes DEF ModelsRecorded
  <2>6. PlaceOf(c)'
    BY <1>5, <2>3, <2>1, <2>2, AcceptedDoes DEF PlaceOf, ModelOf, Holds, BeforeJob,
       AfterJob, Rendering, Terminal, Alone, Moves, SaveEffect, LeaveEffect,
       BillEffect, Pass, Worker
  <2>7. ModelOf(c)'
    BY <1>5, <2>3, <2>1, <2>2, AcceptedDoes DEF PlaceOf, ModelOf, Holds, BeforeJob,
       AfterJob, Rendering, Terminal, Alone, Moves, SaveEffect, LeaveEffect,
       BillEffect, Pass, Worker
  <2>8. Alone(c)
    BY <1>5, AcceptedDoes DEF Moves, LeaveEffect
  <2> QED BY <2>4, <2>5, <2>6, <2>7, <2>8, PlacesMove DEF TypedInv, Worker
<1>6. ASSUME NEW c \in Call, Make(c), ~LostEffect(c) PROVE TypedInv'
  <2>1. copy[c].status = "running" => copy[c].model \in Model
    <3>1. copy[c] \in Record /\ copy[c].model \in Model
      BY <1>6, MakeDoes DEF TypedInv, Typed, ModelOf, AfterJob, Rendering, Pass,
         Worker
    <3> QED BY <3>1
  <2>2. PlaceOf(c) /\ ModelOf(c) /\ copy[c] \in Record /\ ModelsRecorded
    BY DEF TypedInv, Typed
  <2>3. Typed'
    <3>1. SaveEffect(c, copy[c]) /\ UNCHANGED <<blurred, bought, landed, troubles>>
      BY <1>6, MakeDoes
    <3>2. UNCHANGED <<clip, worldVars, todo, budgetVars, purge>>
      BY <1>6 DEF Make
    <3>3. CASE LeaveEffect(c)
      BY <3>1, <3>2, <3>3 DEF SaveEffect, LeaveEffect, TypedInv, Typed, worldVars, budgetVars
    <3>4. CASE Goto(c, "store") /\ UNCHANGED <<at, copy, cand, view>>
      BY <3>1, <3>2, <3>4 DEF SaveEffect, Goto, TypedInv, Typed, Phase, worldVars, budgetVars
    <3> QED BY <1>6, <3>3, <3>4, LeaveDoes DEF Make
  <2>4. ModelsRecorded'
    BY <1>6, <2>2, <2>1, MakeDoes, SavedModels
  <2>5. PlaceOf(c)'
    BY <1>6, <2>2, <2>1, MakeDoes, Blanks DEF PlaceOf, ModelOf, Holds, BeforeJob,
       AfterJob, Rendering, Terminal, Alone, Moves, SaveEffect, LeaveEffect,
       BillEffect, Pass, Worker
  <2>6. ModelOf(c)'
    BY <1>6, <2>2, <2>1, MakeDoes, Blanks DEF PlaceOf, ModelOf, Holds, BeforeJob,
       AfterJob, Rendering, Terminal, Alone, Moves, SaveEffect, LeaveEffect,
       BillEffect, Pass, Worker
  <2>7. Alone(c)
    BY <1>6, MakeDoes DEF Moves, LeaveEffect
  <2> QED BY <2>3, <2>4, <2>5, <2>6, <2>7, PlacesMove DEF TypedInv, Worker
<1>7. ASSUME NEW c \in Call, WalkOver(c), ~LostEffect(c) PROVE TypedInv'
  <2>1. Ended(Carried(copy[c]), "failed").status = "running"
          => Ended(Carried(copy[c]), "failed").model \in Model
    <3>1. copy[c] \in Record
      BY <1>7, WalkOverDoes DEF TypedInv, Typed, ModelOf, AfterJob, Rendering, Pass,
         Worker
    <3> QED BY <3>1, CarriedJob, EndedJob
  <2>2. PlaceOf(c) /\ ModelOf(c) /\ copy[c] \in Record /\ ModelsRecorded
    BY DEF TypedInv, Typed
  <2>3. Typed'
    <3>1. /\ rec' \in [Call -> Record] /\ reported' \in [Call -> Nat]
          /\ torn' \subseteq Call /\ stale' \subseteq Worker
      BY <1>7, WalkOverDoes DEF SaveEffect, TypedInv, Typed
    <3>2. LeaveEffect(c)
      BY <1>7, WalkOverDoes
    <3>3. /\ UNCHANGED <<clip, down, aged, serving, gone, todo, submits, billed, purge, troubles>>
          /\ UNCHANGED <<bought, landed, blurred>>
      BY <1>7, WalkOverDoes DEF WalkOver, worldVars, budgetVars
    <3> QED BY <3>1, <3>2, <3>3 DEF LeaveEffect, TypedInv, Typed
  <2>4. ModelsRecorded'
    BY <1>7, <2>2, <2>1, WalkOverDoes, SavedModels DEF ModelsRecorded
  <2>5. PlaceOf(c)'
    BY <1>7, <2>2, <2>1, WalkOverDoes, Blanks DEF PlaceOf, ModelOf, Holds,
       BeforeJob, AfterJob, Rendering, Terminal, Alone, Moves, SaveEffect,
       LeaveEffect, BillEffect, Pass, Worker
  <2>6. ModelOf(c)'
    BY <1>7, <2>2, <2>1, WalkOverDoes, Blanks DEF PlaceOf, ModelOf, Holds,
       BeforeJob, AfterJob, Rendering, Terminal, Alone, Moves, SaveEffect,
       LeaveEffect, BillEffect, Pass, Worker
  <2>7. Alone(c)
    BY <1>7, WalkOverDoes DEF Moves, LeaveEffect
  <2> QED BY <2>3, <2>4, <2>5, <2>6, <2>7, PlacesMove DEF TypedInv, Worker
<1>8. ASSUME NEW p \in Pass, Open(p) PROVE TypedInv'
  <2>1. PlaceOf(p) /\ ModelOf(p) /\ copy[p] \in Record /\ ModelsRecorded
    BY DEF TypedInv, Typed
  <2>2. Typed'
    BY <1>8 DEF Open, OpenPurse, Purse, TypedInv, Typed, Goto, Phase, jobVars,
       worldVars, workVars, budgetVars, historyVars
  <2>3. ModelsRecorded'
    BY <1>8, <2>1, OpenDoes DEF ModelsRecorded
  <2>4. PlaceOf(p)'
    BY <1>8, <2>1, OpenDoes DEF PlaceOf, ModelOf, Holds, BeforeJob, AfterJob,
       Rendering, Terminal, Alone, Moves, SaveEffect, LeaveEffect, BillEffect, Pass,
       Worker
  <2>5. ModelOf(p)'
    BY <1>8, <2>1, OpenDoes DEF PlaceOf, ModelOf, Holds, BeforeJob, AfterJob,
       Rendering, Terminal, Alone, Moves, SaveEffect, LeaveEffect, BillEffect, Pass,
       Worker
  <2>6. Alone(p)
    BY <1>8, OpenDoes DEF Moves, LeaveEffect
  <2> QED BY <2>2, <2>3, <2>4, <2>5, <2>6, PlacesMove DEF TypedInv, Worker
<1>9. ASSUME NEW p \in Pass, NEW j \in Call, Take(p, j) PROVE TypedInv'
  <2>1. PlaceOf(p) /\ ModelOf(p) /\ copy[p] \in Record /\ ModelsRecorded
    BY DEF TypedInv, Typed
  <2>2. Typed'
    <3>1. pc' \in [Worker -> Phase]
      <4>1. \E l \in {"lock", "idle", "open"} : pc' = [pc EXCEPT ![p] = l]
        BY <1>9 DEF Take, Goto
      <4>2. pc \in [Worker -> Phase]
        BY DEF TypedInv, Typed
      <4> QED BY <4>1, <4>2 DEF Phase
    <3>2. at' \in [Worker -> Call \cup {None}]
      <4>1. at' = at \/ at' = [at EXCEPT ![p] = j]
        BY <1>9, <2>1 DEF Take
      <4>2. at \in [Worker -> Call \cup {None}]
        BY DEF TypedInv, Typed
      <4> QED BY <4>1, <4>2
    <3>3. copy' \in [Worker -> Record]
      BY <1>9, <2>1 DEF Take, TypedInv, Typed, Phase
    <3>4. todo' \in [Pass -> SUBSET Call]
      BY <1>9, <2>1 DEF Take, TypedInv, Typed, Phase
    <3>5. stale' \subseteq Worker
      BY <1>9, <2>1 DEF Take, TypedInv, Typed, Phase
    <3>6. UNCHANGED <<rec, clip, down, aged, serving, gone, cand, view, submits, billed, purge,
                      troubles, bought, landed, reported, torn, blurred>>
      BY <1>9 DEF Take, jobVars, worldVars, workVars, budgetVars, historyVars
    <3> QED BY <3>1, <3>2, <3>3, <3>4, <3>5, <3>6 DEF TypedInv, Typed
  <2>3. ModelsRecorded'
    BY <1>9, <2>1, TakeDoes DEF ModelsRecorded
  <2>4. PlaceOf(p)'
    BY <1>9, <2>1, TakeDoes DEF PlaceOf, ModelOf, Holds, BeforeJob, AfterJob,
       Rendering, Terminal, Alone, Moves, SaveEffect, LeaveEffect, BillEffect, Pass,
       Worker
  <2>5. ModelOf(p)'
    BY <1>9, <2>1, TakeDoes DEF PlaceOf, ModelOf, Holds, BeforeJob, AfterJob,
       Rendering, Terminal, Alone, Moves, SaveEffect, LeaveEffect, BillEffect, Pass,
       Worker, Typed, ModelsRecorded, Pollable
  <2>6. Alone(p)
    BY <1>9, TakeDoes DEF Moves, LeaveEffect
  <2> QED BY <2>2, <2>3, <2>4, <2>5, <2>6, PlacesMove DEF TypedInv, Worker
<1>10. ASSUME NEW p \in Pass, Enter(p) PROVE TypedInv'
  <2>1. at[p] \in Call /\ copy[p] \in Record /\ rec[at[p]] \in Record
    BY <1>10, EnterDoes DEF TypedInv, Typed, PlaceOf, Holds, Pass, Worker
  <2>2. PlaceOf(p) /\ ModelOf(p) /\ copy[p] \in Record /\ ModelsRecorded
    BY DEF TypedInv, Typed
  <2>3. Typed'
    <3>1. pc' \in [Worker -> Phase]
      BY <1>10, <2>2 DEF Enter, Goto, Leave, TypedInv, Typed, Phase
    <3>2. at' \in [Worker -> Call \cup {None}]
      <4>1. at' = at \/ at' = [at EXCEPT ![p] = None]
        BY <1>10, <2>2 DEF Enter, Leave
      <4>2. at \in [Worker -> Call \cup {None}]
        BY DEF TypedInv, Typed
      <4> QED BY <4>1, <4>2
    <3>3. copy' \in [Worker -> Record]
      <4>1. \E c \in {rec[at[p]], copy[p], Blank} : copy' = [copy EXCEPT ![p] = c]
        BY <1>10 DEF Enter, Leave
      <4>2. copy \in [Worker -> Record]
        BY DEF TypedInv, Typed
      <4> QED BY <2>1, <4>1, <4>2, Blanks
    <3>4. cand' \in [Worker -> Model \cup {None}]
      BY <1>10, <2>2 DEF Enter, Leave, TypedInv, Typed, Phase
    <3>5. view' \in [Pass -> Nat]
      <4>1. view' = view \/ view' = [view EXCEPT ![p] = 0]
        BY <1>10, <2>2 DEF Enter, Leave
      <4>2. view \in [Pass -> Nat]
        BY DEF TypedInv, Typed
      <4> QED BY <4>1, <4>2
    <3>6. stale' \subseteq Worker
      BY <1>10, <2>2 DEF Enter, TypedInv, Typed, Phase
    <3>7. torn' \subseteq Call
      BY <1>10, <2>2, <2>1 DEF Enter, TypedInv, Typed, Phase
    <3>8. UNCHANGED <<rec, clip, down, aged, serving, gone, todo, submits, billed, purge,
                      troubles, bought, landed, reported, blurred>>
      BY <1>10 DEF Enter, jobVars, worldVars, workVars, budgetVars, historyVars
    <3> QED BY <3>1, <3>2, <3>3, <3>4, <3>5, <3>6, <3>7, <3>8 DEF TypedInv, Typed
  <2>4. ModelsRecorded'
    BY <1>10, <2>2, <2>1, EnterDoes DEF ModelsRecorded
  <2>5. PlaceOf(p)'
    BY <1>10, <2>2, <2>1, EnterDoes DEF PlaceOf, ModelOf, Holds, BeforeJob, AfterJob,
       Rendering, Terminal, Alone, Moves, SaveEffect, LeaveEffect, BillEffect, Pass,
       Worker
  <2>6. ModelOf(p)'
    BY <1>10, <2>2, <2>1, EnterDoes, Blanks DEF PlaceOf, ModelOf, Holds, BeforeJob,
       AfterJob, Rendering, Terminal, Alone, Moves, SaveEffect, LeaveEffect,
       BillEffect, Pass, Worker, ModelsRecorded, Pollable
  <2>7. Alone(p)
    BY <1>10, EnterDoes DEF Moves, LeaveEffect
  <2> QED BY <2>3, <2>4, <2>5, <2>6, <2>7, PlacesMove DEF TypedInv, Worker
<1>11. ASSUME NEW p \in Pass, NotServing(p) PROVE TypedInv'
  <2>1. PlaceOf(p) /\ ModelOf(p) /\ copy[p] \in Record /\ ModelsRecorded
    BY DEF TypedInv, Typed
  <2>2. Typed'
    BY <1>11, NotServingDoes DEF NotServing, LeaveEffect, TypedInv, Typed, Goto,
       Phase, jobVars, worldVars, workVars, budgetVars, historyVars
  <2>3. ModelsRecorded'
    BY <1>11, <2>1, NotServingDoes DEF ModelsRecorded
  <2>4. PlaceOf(p)'
    BY <1>11, <2>1, NotServingDoes DEF PlaceOf, ModelOf, Holds, BeforeJob, AfterJob,
       Rendering, Terminal, Alone, Moves, SaveEffect, LeaveEffect, BillEffect, Pass,
       Worker
  <2>5. ModelOf(p)'
    BY <1>11, <2>1, NotServingDoes, Blanks DEF PlaceOf, ModelOf, Holds, BeforeJob,
       AfterJob, Rendering, Terminal, Alone, Moves, SaveEffect, LeaveEffect,
       BillEffect, Pass, Worker
  <2>6. Alone(p)
    BY <1>11, NotServingDoes DEF Moves, LeaveEffect
  <2> QED BY <2>2, <2>3, <2>4, <2>5, <2>6, PlacesMove DEF TypedInv, Worker
<1>12. ASSUME NEW p \in Pass, Progress(p), ~LostEffect(p) PROVE TypedInv'
  <2>1. DueNow(copy[p], FALSE).status = "running" => DueNow(copy[p], FALSE).model \in Model
    <3>1. copy[p] \in Record /\ copy[p].model \in Model
      BY <1>12, ProgressDoes DEF TypedInv, Typed, ModelOf, AfterJob, Rendering, Pass,
         Worker
    <3> QED BY <3>1, DueNowJob
  <2>2. PlaceOf(p) /\ ModelOf(p) /\ copy[p] \in Record /\ ModelsRecorded
    BY DEF TypedInv, Typed
  <2>3. Typed'
    <3>1. /\ LeaveEffect(p) /\ SaveEffect(p, DueNow(copy[p], FALSE))
          /\ UNCHANGED <<blurred, bought, landed, troubles>>
      BY <1>12, ProgressDoes
    <3>2. UNCHANGED <<clip, worldVars, todo, budgetVars, purge>>
      BY <1>12 DEF Progress
    <3> QED BY <3>1, <3>2 DEF SaveEffect, LeaveEffect, TypedInv, Typed, worldVars, budgetVars
  <2>4. ModelsRecorded'
    BY <1>12, <2>2, <2>1, ProgressDoes, SavedModels
  <2>5. PlaceOf(p)'
    BY <1>12, <2>2, <2>1, ProgressDoes, Blanks DEF PlaceOf, ModelOf, Holds,
       BeforeJob, AfterJob, Rendering, Terminal, Alone, Moves, SaveEffect,
       LeaveEffect, BillEffect, Pass, Worker
  <2>6. ModelOf(p)'
    BY <1>12, <2>2, <2>1, ProgressDoes, Blanks DEF PlaceOf, ModelOf, Holds,
       BeforeJob, AfterJob, Rendering, Terminal, Alone, Moves, SaveEffect,
       LeaveEffect, BillEffect, Pass, Worker
  <2>7. Alone(p)
    BY <1>12, ProgressDoes DEF Moves, LeaveEffect
  <2> QED BY <2>3, <2>4, <2>5, <2>6, <2>7, PlacesMove DEF TypedInv, Worker
<1>13. ASSUME NEW p \in Pass, TimedOut(p) PROVE TypedInv'
  <2>1. copy[p] \in Record /\ copy[p].model \in Model
    BY <1>13, TimedOutDoes DEF TypedInv, Typed, ModelOf, AfterJob, Rendering, Moves,
       Pass, Worker
  <2>2. /\ Banked(copy[p], copy[p].model) \in Record
        /\ Banked(copy[p], copy[p].model).status = copy[p].status
        /\ Banked(copy[p], copy[p].model).model = copy[p].model
    BY <2>1, BankedJob
  <2>3. PlaceOf(p) /\ ModelOf(p) /\ copy[p] \in Record /\ ModelsRecorded
    BY DEF TypedInv, Typed
  <2>4. Typed'
    BY <1>13, <2>1, <2>2 DEF TimedOut, WriteOff, TypedInv, Typed, Goto, Phase,
       jobVars, worldVars, workVars, budgetVars, historyVars
  <2>5. ModelsRecorded'
    BY <1>13, <2>3, <2>1, <2>2, TimedOutDoes DEF ModelsRecorded
  <2>6. PlaceOf(p)'
    BY <1>13, <2>3, <2>1, <2>2, TimedOutDoes DEF PlaceOf, ModelOf, Holds, BeforeJob,
       AfterJob, Rendering, Terminal, Alone, Moves, SaveEffect, LeaveEffect,
       BillEffect, Pass, Worker
  <2>7. ModelOf(p)'
    BY <1>13, <2>3, <2>1, <2>2, TimedOutDoes DEF PlaceOf, ModelOf, Holds, BeforeJob,
       AfterJob, Rendering, Terminal, Alone, Moves, SaveEffect, LeaveEffect,
       BillEffect, Pass, Worker
  <2>8. Alone(p)
    BY <1>13, TimedOutDoes DEF Moves, LeaveEffect
  <2> QED BY <2>4, <2>5, <2>6, <2>7, <2>8, PlacesMove DEF TypedInv, Worker
<1>14. ASSUME NEW p \in Pass, PollFailed(p) PROVE TypedInv'
  <2>1. copy[p] \in Record /\ copy[p].model \in Model
    BY <1>14, PollFailedDoes DEF TypedInv, Typed, ModelOf, AfterJob, Rendering,
       Moves, Pass, Worker
  <2>2. PlaceOf(p) /\ ModelOf(p) /\ copy[p] \in Record /\ ModelsRecorded
    BY DEF TypedInv, Typed
  <2>3. Typed'
    <3>1. Typed /\ p \in Worker
      BY DEF TypedInv, Worker
    <3>2. UNCHANGED <<aged, serving, gone, todo, submits, troubles>>
      BY <1>14 DEF PollFailed, budgetVars
    <3>3. pc' \in [Worker -> Phase]
      BY <1>14, <3>1 DEF PollFailed, BillFailure, Goto, Typed, Phase
    <3>4. copy' \in [Worker -> Record] /\ view' \in [Pass -> Nat] /\ down' \subseteq Model
      BY <1>14, PollFailedDoes DEF BillEffect
    <3>5. UNCHANGED <<rec, clip, at, cand, billed, purge, bought, landed, reported, stale,
                      torn, blurred>>
      BY <1>14, PollFailedDoes
    <3> QED BY <3>1, <3>2, <3>3, <3>4, <3>5 DEF Typed
  <2>4. ModelsRecorded'
    BY <1>14, <2>2, <2>1, PollFailedDoes DEF ModelsRecorded
  <2>5. PlaceOf(p)'
    BY <1>14, <2>2, <2>1, PollFailedDoes DEF PlaceOf, ModelOf, Holds, BeforeJob,
       AfterJob, Rendering, Terminal, Alone, Moves, SaveEffect, LeaveEffect,
       BillEffect, Pass, Worker
  <2>6. ModelOf(p)'
    BY <1>14, <2>2, <2>1, PollFailedDoes DEF PlaceOf, ModelOf, Holds, BeforeJob,
       AfterJob, Rendering, Terminal, Alone, Moves, SaveEffect, LeaveEffect,
       BillEffect, Pass, Worker
  <2>7. Alone(p)
    BY <1>14, PollFailedDoes DEF Moves, LeaveEffect
  <2> QED BY <2>3, <2>4, <2>5, <2>6, <2>7, PlacesMove DEF TypedInv, Worker
<1>15. ASSUME NEW p \in Pass, PollSucceeded(p) PROVE TypedInv'
  <2>1. PlaceOf(p) /\ ModelOf(p) /\ copy[p] \in Record /\ ModelsRecorded
    BY DEF TypedInv, Typed
  <2>2. Typed'
    BY <1>15 DEF PollSucceeded, TypedInv, Typed, Goto, Phase, jobVars, worldVars,
       workVars, budgetVars, historyVars
  <2>3. ModelsRecorded'
    BY <1>15, <2>1, PollSucceededDoes DEF ModelsRecorded
  <2>4. PlaceOf(p)'
    BY <1>15, <2>1, PollSucceededDoes DEF PlaceOf, ModelOf, Holds, BeforeJob,
       AfterJob, Rendering, Terminal, Alone, Moves, SaveEffect, LeaveEffect,
       BillEffect, Pass, Worker
  <2>5. ModelOf(p)'
    BY <1>15, <2>1, PollSucceededDoes DEF PlaceOf, ModelOf, Holds, BeforeJob,
       AfterJob, Rendering, Terminal, Alone, Moves, SaveEffect, LeaveEffect,
       BillEffect, Pass, Worker
  <2>6. Alone(p)
    BY <1>15, PollSucceededDoes DEF Moves, LeaveEffect
  <2> QED BY <2>2, <2>3, <2>4, <2>5, <2>6, PlacesMove DEF TypedInv, Worker
<1>16. ASSUME NEW p \in Pass, DrawFails(p), ~LostEffect(p) PROVE TypedInv'
  <2>1. copy[p] \in Record /\ copy[p].model \in Model
    BY <1>16, DrawFailsDoes DEF TypedInv, Typed, ModelOf, AfterJob, Rendering, Moves,
       Pass, Worker
  <2>2. /\ Banked(copy[p], copy[p].model) \in Record /\ Terminal(Banked(copy[p], copy[p].model))
        /\ Banked(copy[p], copy[p].model).model = copy[p].model
    <3>1. Terminal(copy[p])
      BY <1>16 DEF DrawFails, TypedInv, ModelOf, Pass, Worker
    <3> QED BY <2>1, <3>1, BankedJob DEF Terminal
  <2>3. /\ DueNow(copy[p], FALSE).status # "running"
        /\ at[p] \in Call
    BY <1>16, <2>1, DueNowJob, DrawFailsDoes DEF TypedInv, ModelOf, PlaceOf, Holds,
       Terminal, Pass, Worker
  <2>4. down' \subseteq Model /\ troubles' \in 0 .. MaxTroubles
    <3>1. down' \subseteq Model
      BY <1>16, <2>1 DEF DrawFails, WriteOff, TypedInv, Typed
    <3>2. troubles \in 0 .. MaxTroubles /\ MaxTroubles \in Nat
      BY DEF TypedInv, Typed
    <3>3. troubles' = troubles \/ (troubles < MaxTroubles /\ troubles' = troubles + 1)
      BY <1>16 DEF DrawFails, Trouble
    <3>4. troubles' \in 0 .. MaxTroubles
      BY <3>2, <3>3
    <3> QED BY <3>1, <3>4
  <2>5. PlaceOf(p) /\ ModelOf(p) /\ copy[p] \in Record /\ ModelsRecorded
    BY DEF TypedInv, Typed
  <2>6. Typed'
    <3>1. CASE LeaveEffect(p) /\ SaveEffect(p, DueNow(copy[p], FALSE))
      <4>1. /\ rec' \in [Call -> Record] /\ reported' \in [Call -> Nat]
            /\ torn' \subseteq Call /\ stale' \subseteq Worker
        BY <3>1 DEF SaveEffect
      <4>2. UNCHANGED <<clip, aged, serving, gone, todo, submits, billed, purge, bought, landed>>
        BY <1>16 DEF DrawFails, budgetVars
      <4>3. Typed
        BY DEF TypedInv
      <4>4. blurred' \subseteq Call
        BY <1>16, <2>3 DEF DrawFails, TypedInv, Typed
      <4> QED BY <2>4, <3>1, <4>1, <4>2, <4>3, <4>4 DEF LeaveEffect, Typed
    <3>2. CASE WriteOff(p, "refail") /\ UNCHANGED <<rec, at, cand, view, reported, stale, torn>>
      BY <1>16, <2>2, <2>3, <2>4, <3>2 DEF DrawFails, WriteOff, TypedInv, Typed,
         Goto, Phase, jobVars, worldVars, workVars, budgetVars, historyVars
    <3>3. CASE LeaveEffect(p) /\ UNCHANGED <<rec, reported, stale, torn>>
      BY <1>16, <2>3, <2>4, <3>3 DEF DrawFails, LeaveEffect, TypedInv, Typed,
         budgetVars
    <3> QED BY <1>16, <3>1, <3>2, <3>3, DrawFailsDoes, LeaveDoes DEF DrawFails, Worker
  <2>7. ModelsRecorded'
    BY <1>16, <2>5, <2>3, DrawFailsDoes, SavedModels DEF ModelsRecorded
  <2>8. PlaceOf(p)'
    BY <1>16, <2>5, <2>1, <2>2, <2>3, <2>4, DrawFailsDoes DEF PlaceOf, ModelOf,
       Holds, BeforeJob, AfterJob, Rendering, Terminal, Alone, Moves, SaveEffect,
       LeaveEffect, BillEffect, Pass, Worker
  <2>9. ModelOf(p)'
    <3>1. CASE LeaveEffect(p)
      BY <3>1, Blanks DEF ModelOf, LeaveEffect, Pass, Worker, AfterJob, Rendering
    <3>2. CASE Moves(p, "draw", "refail", Banked(copy[p], copy[p].model))
      BY <2>1, <2>2, <3>2 DEF ModelOf, Moves, AfterJob, Rendering
    <3> QED BY <1>16, <3>1, <3>2, DrawFailsDoes
  <2>10. Alone(p)
    BY <1>16, DrawFailsDoes DEF Moves, LeaveEffect
  <2> QED BY <2>6, <2>7, <2>8, <2>9, <2>10, PlacesMove DEF TypedInv, Worker
<1>17. ASSUME NEW w \in Call \cup Pass, Again(w) PROVE TypedInv'
  <2>1. PlaceOf(w) /\ ModelOf(w) /\ copy[w] \in Record /\ ModelsRecorded
    BY DEF TypedInv, Typed
  <2>2. Typed'
    <3>0. Candidate(copy[w].tried \cup {copy[w].model}) # None
            => Candidate(copy[w].tried \cup {copy[w].model}) \in Model
      BY CandidateIsNew DEF TypedInv
    <3>1. submits' \in [Sweep \cup {"session"} -> 0 .. MaxSubmits]
      BY <1>17 DEF Again, Submit, Claim, MayClaim, Purse, TypedInv, Typed, budgetVars
    <3>2. cand' \in [Worker -> Model \cup {None}]
      <4>1. cand' = cand \/ \E m \in Model : cand' = [cand EXCEPT ![w] = m]
        BY <1>17, <3>0 DEF Again, Submit
      <4>2. cand \in [Worker -> Model \cup {None}]
        BY DEF TypedInv, Typed
      <4> QED BY <4>1, <4>2
    <3>3. pc' \in [Worker -> Phase]
      BY <1>17 DEF Again, Submit, Goto, TypedInv, Typed, Phase
    <3>4. billed' \in Int
      BY <1>17 DEF Again, Submit, Claim, TypedInv, Typed, budgetVars
    <3>5. view' \in [Pass -> Nat]
      BY <1>17 DEF Again, Submit, Claim, TypedInv, Typed, budgetVars
    <3> QED BY <1>17, <3>1, <3>2, <3>3, <3>4, <3>5 DEF Again, TypedInv, Typed,
       jobVars, worldVars, historyVars
  <2>3. ModelsRecorded'
    BY <1>17, <2>1, AgainDoes DEF ModelsRecorded
  <2>4. PlaceOf(w)'
    BY <1>17, <2>1, AgainDoes DEF PlaceOf, ModelOf, Holds, BeforeJob, AfterJob,
       Rendering, Terminal, Alone, Moves, SaveEffect, LeaveEffect, BillEffect, Pass,
       Worker
  <2>5. ModelOf(w)'
    BY <1>17, <2>1, AgainDoes DEF PlaceOf, ModelOf, Holds, BeforeJob, AfterJob,
       Rendering, Terminal, Alone, Moves, SaveEffect, LeaveEffect, BillEffect, Pass,
       Worker
  <2>6. Alone(w)
    BY <1>17, AgainDoes DEF Moves, LeaveEffect
  <2> QED BY <2>2, <2>3, <2>4, <2>5, <2>6, PlacesMove DEF TypedInv, Worker
<1>18. ASSUME NEW w \in Call \cup Pass, Refused(w, "resent", "failing") PROVE TypedInv'
  <2>1. cand[w] \in Model /\ copy[w] \in Record
    BY <1>18, AgainRefusedDoes DEF TypedInv, Typed, ModelOf, Moves, Pass, Worker
  <2>2. /\ Tried(copy[w], cand[w]) \in Record
        /\ Tried(copy[w], cand[w]).model = copy[w].model
    BY <2>1, TriedJob
  <2>3. PlaceOf(w) /\ ModelOf(w) /\ copy[w] \in Record /\ ModelsRecorded
    BY DEF TypedInv, Typed
  <2>4. Typed'
    <3>1. pc' \in [Worker -> Phase]
      BY <1>18, <2>3 DEF Refused, Goto, TypedInv, Typed, Phase
    <3>2. copy' \in [Worker -> Record]
      BY <1>18, <2>3, <2>2 DEF Refused, TypedInv, Typed, Phase
    <3>3. cand' \in [Worker -> Model \cup {None}]
      BY <1>18, <2>3 DEF Refused, TypedInv, Typed, Phase
    <3>4. view' \in [Pass -> Nat]
      BY <1>18, <2>3 DEF Refused, Free, ModelOf, TypedInv, Typed, Phase
    <3>5. billed' \in Int
      BY <1>18, <2>3 DEF Refused, Free, TypedInv, Typed, Phase
    <3>6. UNCHANGED <<rec, clip, down, aged, serving, gone, at, todo, submits, purge, troubles,
                      bought, landed, reported, stale, torn, blurred>>
      BY <1>18 DEF Refused, jobVars, worldVars, workVars, budgetVars, historyVars
    <3> QED BY <3>1, <3>2, <3>3, <3>4, <3>5, <3>6 DEF TypedInv, Typed
  <2>5. ModelsRecorded'
    BY <1>18, <2>3, <2>1, <2>2, AgainRefusedDoes DEF ModelsRecorded
  <2>6. PlaceOf(w)'
    BY <1>18, <2>3, <2>1, <2>2, AgainRefusedDoes DEF PlaceOf, ModelOf, Holds,
       BeforeJob, AfterJob, Rendering, Terminal, Alone, Moves, SaveEffect,
       LeaveEffect, BillEffect, Pass, Worker
  <2>7. ModelOf(w)'
    BY <1>18, <2>3, <2>1, <2>2, AgainRefusedDoes DEF PlaceOf, ModelOf, Holds,
       BeforeJob, AfterJob, Rendering, Terminal, Alone, Moves, SaveEffect,
       LeaveEffect, BillEffect, Pass, Worker
  <2>8. Alone(w)
    BY <1>18, AgainRefusedDoes DEF Moves, LeaveEffect
  <2> QED BY <2>4, <2>5, <2>6, <2>7, <2>8, PlacesMove DEF TypedInv, Worker
<1>19. ASSUME NEW w \in Call \cup Pass, Empty(w, "resent", "failing") PROVE TypedInv'
  <2>1. cand[w] \in Model /\ copy[w] \in Record
    BY <1>19, AgainEmptyDoes DEF TypedInv, Typed, ModelOf, Moves, Pass, Worker
  <2>2. /\ Banked(copy[w], cand[w]) \in Record
        /\ Banked(copy[w], cand[w]).model = copy[w].model
    BY <2>1, BankedJob
  <2>3. PlaceOf(w) /\ ModelOf(w) /\ copy[w] \in Record /\ ModelsRecorded
    BY DEF TypedInv, Typed
  <2>4. Typed'
    <3>0. at[w] \in Call
      BY <2>3, <1>19 DEF Empty, PlaceOf, Holds
    <3>1. pc' \in [Worker -> Phase]
      BY <1>19, <2>3 DEF Empty, Goto, TypedInv, Typed, Phase
    <3>2. copy' \in [Worker -> Record]
      BY <1>19, <2>3, <2>2 DEF Empty, TypedInv, Typed, Phase
    <3>3. cand' \in [Worker -> Model \cup {None}]
      BY <1>19, <2>3 DEF Empty, TypedInv, Typed, Phase
    <3>4. bought' \in [Call -> Seq(Model)]
      BY <1>19, <2>3, <2>1, <3>0 DEF Empty, Paid, TypedInv, Typed, Phase
    <3>5. down' \subseteq Model
      BY <1>19, <2>3, <2>1 DEF Empty, TypedInv, Typed, Phase
    <3>6. UNCHANGED <<rec, clip, aged, serving, gone, at, view, todo, submits, billed, purge,
                      troubles, landed, reported, stale, torn, blurred>>
      BY <1>19 DEF Empty, jobVars, worldVars, workVars, budgetVars, historyVars
    <3> QED BY <3>1, <3>2, <3>3, <3>4, <3>5, <3>6 DEF TypedInv, Typed
  <2>5. ModelsRecorded'
    BY <1>19, <2>3, <2>1, <2>2, AgainEmptyDoes DEF ModelsRecorded
  <2>6. PlaceOf(w)'
    BY <1>19, <2>3, <2>1, <2>2, AgainEmptyDoes DEF PlaceOf, ModelOf, Holds,
       BeforeJob, AfterJob, Rendering, Terminal, Alone, Moves, SaveEffect,
       LeaveEffect, BillEffect, Pass, Worker
  <2>7. ModelOf(w)'
    BY <1>19, <2>3, <2>1, <2>2, AgainEmptyDoes DEF PlaceOf, ModelOf, Holds,
       BeforeJob, AfterJob, Rendering, Terminal, Alone, Moves, SaveEffect,
       LeaveEffect, BillEffect, Pass, Worker
  <2>8. Alone(w)
    BY <1>19, AgainEmptyDoes DEF Moves, LeaveEffect
  <2> QED BY <2>4, <2>5, <2>6, <2>7, <2>8, PlacesMove DEF TypedInv, Worker
<1>20. ASSUME NEW w \in Call \cup Pass, Accepted(w, "resent", copy[w], IF cand[w]
             \in Inline THEN "restore" ELSE "keep")
      PROVE  TypedInv'
  <2>1. copy[w] \in Record /\ cand[w] \in Model
    BY <1>20, CarriedJob DEF Accepted, TypedInv, Typed, ModelOf, Pass, Worker
  <2>2. Taken(copy[w], cand[w]) \in Record /\ Taken(copy[w], cand[w]).model = cand[w]
    BY <2>1, TakenJob
  <2>3. PlaceOf(w) /\ ModelOf(w) /\ copy[w] \in Record /\ ModelsRecorded
    BY DEF TypedInv, Typed
  <2>4. Typed'
    <3>0. at[w] \in Call
      BY <2>3, <1>20 DEF Accepted, PlaceOf, Holds
    <3>1. pc' \in [Worker -> Phase]
      BY <1>20, <2>3 DEF Accepted, Goto, TypedInv, Typed, Phase
    <3>2. copy' \in [Worker -> Record]
      BY <1>20, <2>3, <2>2 DEF Accepted, TypedInv, Typed, Phase
    <3>3. cand' \in [Worker -> Model \cup {None}]
      BY <1>20, <2>3 DEF Accepted, TypedInv, Typed, Phase
    <3>4. bought' \in [Call -> Seq(Model)]
      BY <1>20, <2>3, <2>1, <3>0 DEF Accepted, Paid, TypedInv, Typed, Phase
    <3>5. UNCHANGED <<rec, clip, down, aged, serving, gone, at, view, todo, submits, billed,
                      purge, troubles, landed, reported, stale, torn, blurred>>
      BY <1>20 DEF Accepted, jobVars, worldVars, workVars, budgetVars, historyVars
    <3> QED BY <3>1, <3>2, <3>3, <3>4, <3>5 DEF TypedInv, Typed
  <2>5. ModelsRecorded'
    BY <1>20, <2>3, <2>1, <2>2, AgainAcceptedDoes DEF ModelsRecorded
  <2>6. PlaceOf(w)'
    BY <1>20, <2>3, <2>1, <2>2, AgainAcceptedDoes DEF PlaceOf, ModelOf, Holds,
       BeforeJob, AfterJob, Rendering, Terminal, Alone, Moves, SaveEffect,
       LeaveEffect, BillEffect, Pass, Worker
  <2>7. ModelOf(w)'
    BY <1>20, <2>3, <2>1, <2>2, AgainAcceptedDoes DEF PlaceOf, ModelOf, Holds,
       BeforeJob, AfterJob, Rendering, Terminal, Alone, Moves, SaveEffect,
       LeaveEffect, BillEffect, Pass, Worker
  <2>8. Alone(w)
    BY <1>20, AgainAcceptedDoes DEF Moves, LeaveEffect
  <2> QED BY <2>4, <2>5, <2>6, <2>7, <2>8, PlacesMove DEF TypedInv, Worker
<1>21. ASSUME NEW w \in Call \cup Pass, Resume(w), ~LostEffect(w) PROVE TypedInv'
  <2>1. copy[w].status = "running" => copy[w].model \in Model
    <3>1. copy[w] \in Record /\ copy[w].model \in Model
      BY <1>21, ResumeDoes DEF TypedInv, Typed, ModelOf, AfterJob, Rendering, Pass,
         Worker
    <3> QED BY <3>1
  <2>2. PlaceOf(w) /\ ModelOf(w) /\ copy[w] \in Record /\ ModelsRecorded
    BY DEF TypedInv, Typed
  <2>3. Typed'
    <3>1. /\ LeaveEffect(w) /\ SaveEffect(w, copy[w])
          /\ UNCHANGED <<blurred, bought, landed, troubles>>
      BY <1>21, ResumeDoes
    <3>2. UNCHANGED <<clip, worldVars, todo, budgetVars, purge>>
      BY <1>21 DEF Resume
    <3> QED BY <3>1, <3>2 DEF SaveEffect, LeaveEffect, TypedInv, Typed, worldVars, budgetVars
  <2>4. ModelsRecorded'
    BY <1>21, <2>2, <2>1, ResumeDoes, SavedModels
  <2>5. PlaceOf(w)'
    BY <1>21, <2>2, <2>1, ResumeDoes, Blanks DEF PlaceOf, ModelOf, Holds, BeforeJob,
       AfterJob, Rendering, Terminal, Alone, Moves, SaveEffect, LeaveEffect,
       BillEffect, Pass, Worker
  <2>6. ModelOf(w)'
    BY <1>21, <2>2, <2>1, ResumeDoes, Blanks DEF PlaceOf, ModelOf, Holds, BeforeJob,
       AfterJob, Rendering, Terminal, Alone, Moves, SaveEffect, LeaveEffect,
       BillEffect, Pass, Worker
  <2>7. Alone(w)
    BY <1>21, ResumeDoes DEF Moves, LeaveEffect
  <2> QED BY <2>3, <2>4, <2>5, <2>6, <2>7, PlacesMove DEF TypedInv, Worker
<1>22. ASSUME NEW w \in Call \cup Pass, FileGood(w) PROVE TypedInv'
  <2>1. Ended(copy[w], "succeeded") \in Record /\ at[w] \in Call
        /\ Ended(copy[w], "succeeded").status = "succeeded"
        /\ Ended(copy[w], "succeeded").model = copy[w].model
    BY <1>22, EndedJob, FileGoodDoes DEF TypedInv, Typed, PlaceOf, Holds, Pass,
       Worker
  <2>2. PlaceOf(w) /\ ModelOf(w) /\ copy[w] \in Record /\ ModelsRecorded
    BY DEF TypedInv, Typed
  <2>3. Typed'
    BY <1>22, <2>1 DEF FileGood, TypedInv, Typed, Goto, Phase, jobVars, worldVars,
       workVars, budgetVars, historyVars
  <2>4. ModelsRecorded'
    BY <1>22, <2>2, <2>1, FileGoodDoes DEF ModelsRecorded
  <2>5. PlaceOf(w)'
    BY <1>22, <2>2, <2>1, FileGoodDoes DEF PlaceOf, ModelOf, Holds, BeforeJob,
       AfterJob, Rendering, Terminal, Alone, Moves, SaveEffect, LeaveEffect,
       BillEffect, Pass, Worker
  <2>6. ModelOf(w)'
    BY <1>22, <2>2, <2>1, FileGoodDoes DEF PlaceOf, ModelOf, Holds, BeforeJob,
       AfterJob, Rendering, Terminal, Alone, Moves, SaveEffect, LeaveEffect,
       BillEffect, Pass, Worker
  <2>7. Alone(w)
    BY <1>22, FileGoodDoes DEF Moves, LeaveEffect
  <2> QED BY <2>3, <2>4, <2>5, <2>6, <2>7, PlacesMove DEF TypedInv, Worker
<1>23. ASSUME NEW w \in Call \cup Pass, FileBad(w) PROVE TypedInv'
  <2>1. copy[w] \in Record /\ copy[w].model \in Model
    BY <1>23, FileBadDoes DEF TypedInv, Typed, ModelOf, AfterJob, Rendering, Moves,
       Pass, Worker
  <2>2. /\ Banked(copy[w], copy[w].model) \in Record
        /\ Banked(copy[w], copy[w].model).status = copy[w].status
        /\ Banked(copy[w], copy[w].model).model = copy[w].model
    BY <2>1, BankedJob
  <2>3. PlaceOf(w) /\ ModelOf(w) /\ copy[w] \in Record /\ ModelsRecorded
    BY DEF TypedInv, Typed
  <2>4. Typed'
    <3>1. CASE pc[w] = "store" /\ BillFailure(w)
      <4>1. BillEffect(w)
        BY <2>1, <3>1, BillDoes
      <4> QED BY <1>23, <3>1, <4>1 DEF FileBad, BillFailure, BillEffect, TypedInv,
         Typed, Goto, Phase, jobVars, worldVars, workVars, budgetVars, historyVars
    <3>2. CASE pc[w] = "restore" /\ WriteOff(w, "failing") /\ UNCHANGED view
      BY <1>23, <2>1, <2>2, <3>2 DEF FileBad, WriteOff, TypedInv, Typed, Goto, Phase,
         jobVars, worldVars, workVars, budgetVars, historyVars
    <3> QED BY <1>23, <3>1, <3>2 DEF FileBad
  <2>5. ModelsRecorded'
    BY <1>23, <2>3, <2>1, <2>2, FileBadDoes DEF ModelsRecorded
  <2>6. PlaceOf(w)'
    BY <1>23, <2>3, <2>1, <2>2, FileBadDoes DEF PlaceOf, ModelOf, Holds, BeforeJob,
       AfterJob, Rendering, Terminal, Alone, Moves, SaveEffect, LeaveEffect,
       BillEffect, Pass, Worker
  <2>7. ModelOf(w)'
    BY <1>23, <2>3, <2>1, <2>2, FileBadDoes DEF PlaceOf, ModelOf, Holds, BeforeJob,
       AfterJob, Rendering, Terminal, Alone, Moves, SaveEffect, LeaveEffect,
       BillEffect, Pass, Worker
  <2>8. Alone(w)
    BY <1>23, FileBadDoes DEF Moves, LeaveEffect
  <2> QED BY <2>4, <2>5, <2>6, <2>7, <2>8, PlacesMove DEF TypedInv, Worker
<1>24. ASSUME NEW w \in Call \cup Pass, Settle(w), ~LostEffect(w) PROVE TypedInv'
  <2>1. copy[w] \in Record /\ copy[w].model \in Model
    BY <1>24, SettleDoes DEF TypedInv, Typed, ModelOf, AfterJob, Rendering, Pass,
       Worker
  <2>2. Settled(w) \in Record /\ Terminal(Settled(w)) /\ Settled(w).model \in Model
    BY <1>24, <2>1, SettleDoes, EndedJob DEF Settled, TypedInv, ModelOf, Terminal,
       Pass, Worker
  <2>3. /\ Marked(Settled(w), TRUE) \in Record
        /\ Terminal(Marked(Settled(w), TRUE)) /\ Marked(Settled(w), TRUE).model \in Model
    BY <2>2, MarkedJob DEF Terminal
  <2>4. copy' = [copy EXCEPT ![w] = Marked(Settled(w), TRUE)]
    BY <1>24 DEF Settle, Settled
  <2>5. PlaceOf(w) /\ ModelOf(w) /\ copy[w] \in Record /\ ModelsRecorded
    BY DEF TypedInv, Typed
  <2>6. Typed'
    <3> HIDE DEF Settled
    <3>1. /\ copy' \in [Worker -> Record]
      BY <2>3, <2>4 DEF TypedInv, Typed, Pass, Worker
    <3>2. pc' \in [Worker -> Phase]
      BY <1>24 DEF Settle, Goto, TypedInv, Typed, Phase
    <3>3. UNCHANGED <<clip, worldVars, at, cand, view, todo, budgetVars, purge, bought,
                      landed, blurred, troubles>>
      BY <1>24, SettleDoes DEF Settle
    <3>4. /\ rec' \in [Call -> Record] /\ reported' \in [Call -> Nat]
          /\ torn' \subseteq Call /\ stale' \subseteq Worker
      BY <1>24, SettleDoes DEF SaveEffect
    <3> QED BY <3>1, <3>2, <3>3, <3>4 DEF TypedInv, Typed, worldVars, budgetVars
  <2>7. ModelsRecorded'
    BY <1>24, <2>5, <2>2, SettleDoes, SavedModels
  <2>8. PlaceOf(w)'
    BY <1>24, <2>5, <2>1, <2>2, <2>3, <2>4, SettleDoes DEF PlaceOf, ModelOf, Holds,
       BeforeJob, AfterJob, Rendering, Terminal, Alone, Moves, SaveEffect,
       LeaveEffect, BillEffect, Pass, Worker
  <2>9. ModelOf(w)'
    <3>1. pc'[w] \in {"draw", "redraw"} /\ copy'[w] = Marked(Settled(w), TRUE)
      BY <1>24, SettleDoes DEF Moves
    <3> QED BY <2>3, <3>1 DEF ModelOf
  <2>10. Alone(w)
    BY <1>24, SettleDoes DEF Moves, LeaveEffect
  <2> QED BY <2>6, <2>7, <2>8, <2>9, <2>10, PlacesMove DEF TypedInv, Worker
<1>25. ASSUME NEW w \in Call \cup Pass, Draw(w) PROVE TypedInv'
  <2>1. at[w] \in Call /\ copy[w] \in Record /\ Shown(copy[w]) \in {"ready", "failed"}
    <3>1. /\ pc[w] \in {"draw", "redraw"} /\ copy[w] \in Record
          /\ PlaceOf(w) /\ ModelOf(w)
      BY <1>25, DrawDoes DEF TypedInv, Typed, Pass, Worker
    <3>2. at[w] \in Call
      BY <3>1 DEF PlaceOf, Holds
    <3>3. Terminal(copy[w])
      BY <3>1 DEF ModelOf
    <3>4. Shown(copy[w]) \in {"ready", "failed"}
      BY <3>3 DEF Terminal, Shown
    <3> QED BY <3>1, <3>2, <3>4
  <2>2. PlaceOf(w) /\ ModelOf(w) /\ copy[w] \in Record /\ ModelsRecorded
    BY DEF TypedInv, Typed
  <2>3. Typed'
    BY <1>25, <2>1, DrawDoes DEF Draw, LeaveEffect, TypedInv, Typed, Goto, Phase,
       jobVars, worldVars, workVars, budgetVars, historyVars
  <2>4. ModelsRecorded'
    BY <1>25, <2>2, <2>1, DrawDoes DEF ModelsRecorded
  <2>5. PlaceOf(w)'
    BY <1>25, <2>2, <2>1, DrawDoes DEF PlaceOf, ModelOf, Holds, BeforeJob, AfterJob,
       Rendering, Terminal, Alone, Moves, SaveEffect, LeaveEffect, BillEffect, Pass,
       Worker
  <2>6. ModelOf(w)'
    BY <1>25, <2>2, <2>1, DrawDoes, Blanks DEF PlaceOf, ModelOf, Holds, BeforeJob,
       AfterJob, Rendering, Terminal, Alone, Moves, SaveEffect, LeaveEffect,
       BillEffect, Pass, Worker
  <2>7. Alone(w)
    BY <1>25, DrawDoes DEF Moves, LeaveEffect
  <2> QED BY <2>3, <2>4, <2>5, <2>6, <2>7, PlacesMove DEF TypedInv, Worker
<1>26. ASSUME NEW q \in Place, NEW j \in Call, PlaceRead(q, j) PROVE TypedInv'
  <2>1. PlaceOf(q) /\ ModelOf(q) /\ copy[q] \in Record /\ ModelsRecorded
    BY DEF TypedInv, Typed
  <2>2. Typed'
    BY <1>26 DEF PlaceRead, TypedInv, Typed, Goto, Phase, jobVars, worldVars,
       workVars, budgetVars, historyVars
  <2>3. ModelsRecorded'
    BY <1>26, <2>1, PlaceReadDoes DEF ModelsRecorded
  <2>4. PlaceOf(q)'
    BY <1>26, <2>1, PlaceReadDoes DEF PlaceOf, ModelOf, Holds, BeforeJob, AfterJob,
       Rendering, Terminal, Alone, Moves, SaveEffect, LeaveEffect, BillEffect, Pass,
       Worker
  <2>5. ModelOf(q)'
    BY <1>26, <2>1, PlaceReadDoes DEF PlaceOf, ModelOf, Holds, BeforeJob, AfterJob,
       Rendering, Terminal, Alone, Moves, SaveEffect, LeaveEffect, BillEffect, Pass,
       Worker, ModelsRecorded, Known, Typed
  <2>6. Alone(q)
    BY <1>26, PlaceReadDoes DEF Moves, LeaveEffect
  <2> QED BY <2>2, <2>3, <2>4, <2>5, <2>6, PlacesMove DEF TypedInv, Worker
<1>27. ASSUME NEW q \in Place, PlaceDraw(q) PROVE TypedInv'
  <2>1. at[q] \in Call /\ copy[q] \in Record /\ copy[q].status # "absent"
    BY <1>27, PlaceDrawDoes DEF TypedInv, Typed, PlaceOf, ModelOf, Moves, Holds,
       Worker
  <2>2. Shown(copy[q]) \in {"running", "ready", "failed", "deleted"}
    BY <2>1, Fields DEF Shown
  <2>3. PlaceOf(q) /\ ModelOf(q) /\ copy[q] \in Record /\ ModelsRecorded
    BY DEF TypedInv, Typed
  <2>4. Typed'
    BY <1>27, <2>1, <2>2 DEF PlaceDraw, TypedInv, Typed, Goto, Phase, jobVars,
       worldVars, workVars, budgetVars, historyVars
  <2>5. ModelsRecorded'
    BY <1>27, <2>3, <2>1, <2>2, PlaceDrawDoes DEF ModelsRecorded
  <2>6. PlaceOf(q)'
    BY <1>27, <2>3, <2>1, <2>2, PlaceDrawDoes DEF PlaceOf, ModelOf, Holds, BeforeJob,
       AfterJob, Rendering, Terminal, Alone, Moves, SaveEffect, LeaveEffect,
       BillEffect, Pass, Worker
  <2>7. ModelOf(q)'
    BY <1>27, <2>3, <2>1, <2>2, PlaceDrawDoes DEF PlaceOf, ModelOf, Holds, BeforeJob,
       AfterJob, Rendering, Terminal, Alone, Moves, SaveEffect, LeaveEffect,
       BillEffect, Pass, Worker
  <2>8. Alone(q)
    BY <1>27, PlaceDrawDoes DEF Moves, LeaveEffect
  <2> QED BY <2>4, <2>5, <2>6, <2>7, <2>8, PlacesMove DEF TypedInv, Worker
<1>28. ASSUME NEW q \in Place, PlaceSave(q), ~LostEffect(q) PROVE TypedInv'
  <2>1. Named(copy[q]).status = "running" => Named(copy[q]).model \in Model
    <3>1. copy[q] \in Record /\ (copy[q].status = "running" => copy[q].model \in
       Model)
      BY <1>28, PlaceSaveDoes DEF TypedInv, Typed, ModelOf, AfterJob, Rendering,
         Pass, Worker
    <3> QED BY <3>1, NamedJob
  <2>2. PlaceOf(q) /\ ModelOf(q) /\ copy[q] \in Record /\ ModelsRecorded
    BY DEF TypedInv, Typed
  <2>3. Typed'
    <3>1. /\ LeaveEffect(q) /\ SaveEffect(q, Named(copy[q]))
          /\ UNCHANGED <<blurred, bought, landed, troubles>>
      BY <1>28, PlaceSaveDoes
    <3>2. UNCHANGED <<clip, worldVars, todo, budgetVars, purge>>
      BY <1>28 DEF PlaceSave
    <3> QED BY <3>1, <3>2 DEF SaveEffect, LeaveEffect, TypedInv, Typed, worldVars, budgetVars
  <2>4. ModelsRecorded'
    BY <1>28, <2>2, <2>1, PlaceSaveDoes, SavedModels
  <2>5. PlaceOf(q)'
    BY <1>28, <2>2, <2>1, PlaceSaveDoes, Blanks DEF PlaceOf, ModelOf, Holds,
       BeforeJob, AfterJob, Rendering, Terminal, Alone, Moves, SaveEffect,
       LeaveEffect, BillEffect, Pass, Worker
  <2>6. ModelOf(q)'
    BY <1>28, <2>2, <2>1, PlaceSaveDoes, Blanks DEF PlaceOf, ModelOf, Holds,
       BeforeJob, AfterJob, Rendering, Terminal, Alone, Moves, SaveEffect,
       LeaveEffect, BillEffect, Pass, Worker
  <2>7. Alone(q)
    BY <1>28, PlaceSaveDoes DEF Moves, LeaveEffect
  <2> QED BY <2>3, <2>4, <2>5, <2>6, <2>7, PlacesMove DEF TypedInv, Worker
<1>29. ASSUME NEW j \in Call, FallDue(j) PROVE TypedInv'
  <2>1. /\ DueNow(rec[j], TRUE) \in Record /\ DueNow(rec[j], TRUE).status = rec[j].status
        /\ DueNow(rec[j], TRUE).model = rec[j].model
    BY DueNowJob DEF TypedInv, Typed
  <2>2. Typed'
    BY <1>29, <2>1 DEF FallDue, TypedInv, Typed, Goto, Phase, jobVars, worldVars,
       workVars, budgetVars, historyVars
  <2>3. ModelsRecorded'
    BY <1>29, <2>1 DEF FallDue, TypedInv, Typed, ModelsRecorded
  <2>4. \A w \in Worker : PlaceOf(w)' /\ ModelOf(w)'
    BY <1>29 DEF FallDue, TypedInv, PlaceOf, ModelOf, Holds, Terminal, workVars
  <2> QED BY <2>2, <2>3, <2>4 DEF TypedInv
<1>30. ASSUME NEW j \in Call, GrowOld(j) PROVE TypedInv'
  <2>1. Typed'
    BY <1>30 DEF GrowOld, TypedInv, Typed, Goto, Phase, jobVars, worldVars, workVars,
       budgetVars, historyVars
  <2>2. ModelsRecorded'
    BY <1>30 DEF GrowOld, TypedInv, ModelsRecorded, jobVars
  <2>3. \A w \in Worker : PlaceOf(w)' /\ ModelOf(w)'
    BY <1>30 DEF GrowOld, TypedInv, PlaceOf, ModelOf, Holds, Terminal, workVars
  <2> QED BY <2>1, <2>2, <2>3 DEF TypedInv
<1>31. CASE PurgeMark
  <2>1. \A j \in Call : Ended(rec[j], "deleted") \in Record
                        /\ Ended(rec[j], "deleted").status = "deleted"
    BY EndedJob DEF TypedInv, Typed
  <2>2. Typed'
    BY <1>31, <2>1, Blanks DEF PurgeMark, Trouble, TypedInv, Typed, Goto, Phase,
       jobVars, worldVars, workVars, budgetVars, historyVars
  <2>3. ModelsRecorded'
    BY <1>31, <2>1, Blanks DEF PurgeMark, ModelsRecorded
  <2>4. \A w \in Worker : PlaceOf(w)' /\ ModelOf(w)'
    BY <1>31 DEF PurgeMark, TypedInv, PlaceOf, ModelOf, Holds, Terminal, workVars
  <2> QED BY <2>2, <2>3, <2>4 DEF TypedInv
<1>32. CASE PurgeDrop
  <2>1. Typed'
    BY <1>32, Blanks DEF PurgeDrop, TypedInv, Typed, Goto, Phase, jobVars, worldVars,
       workVars, budgetVars, historyVars
  <2>2. ModelsRecorded'
    BY <1>32, Blanks DEF PurgeDrop, ModelsRecorded
  <2>3. \A w \in Worker : PlaceOf(w)' /\ ModelOf(w)'
    BY <1>32 DEF PurgeDrop, TypedInv, PlaceOf, ModelOf, Holds, Terminal, workVars
  <2> QED BY <2>1, <2>2, <2>3 DEF TypedInv
<1>33. CASE PurgeAgent
  <2>1. \A j \in Call : Ended(rec[j], "deleted") \in Record
                        /\ Ended(rec[j], "deleted").status = "deleted"
    BY EndedJob DEF TypedInv, Typed
  <2>2. Typed'
    <3>1. rec' \in [Call -> Record]
      BY <1>33, <2>1 DEF PurgeAgent, TypedInv, Typed
    <3>2. clip' \in [Call -> {None, "running", "ready", "failed", "deleted"}]
      BY <1>33 DEF PurgeAgent, TypedInv, Typed
    <3>3. troubles' \in 0 .. MaxTroubles /\ stale' \subseteq Worker
      BY <1>33 DEF PurgeAgent, Trouble, TypedInv, Typed
    <3>4. /\ purge' = "agent"
          /\ serving' = FALSE
          /\ UNCHANGED <<down, aged, gone, workVars, budgetVars, bought,
            landed, reported, torn, blurred>>
      BY <1>33 DEF PurgeAgent
    <3> QED BY <3>1, <3>2, <3>3, <3>4 DEF TypedInv, Typed, workVars, budgetVars
  <2>3. ModelsRecorded'
    BY <1>33, <2>1 DEF PurgeAgent, TypedInv, ModelsRecorded
  <2>4. \A w \in Worker : PlaceOf(w)' /\ ModelOf(w)'
    BY <1>33 DEF PurgeAgent, TypedInv, PlaceOf, ModelOf, Holds, Terminal, workVars
  <2> QED BY <2>2, <2>3, <2>4 DEF TypedInv
<1>34. CASE SwitchOff
  <2>1. Typed'
    <3>1. troubles' \in 0 .. MaxTroubles
      BY <1>34 DEF SwitchOff, TypedInv, Typed
    <3> QED BY <1>34, <3>1 DEF SwitchOff, TypedInv, Typed, jobVars, workVars, budgetVars,
            historyVars
  <2>2. ModelsRecorded'
    BY <1>34 DEF SwitchOff, TypedInv, ModelsRecorded, jobVars
  <2>3. \A w \in Worker : PlaceOf(w)' /\ ModelOf(w)'
    BY <1>34 DEF SwitchOff, TypedInv, PlaceOf, ModelOf, Holds, Terminal, workVars
  <2> QED BY <2>1, <2>2, <2>3 DEF TypedInv
<1>35. CASE SwitchOn
  <2>1. Typed'
    BY <1>35 DEF SwitchOn, TypedInv, Typed, Goto, Phase, jobVars, worldVars,
       workVars, budgetVars, historyVars
  <2>2. ModelsRecorded'
    BY <1>35 DEF SwitchOn, TypedInv, ModelsRecorded, jobVars
  <2>3. \A w \in Worker : PlaceOf(w)' /\ ModelOf(w)'
    BY <1>35 DEF SwitchOn, TypedInv, PlaceOf, ModelOf, Holds, Terminal, workVars
  <2> QED BY <2>1, <2>2, <2>3 DEF TypedInv
<1>36. CASE Restart
  <2>1. Typed'
    BY <1>36, Blanks DEF Restart, Trouble, Holds, PlaceOf, TypedInv, Typed, Goto,
       Phase, jobVars, worldVars, workVars, budgetVars, historyVars
  <2>2. ModelsRecorded'
    BY <1>36 DEF Restart, jobVars, TypedInv, ModelsRecorded
  <2>3. \A w \in Worker : PlaceOf(w)' /\ ModelOf(w)'
    BY <1>36, Blanks DEF Restart, TypedInv, PlaceOf, ModelOf, Holds, Active,
       BeforeJob, AfterJob, Rendering, Typed, Phase
  <2> QED BY <2>1, <2>2, <2>3 DEF TypedInv
<1>38. ASSUME NEW m \in Model, Disconnect(m) PROVE TypedInv'
  <2>1. Typed'
    BY <1>38 DEF Disconnect, Trouble, TypedInv, Typed, Goto, Phase, jobVars, worldVars, workVars,
       budgetVars, historyVars
  <2>2. ModelsRecorded'
    BY <1>38 DEF Disconnect, TypedInv, ModelsRecorded, jobVars
  <2>3. \A w \in Worker : PlaceOf(w)' /\ ModelOf(w)'
    BY <1>38 DEF Disconnect, TypedInv, PlaceOf, ModelOf, Holds, Terminal, workVars
  <2> QED BY <2>1, <2>2, <2>3 DEF TypedInv
<1>39. ASSUME NEW m \in Model, Connect(m) PROVE TypedInv'
  <2>1. Typed'
    BY <1>39 DEF Connect, TypedInv, Typed, Goto, Phase, jobVars, worldVars, workVars,
       budgetVars, historyVars
  <2>2. ModelsRecorded'
    BY <1>39 DEF Connect, TypedInv, ModelsRecorded, jobVars
  <2>3. \A w \in Worker : PlaceOf(w)' /\ ModelOf(w)'
    BY <1>39 DEF Connect, TypedInv, PlaceOf, ModelOf, Holds, Terminal, workVars
  <2> QED BY <2>1, <2>2, <2>3 DEF TypedInv
<1>37. CASE UNCHANGED vars
  BY <1>37 DEF vars, TypedInv, Typed, ModelsRecorded, PlaceOf, ModelOf, Holds, Terminal,
     jobVars, worldVars, workVars, budgetVars, historyVars
<1> HIDE DEF TypedInv
<1> QED
  BY <1>0, <1>1, <1>2, <1>3, <1>4, <1>5, <1>6, <1>7, <1>8, <1>9, <1>10, <1>11, <1>12,
     <1>13, <1>14, <1>15, <1>16, <1>17, <1>18, <1>19, <1>20, <1>21, <1>22, <1>23,
     <1>24, <1>25, <1>26, <1>27, <1>28, <1>29, <1>30, <1>31, <1>32, <1>33, <1>34,
     <1>35, <1>36, <1>37, <1>38, <1>39 DEF Next, CallStep, PassStep, RenderStep, PlaceStep, Reply,
     ReplyAgain
-----------------------------------------------------------------------------
(* A job is one worker's at a time. *)

\* Nobody is at work at the start.
LEMMA OneAtWorkInit == Init => OneAtWork
BY CallAssumption DEF Init, OneAtWork, Holds, Locked, BeforeJob, AfterJob, Rendering,
   Pass, Worker

\* A worker that saves and leaves frees its job; place keeps whether it has a task.
LEMMA PutDown ==
  ASSUME TypedInv, OneAtWork, NEW w \in Worker, Holds(w), LeaveEffect(w),
         NEW c, SaveEffect(w, c), w \in Place => c.task = copy[w].task
  PROVE  OneAtWork'
<1> USE CallAssumption DEF Pass, Worker
<1>1. PlaceOf(w)
  BY DEF TypedInv
<1>2. /\ at[w] \in Call /\ \A j \in Call \ {at[w]} : rec'[j] = rec[j]
      /\ rec'[at[w]].task = c.task
  BY DEF SaveEffect
<1>3. /\ Alone(w) /\ pc'[w] \in {"idle", "open", "over"}
      /\ w \in Pass => pc'[w] \in {"idle", "open"}
      /\ w \in Call => pc'[w] = "over"
  BY DEF LeaveEffect
<1>4. \A p \in Pass : Locked(p)' => Locked(p) /\ at'[p] = at[p]
  BY <1>3 DEF Alone, Locked
<1>5. \A d \in Call : pc'[d] \in BeforeJob \cup AfterJob =>
        d # w /\ pc'[d] = pc[d] /\ copy'[d] = copy[d]
  BY <1>3 DEF Alone, BeforeJob, AfterJob, Rendering
<1>6. \A o \in Pass \cup Place : Holds(o)' =>
        Holds(o) /\ at'[o] = at[o] /\ copy'[o] = copy[o]
  BY <1>3 DEF Alone, Holds
<1>7. ASSUME NEW d \in Call, pc'[d] \in BeforeJob
      PROVE  rec'[d] = NoRow /\ \A o \in Pass \cup Place : Holds(o)' => at'[o] # d
  <2>1. pc[d] \in BeforeJob /\ d # w
    BY <1>5, <1>7
  <2>2. d # at[w]
    BY <1>1, <2>1 DEF OneAtWork, PlaceOf
  <2> QED BY <1>2, <1>6, <2>1, <2>2 DEF OneAtWork
<1>8. ASSUME NEW d \in Call, pc'[d] \in AfterJob
      PROVE  /\ ~rec'[d].task /\ (pc'[d] # "keep" => ~copy'[d].task)
             /\ \A p \in Pass : Holds(p)' => at'[p] # d
             /\ \A q \in Place : Holds(q)' /\ at'[q] = d => ~copy'[q].task
  <2>1. pc[d] \in AfterJob /\ d # w
    BY <1>5, <1>8
  <2>2. d = at[w] => w \in Place /\ ~copy[w].task
    BY <1>1, <2>1 DEF OneAtWork, PlaceOf
  <2>3. ~rec'[d].task
    BY <1>2, <2>1, <2>2 DEF OneAtWork
  <2> QED BY <1>5, <1>6, <1>8, <2>1, <2>3 DEF OneAtWork
<1>9. \A p, q \in Pass : Locked(p)' /\ Locked(q)' /\ at'[p] = at'[q] => p = q
  BY <1>4 DEF OneAtWork
<1> HIDE DEF Locked, Holds
<1> QED BY <1>7, <1>8, <1>9 DEF OneAtWork

\* A step that loses its save frees its job, or keeps it.
LEMMA OneAtWorkLost ==
  ASSUME TypedInv, OneAtWork, NEW w \in Worker, LostEffect(w)
  PROVE  OneAtWork'
<1> USE CallAssumption DEF Pass, Worker
<1>1. PlaceOf(w) /\ copy[w] \in Record /\ Holds(w) /\ rec' = rec /\ Alone(w)
  BY DEF TypedInv, Typed, LostEffect, LostSave, LeaveEffect, Moves
<1>2. CASE LeaveEffect(w)
  BY <1>1, <1>2 DEF LeaveEffect, Alone, OneAtWork, Holds, Locked, BeforeJob, AfterJob,
     Rendering, PlaceOf
<1>3. CASE w \in Call /\ ~copy[w].task /\ Moves(w, "made", "store", copy[w]) /\ at' = at
  <2>1. ~NoRow.task
    BY DEF NoRow, Blank
  <2> QED BY <1>1, <1>3, <2>1 DEF Moves, Alone, OneAtWork, Holds, Locked, BeforeJob,
     AfterJob, Rendering, PlaceOf
<1>4. CASE /\ w \in Call \cup Pass /\ pc[w] \in {"landing", "failing", "refail"}
           /\ Moves(w, pc[w], IF pc[w] = "refail" THEN "redraw" ELSE "draw",
                    Marked(Settled(w), TRUE))
           /\ at' = at
  <2>1. copy'[w].task = copy[w].task
    <3>1. Settled(w) \in Record /\ Settled(w).task = copy[w].task
      BY <1>1, EndedJob DEF Settled
    <3>2. Marked(Settled(w), TRUE).task = copy[w].task
      BY <3>1, MarkedJob
    <3> QED BY <1>4, <3>2 DEF Moves
  <2>2. pc'[w] \in {"draw", "redraw"} /\ (w \in Call => pc'[w] = "draw")
    BY <1>1, <1>4 DEF Moves, PlaceOf, BeforeJob, AfterJob, Rendering
  <2>3. \A o \in Worker : (Holds(o)' <=> Holds(o)) /\ (o # w => copy'[o] = copy[o])
    BY <1>1, <1>4, <2>2 DEF Alone, Holds
  <2> HIDE DEF Holds
  <2> QED BY <1>1, <1>4, <2>1, <2>2, <2>3 DEF Alone, OneAtWork, Locked, BeforeJob, AfterJob,
     Rendering, PlaceOf
<1> QED BY <1>2, <1>3, <1>4 DEF LostEffect

\* A job is one pass's at a time, and its call's alone while that renders.
LEMMA OneAtWorkStep == TypedInv /\ OneAtWork /\ [Next]_vars => OneAtWork'
<1> SUFFICES ASSUME TypedInv, OneAtWork, [Next]_vars PROVE OneAtWork'
  OBVIOUS
<1> USE CallAssumption DEF Pass, Worker
<1>0. ASSUME NEW w, w \in Call \/ w \in Pass \/ w \in Place, LostEffect(w) PROVE OneAtWork'
  BY <1>0, OneAtWorkLost DEF Pass, Worker
<1>1. ASSUME NEW c \in Call, Ask(c) PROVE OneAtWork'
  <2>1. \A o \in Worker : PlaceOf(o)
    BY DEF TypedInv
  <2> QED BY <1>1, <2>1, AskDoes, Blanks DEF OneAtWork, Alone, Moves, Holds, Active,
     Locked, BeforeJob, AfterJob, Rendering, SaveEffect, LeaveEffect, BillEffect,
     PlaceOf, Pollable
<1>2. ASSUME NEW c \in Call, Walk(c) PROVE OneAtWork'
  <2>1. \A o \in Worker : PlaceOf(o)
    BY DEF TypedInv
  <2> QED BY <1>2, <2>1, WalkDoes, Blanks DEF OneAtWork, Alone, Moves, Holds,
     Active, Locked, BeforeJob, AfterJob, Rendering, SaveEffect, LeaveEffect,
     BillEffect, PlaceOf, Pollable
<1>3. ASSUME NEW c \in Call, Refused(c, "sent", "walk") PROVE OneAtWork'
  <2>1. \A o \in Worker : PlaceOf(o)
    BY DEF TypedInv
  <2> QED BY <1>3, <2>1, RefusedDoes, Blanks DEF OneAtWork, Alone, Moves, Holds,
     Active, Locked, BeforeJob, AfterJob, Rendering, SaveEffect, LeaveEffect,
     BillEffect, PlaceOf, Pollable
<1>4. ASSUME NEW c \in Call, Empty(c, "sent", "walk") PROVE OneAtWork'
  <2>1. \A o \in Worker : PlaceOf(o)
    BY DEF TypedInv
  <2> QED BY <1>4, <2>1, EmptyDoes, Blanks DEF OneAtWork, Alone, Moves, Holds,
     Active, Locked, BeforeJob, AfterJob, Rendering, SaveEffect, LeaveEffect,
     BillEffect, PlaceOf, Pollable
<1>5. ASSUME NEW c \in Call, Accepted(c, "sent", Carried(copy[c]), "made")
      PROVE  OneAtWork'
  <2>1. \A o \in Worker : PlaceOf(o)
    BY DEF TypedInv
  <2> QED BY <1>5, <2>1, AcceptedDoes, Blanks DEF OneAtWork, Alone, Moves, Holds,
     Active, Locked, BeforeJob, AfterJob, Rendering, SaveEffect, LeaveEffect,
     BillEffect, PlaceOf, Pollable
<1>6. ASSUME NEW c \in Call, Make(c), ~LostEffect(c) PROVE OneAtWork'
  <2>1. SaveEffect(c, copy[c]) /\ Holds(c) /\ PlaceOf(c) /\ pc[c] = "made"
    BY <1>6, MakeDoes DEF Holds, TypedInv
  <2>2. CASE LeaveEffect(c)
    BY <2>1, <2>2, PutDown
  <2>3. CASE ~copy[c].task /\ Moves(c, "made", "store", copy[c]) /\ at' = at
    <3>1. ~rec'[c].task /\ \A j \in Call \ {c} : rec'[j] = rec[j]
      BY <2>1, <2>3 DEF SaveEffect, PlaceOf
    <3> QED BY <2>1, <2>3, <3>1 DEF Moves, Alone, OneAtWork, Holds, Locked, BeforeJob,
       AfterJob, Rendering, PlaceOf
  <2> QED BY <1>6, <2>2, <2>3, MakeDoes
<1>7. ASSUME NEW c \in Call, WalkOver(c), ~LostEffect(c) PROVE OneAtWork'
  <2>1. LeaveEffect(c) /\ Holds(c) /\ PlaceOf(c) /\ pc[c] = "spent"
    BY <1>7, WalkOverDoes DEF Holds, TypedInv
  <2>2. CASE SaveEffect(c, Ended(Carried(copy[c]), "failed"))
    BY <2>1, <2>2, PutDown
  <2>3. CASE rec' = rec
    BY <2>1, <2>3 DEF LeaveEffect, Alone, OneAtWork, Holds, Locked, BeforeJob, AfterJob,
       Rendering, PlaceOf
  <2> QED BY <1>7, <2>2, <2>3, WalkOverDoes
<1>8. ASSUME NEW p \in Pass, Open(p) PROVE OneAtWork'
  <2>1. \A o \in Worker : PlaceOf(o)
    BY DEF TypedInv
  <2> QED BY <1>8, <2>1, OpenDoes, Blanks DEF OneAtWork, Alone, Moves, Holds,
     Active, Locked, BeforeJob, AfterJob, Rendering, SaveEffect, LeaveEffect,
     BillEffect, PlaceOf, Pollable
<1>9. ASSUME NEW p \in Pass, NEW j \in Call, Take(p, j) PROVE OneAtWork'
  <2>1. \A o \in Worker : PlaceOf(o)
    BY DEF TypedInv
  <2> QED BY <1>9, <2>1, TakeDoes, Blanks DEF OneAtWork, Alone, Moves, Holds,
     Active, Locked, BeforeJob, AfterJob, Rendering, SaveEffect, LeaveEffect,
     BillEffect, PlaceOf, Pollable
<1>10. ASSUME NEW p \in Pass, Enter(p) PROVE OneAtWork'
  <2>1. \A o \in Worker : PlaceOf(o)
    BY DEF TypedInv
  <2> QED BY <1>10, <2>1, EnterDoes, Blanks DEF OneAtWork, Alone, Moves, Holds,
     Active, Locked, BeforeJob, AfterJob, Rendering, SaveEffect, LeaveEffect,
     BillEffect, PlaceOf, Pollable
<1>11. ASSUME NEW p \in Pass, NotServing(p) PROVE OneAtWork'
  <2>1. \A o \in Worker : PlaceOf(o)
    BY DEF TypedInv
  <2> QED BY <1>11, <2>1, NotServingDoes, Blanks DEF OneAtWork, Alone, Moves, Holds,
     Active, Locked, BeforeJob, AfterJob, Rendering, SaveEffect, LeaveEffect,
     BillEffect, PlaceOf, Pollable
<1>12. ASSUME NEW p \in Pass, Progress(p), ~LostEffect(p) PROVE OneAtWork'
  <2>1. copy[p] \in Record
    BY DEF TypedInv, Typed
  <2>2. DueNow(copy[p], FALSE) \in Record /\ DueNow(copy[p], FALSE).task = copy[p].task
    BY <2>1, DueNowJob
  <2>3. LeaveEffect(p) /\ SaveEffect(p, DueNow(copy[p], FALSE)) /\ Holds(p)
    BY <1>12, ProgressDoes DEF Holds
  <2> QED BY <2>2, <2>3, PutDown
<1>13. ASSUME NEW p \in Pass, TimedOut(p) PROVE OneAtWork'
  <2>1. \A o \in Worker : PlaceOf(o)
    BY DEF TypedInv
  <2> QED BY <1>13, <2>1, TimedOutDoes, Blanks DEF OneAtWork, Alone, Moves, Holds,
     Active, Locked, BeforeJob, AfterJob, Rendering, SaveEffect, LeaveEffect,
     BillEffect, PlaceOf, Pollable
<1>14. ASSUME NEW p \in Pass, PollFailed(p) PROVE OneAtWork'
  <2>1. \A o \in Worker : PlaceOf(o)
    BY DEF TypedInv
  <2> QED BY <1>14, <2>1, PollFailedDoes, Blanks DEF OneAtWork, Alone, Moves, Holds,
     Active, Locked, BeforeJob, AfterJob, Rendering, SaveEffect, LeaveEffect,
     BillEffect, PlaceOf, Pollable
<1>15. ASSUME NEW p \in Pass, PollSucceeded(p) PROVE OneAtWork'
  <2>1. \A o \in Worker : PlaceOf(o)
    BY DEF TypedInv
  <2> QED BY <1>15, <2>1, PollSucceededDoes, Blanks DEF OneAtWork, Alone, Moves,
     Holds, Active, Locked, BeforeJob, AfterJob, Rendering, SaveEffect, LeaveEffect,
     BillEffect, PlaceOf, Pollable
<1>16. ASSUME NEW p \in Pass, DrawFails(p), ~LostEffect(p) PROVE OneAtWork'
  <2>1. PlaceOf(p) /\ copy[p] \in Record
    BY DEF TypedInv, Typed
  <2>2. CASE LeaveEffect(p) /\ SaveEffect(p, DueNow(copy[p], FALSE))
    <3>1. DueNow(copy[p], FALSE) \in Record /\ DueNow(copy[p], FALSE).task = copy[p].task
      BY <2>1, DueNowJob
    <3>2. Holds(p)
      BY <1>16, DrawFailsDoes DEF Holds
    <3> QED BY <2>2, <3>1, <3>2, PutDown
  <2>3. CASE /\ Moves(p, "draw", "refail", Banked(copy[p], copy[p].model)) /\ at' = at
             /\ UNCHANGED rec
    BY <2>1, <2>3 DEF OneAtWork, Moves, Alone, Holds, Locked, BeforeJob, AfterJob,
       Rendering, PlaceOf
  <2>4. CASE pc[p] = "redraw" /\ LeaveEffect(p) /\ UNCHANGED rec
    BY <2>1, <2>4 DEF OneAtWork, LeaveEffect, Alone, Holds, Locked, BeforeJob, AfterJob,
       Rendering, PlaceOf
  <2> QED BY <1>16, <2>2, <2>3, <2>4, DrawFailsDoes
<1>17. ASSUME NEW w \in Call \cup Pass, Again(w) PROVE OneAtWork'
  <2>1. \A o \in Worker : PlaceOf(o)
    BY DEF TypedInv
  <2> QED BY <1>17, <2>1, AgainDoes, Blanks DEF OneAtWork, Alone, Moves, Holds,
     Active, Locked, BeforeJob, AfterJob, Rendering, SaveEffect, LeaveEffect,
     BillEffect, PlaceOf, Pollable
<1>18. ASSUME NEW w \in Call \cup Pass, Refused(w, "resent", "failing") PROVE OneAtWork'
  <2>1. copy[w] \in Record /\ \A o \in Worker : PlaceOf(o)
    BY DEF TypedInv, Typed
  <2>2. cand[w] \in Model
    BY <1>18 DEF Refused, TypedInv, ModelOf, AfterJob, Rendering
  <2>3. Tried(copy[w], cand[w]).task = copy[w].task
    BY <2>1, <2>2, TriedJob
  <2> QED BY <1>18, <2>1, <2>3, AgainRefusedDoes DEF OneAtWork, Alone, Moves, Holds,
     Locked, BeforeJob, AfterJob, Rendering, BillEffect, PlaceOf
<1>19. ASSUME NEW w \in Call \cup Pass, Empty(w, "resent", "failing") PROVE OneAtWork'
  <2>1. copy[w] \in Record /\ \A o \in Worker : PlaceOf(o)
    BY DEF TypedInv, Typed
  <2>2. cand[w] \in Model
    BY <1>19 DEF Empty, TypedInv, ModelOf, AfterJob, Rendering
  <2>3. Banked(copy[w], cand[w]).task = copy[w].task
    BY <2>1, <2>2, BankedJob
  <2> QED BY <1>19, <2>1, <2>3, AgainEmptyDoes DEF OneAtWork, Alone, Moves, Holds,
     Locked, BeforeJob, AfterJob, Rendering, BillEffect, PlaceOf
<1>20. ASSUME NEW w \in Call \cup Pass, Accepted(w, "resent", copy[w], IF cand[w]
             \in Inline THEN "restore" ELSE "keep")
      PROVE  OneAtWork'
  <2>1. copy[w] \in Record /\ \A o \in Worker : PlaceOf(o)
    BY DEF TypedInv, Typed
  <2>2. cand[w] \in Model
    BY <1>20 DEF Accepted, TypedInv, ModelOf, AfterJob, Rendering
  <2>3. cand[w] \in Inline /\ ~copy[w].task => ~Taken(copy[w], cand[w]).task
    BY <2>1, <2>2, TakenJob
  <2> QED BY <1>20, <2>1, <2>3, AgainAcceptedDoes DEF OneAtWork, Alone, Moves, Holds,
     Locked, BeforeJob, AfterJob, Rendering, BillEffect, PlaceOf
<1>21. ASSUME NEW w \in Call \cup Pass, Resume(w), ~LostEffect(w) PROVE OneAtWork'
  <2>1. LeaveEffect(w) /\ SaveEffect(w, copy[w]) /\ Holds(w)
    BY <1>21, ResumeDoes DEF Holds
  <2> QED BY <2>1, PutDown
<1>22. ASSUME NEW w \in Call \cup Pass, FileGood(w) PROVE OneAtWork'
  <2>1. copy[w] \in Record /\ \A o \in Worker : PlaceOf(o)
    BY DEF TypedInv, Typed
  <2>3. Ended(copy[w], "succeeded").task = copy[w].task
    BY <2>1, EndedJob
  <2> QED BY <1>22, <2>1, <2>3, FileGoodDoes DEF OneAtWork, Alone, Moves, Holds,
     Locked, BeforeJob, AfterJob, Rendering, BillEffect, PlaceOf
<1>23. ASSUME NEW w \in Call \cup Pass, FileBad(w) PROVE OneAtWork'
  <2>1. copy[w] \in Record /\ \A o \in Worker : PlaceOf(o)
    BY DEF TypedInv, Typed
  <2>2. copy[w].model \in Model
    BY <1>23 DEF FileBad, TypedInv, ModelOf, AfterJob, Rendering
  <2>3. Banked(copy[w], copy[w].model).task = copy[w].task
    BY <2>1, <2>2, BankedJob
  <2> QED BY <1>23, <2>1, <2>3, FileBadDoes DEF OneAtWork, Alone, Moves, Holds,
     Locked, BeforeJob, AfterJob, Rendering, BillEffect, PlaceOf
<1>24. ASSUME NEW w \in Call \cup Pass, Settle(w), ~LostEffect(w) PROVE OneAtWork'
  <2>1. PlaceOf(w) /\ copy[w] \in Record
    BY DEF TypedInv, Typed
  <2>2. Settled(w) \in Record /\ Settled(w).task = copy[w].task
    BY <2>1, EndedJob DEF Settled
  <2>3. /\ at[w] \in Call /\ \A j \in Call \ {at[w]} : rec'[j] = rec[j]
        /\ rec'[at[w]].task = copy[w].task
    <3>1. SaveEffect(w, Settled(w))
      BY <1>24, SettleDoes
    <3> QED BY <2>2, <3>1 DEF SaveEffect
  <2>4. Marked(Settled(w), TRUE).task = copy[w].task
    BY <2>2, MarkedJob
  <2>5. /\ Alone(w) /\ at' = at /\ pc[w] \in {"landing", "failing", "refail"}
        /\ pc'[w] \in {"draw", "redraw"} /\ (w \in Call => pc'[w] = "draw")
        /\ copy'[w].task = copy[w].task
    BY <1>24, <2>1, <2>4, SettleDoes DEF Moves, PlaceOf, BeforeJob, AfterJob, Rendering
  <2>6. \A p, q \in Pass : Locked(p)' /\ Locked(q)' /\ at'[p] = at'[q] => p = q
    BY <2>5 DEF OneAtWork, Alone, Locked
  <2>7. \A o \in Worker : (Holds(o)' <=> Holds(o)) /\ copy'[o].task = copy[o].task
    BY <2>5 DEF Alone, Holds
  <2>8. ASSUME NEW d \in Call, pc'[d] \in BeforeJob
        PROVE  rec'[d] = NoRow /\ \A o \in Pass \cup Place : Holds(o)' => at'[o] # d
    <3>1. pc[d] \in BeforeJob /\ d # w /\ Holds(w)
      BY <2>5, <2>8 DEF Alone, BeforeJob, Holds
    <3>2. d # at[w]
      BY <2>1, <3>1 DEF OneAtWork, PlaceOf
    <3> QED BY <2>3, <2>5, <2>7, <3>1, <3>2 DEF OneAtWork
  <2>9. ASSUME NEW d \in Call, pc'[d] \in AfterJob
        PROVE  /\ ~rec'[d].task /\ (pc'[d] # "keep" => ~copy'[d].task)
               /\ \A p \in Pass : Holds(p)' => at'[p] # d
               /\ \A q \in Place : Holds(q)' /\ at'[q] = d => ~copy'[q].task
    <3>1. pc[d] \in AfterJob /\ (pc'[d] = "keep" <=> pc[d] = "keep")
      BY <2>1, <2>5, <2>9 DEF Alone, AfterJob, Rendering, PlaceOf, BeforeJob
    <3>2. d = at[w] => ~copy[w].task
      BY <2>1, <2>5, <3>1 DEF OneAtWork, PlaceOf, Holds
    <3>3. ~rec'[d].task
      BY <2>3, <3>1, <3>2 DEF OneAtWork
    <3> QED BY <2>5, <2>7, <3>1, <3>3 DEF OneAtWork
  <2> HIDE DEF Locked, Holds
  <2> QED BY <2>6, <2>8, <2>9 DEF OneAtWork
<1>25. ASSUME NEW w \in Call \cup Pass, Draw(w) PROVE OneAtWork'
  <2>1. \A o \in Worker : PlaceOf(o)
    BY DEF TypedInv
  <2>2. LeaveEffect(w) /\ rec' = rec
    BY <1>25, DrawDoes
  <2> QED BY <2>1, <2>2 DEF OneAtWork, Alone, Holds, Locked, BeforeJob, AfterJob,
     Rendering, LeaveEffect, PlaceOf
<1>26. ASSUME NEW q \in Place, NEW j \in Call, PlaceRead(q, j) PROVE OneAtWork'
  <2>1. \A o \in Worker : PlaceOf(o)
    BY DEF TypedInv
  <2>2. /\ Alone(q) /\ pc'[q] = "place" /\ at'[q] = j /\ copy'[q] = rec[j] /\ rec' = rec
        /\ rec[j].status # "absent"
    BY <1>26, PlaceReadDoes DEF Moves, Known
  <2> QED BY <2>1, <2>2, Blanks DEF OneAtWork, Alone, Holds, Locked, BeforeJob,
     AfterJob, Rendering, PlaceOf
<1>27. ASSUME NEW q \in Place, PlaceDraw(q) PROVE OneAtWork'
  <2>1. \A o \in Worker : PlaceOf(o)
    BY DEF TypedInv
  <2> QED BY <1>27, <2>1, PlaceDrawDoes, Blanks DEF OneAtWork, Alone, Moves, Holds,
     Active, Locked, BeforeJob, AfterJob, Rendering, SaveEffect, LeaveEffect,
     BillEffect, PlaceOf, Pollable
<1>28. ASSUME NEW q \in Place, PlaceSave(q), ~LostEffect(q) PROVE OneAtWork'
  <2>1. copy[q] \in Record
    BY DEF TypedInv, Typed
  <2>2. Named(copy[q]) \in Record /\ Named(copy[q]).task = copy[q].task
    BY <2>1, NamedJob
  <2>3. LeaveEffect(q) /\ SaveEffect(q, Named(copy[q])) /\ Holds(q)
    BY <1>28, PlaceSaveDoes DEF Holds
  <2> QED BY <2>2, <2>3, PutDown
<1>29. ASSUME NEW j \in Call, FallDue(j) PROVE OneAtWork'
  <2>1. /\ \A i \in Call \ {j} : rec'[i] = rec[i]
        /\ rec'[j].task = rec[j].task /\ rec[j] # NoRow
    <3>1. /\ rec' = [rec EXCEPT ![j] = DueNow(rec[j], TRUE)] /\ rec \in [Call -> Record]
          /\ rec[j] \in Record /\ rec[j].status = "running"
      BY <1>29 DEF FallDue, TypedInv, Typed
    <3>2. DueNow(rec[j], TRUE).task = rec[j].task
      BY <3>1, DueNowJob
    <3>3. rec'[j] = DueNow(rec[j], TRUE) /\ \A i \in Call \ {j} : rec'[i] = rec[i]
      BY <3>1
    <3> QED BY <3>1, <3>2, <3>3, Blanks
  <2>2. UNCHANGED <<pc, at, copy>>
    BY <1>29 DEF FallDue, workVars
  <2> QED BY <2>1, <2>2 DEF OneAtWork, Holds, Locked
<1>30. ASSUME NEW j \in Call, GrowOld(j) PROVE OneAtWork'
  BY <1>30, DueNowJob, EndedJob, Blanks DEF GrowOld, TypedInv, Typed, OneAtWork,
     Holds, Active, Locked, Known, BeforeJob, AfterJob, Rendering, jobVars, workVars
<1>31. CASE PurgeMark
  <2>1. \A i \in Call : (rec[i] = NoRow => rec'[i] = NoRow) /\ (~rec[i].task => ~rec'[i].task)
    BY <1>31, EndedJob, Blanks DEF PurgeMark, Known, TypedInv, Typed
  <2> QED BY <1>31, <2>1 DEF PurgeMark, workVars, OneAtWork, Holds, Locked,
     BeforeJob, AfterJob, Rendering
<1>32. CASE PurgeDrop
  BY <1>32, DueNowJob, EndedJob, Blanks DEF PurgeDrop, TypedInv, Typed, OneAtWork,
     Holds, Active, Locked, Known, BeforeJob, AfterJob, Rendering, jobVars, workVars
<1>33. CASE PurgeAgent
  <2>1. \A i \in Call : (rec[i] = NoRow => rec'[i] = NoRow) /\ (~rec[i].task => ~rec'[i].task)
    BY <1>33, EndedJob, Blanks DEF PurgeAgent, TypedInv, Typed
  <2> QED BY <1>33, <2>1 DEF PurgeAgent, workVars, OneAtWork, Holds, Locked, BeforeJob,
     AfterJob, Rendering
<1>34. CASE SwitchOff
  BY <1>34, DueNowJob, EndedJob, Blanks DEF SwitchOff, TypedInv, Typed, OneAtWork,
     Holds, Active, Locked, Known, BeforeJob, AfterJob, Rendering, jobVars, workVars
<1>35. CASE SwitchOn
  BY <1>35, DueNowJob, EndedJob, Blanks DEF SwitchOn, TypedInv, Typed, OneAtWork,
     Holds, Active, Locked, Known, BeforeJob, AfterJob, Rendering, jobVars, workVars
<1>36. CASE Restart
  <2>1. rec' = rec /\ \A w \in Worker : pc'[w] \in {"idle", "over"}
    BY <1>36 DEF Restart, Active, jobVars
  <2>2. \A c \in Call : pc'[c] = "idle" => pc[c] = "idle"
    BY <1>36 DEF Restart, Active, TypedInv, Typed
  <2>3. \A p \in Pass : pc'[p] = "idle"
    BY <1>36 DEF Restart, Active, TypedInv, Typed, PlaceOf, AfterJob, Rendering
  <2>4. \A w \in Worker : ~Holds(w)' /\ pc'[w] \notin AfterJob
    BY <2>1 DEF Holds, AfterJob, Rendering
  <2>5. \A p \in Pass : ~Locked(p)'
    BY <2>3 DEF Locked
  <2>6. \A c \in Call : pc'[c] \in BeforeJob => rec'[c] = NoRow
    BY <2>1, <2>2 DEF OneAtWork, BeforeJob
  <2> HIDE DEF Holds, Locked, BeforeJob
  <2> QED BY <2>4, <2>5, <2>6 DEF OneAtWork
<1>38. ASSUME NEW m \in Model, Disconnect(m) PROVE OneAtWork'
  BY <1>38, DueNowJob, EndedJob, Blanks DEF Disconnect, TypedInv, Typed, OneAtWork,
     Holds, Active, Locked, Known, BeforeJob, AfterJob, Rendering, jobVars, workVars
<1>39. ASSUME NEW m \in Model, Connect(m) PROVE OneAtWork'
  BY <1>39, DueNowJob, EndedJob, Blanks DEF Connect, TypedInv, Typed, OneAtWork,
     Holds, Active, Locked, Known, BeforeJob, AfterJob, Rendering, jobVars, workVars
<1>37. CASE UNCHANGED vars
  BY <1>37 DEF vars, OneAtWork, Holds, Active, Locked, jobVars, workVars
<1> HIDE DEF OneAtWork
<1> QED
  BY <1>0, <1>1, <1>2, <1>3, <1>4, <1>5, <1>6, <1>7, <1>8, <1>9, <1>10, <1>11, <1>12,
     <1>13, <1>14, <1>15, <1>16, <1>17, <1>18, <1>19, <1>20, <1>21, <1>22, <1>23,
     <1>24, <1>25, <1>26, <1>27, <1>28, <1>29, <1>30, <1>31, <1>32, <1>33, <1>34,
     <1>35, <1>36, <1>37, <1>38, <1>39 DEF Next, CallStep, PassStep, RenderStep, PlaceStep, Reply,
     ReplyAgain
-----------------------------------------------------------------------------
(* The budget covers what the calls at work buy. *)

\* The purchases of a call are a natural number.
LEMMA PurchasesAreNat ==
  ASSUME TypedInv, NEW c \in Call
  PROVE  Purchases(c) \in Nat /\ Len(bought[c]) \in Nat
BY DEF Purchases, TypedInv, Typed

\* They are so after a step that keeps the type of what is bought, too.
LEMMA PurchasesStayNat ==
  ASSUME bought' \in [Call -> Seq(Model)], NEW c \in Call
  PROVE  Purchases(c)' \in Nat
BY DEF Purchases

\* What is on the budget are the purchases of the calls at work.
LEMMA OnBudgetHas ==
  /\ \A x : x \in OnBudget <=>
       \E c \in Call : Active(c) /\ \E i \in 1 .. Purchases(c) : x = <<c, i>>
  /\ \A x : (x \in OnBudget)' <=>
       \E c \in Call : Active(c)' /\ \E i \in 1 .. Purchases(c)' : x = <<c, i>>
<1>1. \A x : x \in OnBudget <=>
        \E c \in Call : Active(c) /\ \E i \in 1 .. Purchases(c) : x = <<c, i>>
  BY DEF OnBudget
<1>2. \A x : (x \in OnBudget)' <=>
        \E c \in Call : Active(c)' /\ \E i \in 1 .. Purchases(c)' : x = <<c, i>>
  BY DEF OnBudget
<1> QED BY <1>1, <1>2

\* A step that buys for no call at work, and starts none that has bought, keeps
\* within the budget.
LEMMA BudgetRests ==
  ASSUME TypedInv, BudgetCovers, bought' \in [Call -> Seq(Model)], billed' = billed,
         \A d \in Call : pc'[d] = "idle" => pc[d] = "idle" /\ bought'[d] = bought[d],
         \A d \in Call : Active(d)' => Purchases(d)' = 0
                                         \/ (Active(d) /\ Purchases(d)' <= Purchases(d))
  PROVE  BudgetCovers'
<1>1. OnBudget' \subseteq OnBudget
  <2>1. ASSUME NEW c \in Call, Active(c)', NEW i \in 1 .. Purchases(c)'
        PROVE  Active(c) /\ i \in 1 .. Purchases(c)
    BY <2>1, PurchasesAreNat, PurchasesStayNat
  <2> QED BY <2>1, OnBudgetHas
<1>2. IsFiniteSet(OnBudget') /\ Cardinality(OnBudget') <= Cardinality(OnBudget)
  BY <1>1, FS_Subset DEF BudgetCovers
<1>3. Cardinality(OnBudget') \in Nat /\ Cardinality(OnBudget) \in Nat
  BY <1>2, FS_CardinalityType DEF BudgetCovers
<1> QED BY <1>2, <1>3, BudgetAssumption DEF BudgetCovers

\* So does a step of one worker that buys nothing and sends nothing.
LEMMA BudgetRestsAlone ==
  ASSUME TypedInv, BudgetCovers, NEW w \in Worker, Alone(w),
         w \in Call => Active(w) /\ pc'[w] \notin {"idle", "sent", "resent"},
         bought' = bought, billed' = billed
  PROVE  BudgetCovers'
<1>1. bought' \in [Call -> Seq(Model)]
  BY DEF TypedInv, Typed
<1>2. \A d \in Call : pc'[d] = "idle" => pc[d] = "idle" /\ bought'[d] = bought[d]
  BY DEF Alone, Worker
<1>3. ASSUME NEW d \in Call, Active(d)'
      PROVE  Active(d) /\ Purchases(d)' <= Purchases(d)
  <2>1. CASE d = w
    <3>1. Active(d) /\ pc'[d] \notin {"sent", "resent"}
      BY <2>1
    <3>2. Len(bought[d]) \in Nat
      BY PurchasesAreNat
    <3> QED BY <3>1, <3>2 DEF Purchases
  <2>2. CASE d # w
    BY <1>3, <2>2, PurchasesAreNat DEF Alone, Active, Purchases, Worker
  <2> QED BY <2>1, <2>2
<1> QED BY <1>1, <1>2, <1>3, BudgetRests

\* A purse opened while no call is at work is empty.
LEMMA BudgetOpens ==
  ASSUME TypedInv, BudgetCovers, bought' = bought, billed' = 0,
         \A d \in Call : pc'[d] = "idle" => pc[d] = "idle",
         \A d \in Call : Active(d)' => Purchases(d)' = 0
  PROVE  BudgetCovers'
<1>1. OnBudget' = {}
  BY OnBudgetHas
<1> QED BY <1>1, FS_EmptySet, BudgetAssumption DEF BudgetCovers

\* A call that submits claims what it is about to buy.
LEMMA BudgetClaims ==
  ASSUME TypedInv, BudgetCovers, NEW c \in Call, Alone(c), Active(c), bought' = bought,
         pc[c] \notin {"sent", "resent"}, pc'[c] \in {"sent", "resent"},
         billed <= MaxAdvances, billed' = billed + 1
  PROVE  BudgetCovers'
<1> DEFINE x == <<c, Len(bought[c]) + 1>>
<1>1. Purchases(c)' = Purchases(c) + 1 /\ Purchases(c) = Len(bought[c])
      /\ Purchases(c) \in Nat
  BY PurchasesAreNat DEF Purchases
<1>2. \A d \in Call \ {c} : Purchases(d)' = Purchases(d) /\ (Active(d)' <=> Active(d))
  BY DEF Purchases, Active, Alone, Worker
<1>3. OnBudget' \subseteq OnBudget \cup {x}
  <2>1. ASSUME NEW d \in Call, Active(d)', NEW i \in 1 .. Purchases(d)'
        PROVE  <<d, i>> \in OnBudget \cup {x}
    BY <1>1, <1>2, <2>1, OnBudgetHas
  <2> QED BY <2>1, OnBudgetHas
<1>4. /\ IsFiniteSet(OnBudget \cup {x})
      /\ Cardinality(OnBudget \cup {x}) = IF x \in OnBudget THEN Cardinality(OnBudget)
                                                            ELSE Cardinality(OnBudget) + 1
  BY FS_AddElement DEF BudgetCovers
<1>5. IsFiniteSet(OnBudget') /\ Cardinality(OnBudget') <= Cardinality(OnBudget \cup {x})
  BY <1>3, <1>4, FS_Subset
<1>6. Cardinality(OnBudget') \in Nat /\ Cardinality(OnBudget) \in Nat
  BY <1>5, FS_CardinalityType DEF BudgetCovers
<1>7. Cardinality(OnBudget') <= billed + 1
  BY <1>4, <1>5, <1>6 DEF BudgetCovers
<1>8. \A d \in Call : pc'[d] = "idle" => pc[d] = "idle"
  BY DEF Alone, Worker
<1> QED BY <1>5, <1>7, <1>8, BudgetAssumption DEF BudgetCovers

\* A refusal gives back a submit that was claimed.
LEMMA BudgetReturns ==
  ASSUME TypedInv, BudgetCovers, NEW c \in Call, Alone(c), bought' = bought,
         pc[c] \in {"sent", "resent"}, pc'[c] \in {"walk", "failing"},
         billed' = billed - 1
  PROVE  BudgetCovers'
<1> DEFINE x == <<c, Len(bought[c]) + 1>>
<1> Len(bought[c]) \in Nat
  BY PurchasesAreNat
<1>1. /\ Purchases(c) = Len(bought[c]) + 1 /\ Purchases(c)' = Len(bought[c])
      /\ Active(c)
  <2>1. pc[c] \notin {"idle", "over"} /\ pc'[c] \notin {"sent", "resent"}
    OBVIOUS
  <2>2. Purchases(c) = Len(bought[c]) + 1
    BY DEF Purchases
  <2>3. Purchases(c)' = Len(bought[c])
    BY <2>1 DEF Purchases
  <2> QED BY <2>1, <2>2, <2>3 DEF Active
<1>2. \A d \in Call \ {c} : Purchases(d)' = Purchases(d) /\ (Active(d)' <=> Active(d))
  BY DEF Purchases, Active, Alone, Worker
<1>3. x \in OnBudget
  BY <1>1, OnBudgetHas
<1>4. OnBudget' \subseteq OnBudget \ {x}
  <2>1. ASSUME NEW d \in Call, Active(d)', NEW i \in 1 .. Purchases(d)'
        PROVE  <<d, i>> \in OnBudget \ {x}
    BY <1>1, <1>2, <2>1, OnBudgetHas
  <2> QED BY <2>1, OnBudgetHas
<1>5. IsFiniteSet(OnBudget \ {x}) /\ Cardinality(OnBudget \ {x}) = Cardinality(OnBudget) - 1
  <2>1. IsFiniteSet(OnBudget)
    BY DEF BudgetCovers
  <2> HIDE DEF x
  <2> QED BY <1>3, <2>1, FS_RemoveElement
<1>6. IsFiniteSet(OnBudget') /\ Cardinality(OnBudget') <= Cardinality(OnBudget \ {x})
  BY <1>4, <1>5, FS_Subset
<1>7. Cardinality(OnBudget') \in Nat /\ Cardinality(OnBudget) \in Nat
  BY <1>6, FS_CardinalityType DEF BudgetCovers
<1>8. Cardinality(OnBudget') <= billed - 1 /\ billed - 1 \in 0 .. MaxAdvances + 1
  BY <1>5, <1>6, <1>7, BudgetAssumption DEF BudgetCovers
<1>9. \A d \in Call : pc'[d] = "idle" => pc[d] = "idle"
  BY DEF Alone, Worker
<1> QED BY <1>6, <1>8, <1>9, BudgetAssumption DEF BudgetCovers

\* A render that is paid for was claimed by its call, or is a pass's for a call that
\* is over.
LEMMA BudgetPays ==
  ASSUME TypedInv, OneAtWork, BudgetCovers, NEW w \in Call \cup Pass, Alone(w),
         pc[w] \in {"sent", "resent"}, pc'[w] \notin {"idle", "sent", "resent"},
         NEW m \in Model, bought' = [bought EXCEPT ![at[w]] = Append(@, m)],
         billed' = billed
  PROVE  BudgetCovers'
<1> USE CallAssumption DEF Pass, Worker
<1>1. at[w] \in Call /\ (w \in Call => at[w] = w)
      /\ (w \in Pass => pc[w] = "resent" /\ Holds(w))
  BY DEF TypedInv, PlaceOf, Holds, AfterJob, Rendering
<1>2. /\ bought' \in [Call -> Seq(Model)]
      /\ \A d \in Call \ {at[w]} : bought'[d] = bought[d]
      /\ Len(bought'[at[w]]) = Len(bought[at[w]]) + 1
  BY <1>1 DEF TypedInv, Typed
<1>3. CASE w \in Call
  <2>1. \A d \in Call : pc'[d] = "idle" => pc[d] = "idle" /\ bought'[d] = bought[d]
    BY <1>1, <1>2, <1>3 DEF Alone
  <2> Len(bought[w]) \in Nat
    BY <1>3, PurchasesAreNat
  <2>2. Purchases(w)' = Purchases(w) /\ Purchases(w) \in Nat /\ Active(w)
    <3>1. pc[w] \notin {"idle", "over"} /\ pc'[w] \notin {"sent", "resent"}
      OBVIOUS
    <3>2. Purchases(w) = Len(bought[w]) + 1
      BY DEF Purchases
    <3>3. Purchases(w)' = Len(bought[w]) + 1
      BY <1>1, <1>2, <1>3, <3>1 DEF Purchases
    <3> QED BY <3>1, <3>2, <3>3 DEF Active
  <2>3. \A d \in Call \ {w} : Purchases(d)' = Purchases(d) /\ Purchases(d) \in Nat
                                 /\ (Active(d)' <=> Active(d))
    BY <1>1, <1>2, <1>3, PurchasesAreNat DEF Purchases, Active, Alone
  <2> QED BY <1>2, <2>1, <2>2, <2>3, BudgetRests
<1>4. CASE w \in Pass
  <2>1. pc[at[w]] \notin BeforeJob \cup AfterJob
    BY <1>1, <1>4 DEF OneAtWork
  <2>2. pc[at[w]] = "over"
    BY <1>1, <2>1 DEF TypedInv, PlaceOf
  <2>3. \A d \in Call : pc'[d] = pc[d]
    BY <1>4 DEF Alone
  <2>4. \A d \in Call : pc'[d] = "idle" => pc[d] = "idle" /\ bought'[d] = bought[d]
    BY <1>2, <2>2, <2>3
  <2>5. ASSUME NEW d \in Call, Active(d)'
        PROVE  Active(d) /\ Purchases(d)' <= Purchases(d)
    <3>1. Active(d) /\ d # at[w]
      BY <2>2, <2>3, <2>5 DEF Active
    <3> QED BY <1>2, <2>3, <3>1, PurchasesAreNat DEF Purchases
  <2> QED BY <1>2, <2>4, <2>5, BudgetRests
<1> QED BY <1>3, <1>4

\* Nothing is bought at the start.
LEMMA BudgetInit == Init => BudgetCovers
<1> SUFFICES ASSUME Init PROVE BudgetCovers
  OBVIOUS
<1>1. \A c \in Call : ~Active(c) /\ bought[c] = <<>>
  BY DEF Init, Active, Worker
<1>2. OnBudget = {}
  BY <1>1, OnBudgetHas
<1> QED BY <1>1, <1>2, FS_EmptySet, BudgetAssumption DEF Init, BudgetCovers

\* A step that loses its save buys nothing.
LEMMA BudgetLost ==
  ASSUME TypedInv, BudgetCovers, NEW w \in Worker, LostEffect(w)
  PROVE  BudgetCovers'
<1>1. Alone(w) /\ bought' = bought /\ billed' = billed /\ Holds(w)
  BY DEF LostEffect, LostSave, LeaveEffect, Moves
<1>2. w \in Call => Active(w) /\ pc'[w] \notin {"idle", "sent", "resent"}
  BY <1>1 DEF LostEffect, LeaveEffect, Moves, Active, Holds
<1> QED BY <1>1, <1>2, BudgetRestsAlone

\* No step buys beyond the budget.
LEMMA BudgetStep == TypedInv /\ OneAtWork /\ BudgetCovers /\ [Next]_vars => BudgetCovers'
<1> SUFFICES ASSUME TypedInv, OneAtWork, BudgetCovers, [Next]_vars PROVE BudgetCovers'
  OBVIOUS
<1>0. ASSUME NEW w, w \in Call \/ w \in Pass \/ w \in Place, LostEffect(w) PROVE BudgetCovers'
  BY <1>0, BudgetLost DEF Pass, Worker
<1>1. ASSUME NEW c \in Call, Ask(c) PROVE BudgetCovers'
  <2>1. Alone(c) /\ pc[c] = "idle" /\ pc'[c] = "walk" /\ bought' = bought
    BY <1>1, AskDoes DEF Moves
  <2>2. \A d \in Call : pc'[d] = "idle" => pc[d] = "idle" /\ bought'[d] = bought[d]
    BY <2>1 DEF Alone, Worker
  <2>3. Purchases(c)' = 0
    BY <2>1 DEF Purchases, BudgetCovers
  <2>4. \A d \in Call \ {c} : (Active(d)' <=> Active(d)) /\ Purchases(d)' = Purchases(d)
    BY <2>1 DEF Alone, Active, Purchases, Worker
  <2>5. CASE billed' = billed
    <3>1. bought' \in [Call -> Seq(Model)]
      BY <2>1 DEF TypedInv, Typed
    <3>2. \A d \in Call : Active(d)' => Purchases(d)' = 0
                                        \/ (Active(d) /\ Purchases(d)' <= Purchases(d))
      BY <2>3, <2>4, PurchasesAreNat
    <3> QED BY <2>2, <2>5, <3>1, <3>2, BudgetRests
  <2>6. CASE billed' = 0 /\ \A o \in Call : ~Active(o)
    BY <2>1, <2>2, <2>3, <2>4, <2>6, BudgetOpens
  <2> QED BY <1>1, <2>5, <2>6, AskDoes
<1>2. ASSUME NEW c \in Call, Walk(c) PROVE BudgetCovers'
  <2>1. Alone(c) /\ pc[c] = "walk" /\ bought' = bought
    BY <1>2, WalkDoes DEF Moves
  <2>2. CASE pc'[c] = "sent" /\ billed <= MaxAdvances /\ billed' = billed + 1
    BY <2>1, <2>2, BudgetClaims DEF Active
  <2>3. CASE pc'[c] = "spent" /\ billed' = billed
    BY <2>1, <2>3, BudgetRestsAlone DEF Worker, Active
  <2> QED BY <1>2, <2>2, <2>3, WalkDoes DEF Moves
<1>3. ASSUME NEW c \in Call, Refused(c, "sent", "walk") PROVE BudgetCovers'
  <2>1. /\ Alone(c) /\ pc[c] = "sent" /\ pc'[c] = "walk"
        /\ bought' = bought /\ billed' = billed - 1
    BY <1>3, RefusedDoes DEF Moves
  <2> QED BY <2>1, BudgetReturns
<1>4. ASSUME NEW c \in Call, Empty(c, "sent", "walk") PROVE BudgetCovers'
  <2>1. cand[c] \in Model
    BY <1>4 DEF Empty, TypedInv, ModelOf, Pass, Worker
  <2>2. /\ Alone(c) /\ pc[c] = "sent" /\ pc'[c] \in {"walk"} /\ billed' = billed
        /\ bought' = [bought EXCEPT ![at[c]] = Append(@, cand[c])]
    BY <1>4, EmptyDoes DEF Moves
  <2> QED BY <2>1, <2>2, BudgetPays
<1>5. ASSUME NEW c \in Call, Accepted(c, "sent", Carried(copy[c]), "made")
      PROVE  BudgetCovers'
  <2>1. cand[c] \in Model
    BY <1>5 DEF Accepted, TypedInv, ModelOf, Pass, Worker
  <2>2. /\ Alone(c) /\ pc[c] = "sent" /\ pc'[c] \in {"made"} /\ billed' = billed
        /\ bought' = [bought EXCEPT ![at[c]] = Append(@, cand[c])]
    BY <1>5, AcceptedDoes DEF Moves
  <2> QED BY <2>1, <2>2, BudgetPays
<1>6. ASSUME NEW c \in Call, Make(c), ~LostEffect(c) PROVE BudgetCovers'
  <2>1. Alone(c) /\ bought' = bought /\ billed' = billed
    BY <1>6, MakeDoes DEF LeaveEffect, Moves
  <2>2. c \in Call => Active(c) /\ pc'[c] \notin {"idle", "sent", "resent"}
    BY <1>6, MakeDoes, CallAssumption DEF LeaveEffect, Moves, BillEffect, Pass,
       Active
  <2> QED BY <2>1, <2>2, BudgetRestsAlone DEF Pass, Worker
<1>7. ASSUME NEW c \in Call, WalkOver(c), ~LostEffect(c) PROVE BudgetCovers'
  <2>1. Alone(c) /\ bought' = bought /\ billed' = billed
    BY <1>7, WalkOverDoes DEF LeaveEffect, Moves
  <2>2. c \in Call => Active(c) /\ pc'[c] \notin {"idle", "sent", "resent"}
    BY <1>7, WalkOverDoes, CallAssumption DEF LeaveEffect, Moves, BillEffect, Pass,
       Active
  <2> QED BY <2>1, <2>2, BudgetRestsAlone DEF Pass, Worker
<1>8. ASSUME NEW p \in Pass, Open(p) PROVE BudgetCovers'
  <2>1. Alone(p) /\ bought' = bought
    BY <1>8, OpenDoes DEF Moves
  <2>2. \A d \in Call : pc'[d] = pc[d]
    BY <2>1, CallAssumption DEF Alone, Pass, Worker
  <2>3. CASE billed' = billed
    BY <2>1, <2>3, BudgetRestsAlone, CallAssumption DEF Pass, Worker
  <2>4. CASE billed' = 0 /\ \A o \in Call : ~Active(o)
    BY <2>1, <2>2, <2>4, BudgetOpens DEF Active
  <2> QED BY <1>8, <2>3, <2>4, OpenDoes
<1>9. ASSUME NEW p \in Pass, NEW j \in Call, Take(p, j) PROVE BudgetCovers'
  <2>1. Alone(p) /\ bought' = bought /\ billed' = billed
    BY <1>9, TakeDoes DEF LeaveEffect, Moves
  <2>2. p \in Call => Active(p) /\ pc'[p] \notin {"idle", "sent", "resent"}
    BY <1>9, TakeDoes, CallAssumption DEF LeaveEffect, Moves, BillEffect, Pass,
       Active
  <2> QED BY <2>1, <2>2, BudgetRestsAlone DEF Pass, Worker
<1>10. ASSUME NEW p \in Pass, Enter(p) PROVE BudgetCovers'
  <2>1. Alone(p) /\ bought' = bought /\ billed' = billed
    BY <1>10, EnterDoes DEF LeaveEffect, Moves
  <2>2. p \in Call => Active(p) /\ pc'[p] \notin {"idle", "sent", "resent"}
    BY <1>10, EnterDoes, CallAssumption DEF LeaveEffect, Moves, BillEffect, Pass,
       Active
  <2> QED BY <2>1, <2>2, BudgetRestsAlone DEF Pass, Worker
<1>11. ASSUME NEW p \in Pass, NotServing(p) PROVE BudgetCovers'
  <2>1. Alone(p) /\ bought' = bought /\ billed' = billed
    BY <1>11, NotServingDoes DEF LeaveEffect, Moves
  <2>2. p \in Call => Active(p) /\ pc'[p] \notin {"idle", "sent", "resent"}
    BY <1>11, NotServingDoes, CallAssumption DEF LeaveEffect, Moves, BillEffect,
       Pass, Active
  <2> QED BY <2>1, <2>2, BudgetRestsAlone DEF Pass, Worker
<1>12. ASSUME NEW p \in Pass, Progress(p), ~LostEffect(p) PROVE BudgetCovers'
  <2>1. Alone(p) /\ bought' = bought /\ billed' = billed
    BY <1>12, ProgressDoes DEF LeaveEffect, Moves
  <2>2. p \in Call => Active(p) /\ pc'[p] \notin {"idle", "sent", "resent"}
    BY <1>12, ProgressDoes, CallAssumption DEF LeaveEffect, Moves, BillEffect, Pass,
       Active
  <2> QED BY <2>1, <2>2, BudgetRestsAlone DEF Pass, Worker
<1>13. ASSUME NEW p \in Pass, TimedOut(p) PROVE BudgetCovers'
  <2>1. Alone(p) /\ bought' = bought /\ billed' = billed
    BY <1>13, TimedOutDoes DEF LeaveEffect, Moves
  <2>2. p \in Call => Active(p) /\ pc'[p] \notin {"idle", "sent", "resent"}
    BY <1>13, TimedOutDoes, CallAssumption DEF LeaveEffect, Moves, BillEffect, Pass,
       Active
  <2> QED BY <2>1, <2>2, BudgetRestsAlone DEF Pass, Worker
<1>14. ASSUME NEW p \in Pass, PollFailed(p) PROVE BudgetCovers'
  <2>1. Alone(p) /\ bought' = bought /\ billed' = billed
    BY <1>14, PollFailedDoes DEF LeaveEffect, Moves
  <2>2. p \in Call => Active(p) /\ pc'[p] \notin {"idle", "sent", "resent"}
    BY <1>14, PollFailedDoes, CallAssumption DEF LeaveEffect, Moves, BillEffect,
       Pass, Active
  <2> QED BY <2>1, <2>2, BudgetRestsAlone DEF Pass, Worker
<1>15. ASSUME NEW p \in Pass, PollSucceeded(p) PROVE BudgetCovers'
  <2>1. Alone(p) /\ bought' = bought /\ billed' = billed
    BY <1>15, PollSucceededDoes DEF LeaveEffect, Moves
  <2>2. p \in Call => Active(p) /\ pc'[p] \notin {"idle", "sent", "resent"}
    BY <1>15, PollSucceededDoes, CallAssumption DEF LeaveEffect, Moves, BillEffect,
       Pass, Active
  <2> QED BY <2>1, <2>2, BudgetRestsAlone DEF Pass, Worker
<1>16. ASSUME NEW p \in Pass, DrawFails(p), ~LostEffect(p) PROVE BudgetCovers'
  <2>1. Alone(p) /\ bought' = bought /\ billed' = billed
    BY <1>16, DrawFailsDoes DEF LeaveEffect, Moves
  <2>2. p \in Call => Active(p) /\ pc'[p] \notin {"idle", "sent", "resent"}
    BY <1>16, DrawFailsDoes, CallAssumption DEF LeaveEffect, Moves, BillEffect, Pass,
       Active
  <2> QED BY <2>1, <2>2, BudgetRestsAlone DEF Pass, Worker
<1>17. ASSUME NEW w \in Call \cup Pass, Again(w) PROVE BudgetCovers'
  <2>1. Alone(w) /\ pc[w] = "again" /\ bought' = bought
    BY <1>17, AgainDoes DEF Moves
  <2>2. CASE w \in Call /\ pc'[w] = "resent"
    <3>1. billed <= MaxAdvances /\ billed' = billed + 1
      BY <1>17, <2>2, AgainDoes DEF Moves
    <3> QED BY <2>1, <2>2, <3>1, BudgetClaims DEF Active
  <2>3. CASE w \in Pass \/ pc'[w] = "failing"
    <3>1. billed' = billed
      BY <1>17, <2>3, AgainDoes, CallAssumption DEF Moves, Pass
    <3> QED BY <2>1, <2>3, <3>1, BudgetRestsAlone, CallAssumption DEF Pass, Worker, Active
  <2> QED BY <1>17, <2>2, <2>3, AgainDoes DEF Moves
<1>18. ASSUME NEW w \in Call \cup Pass, Refused(w, "resent", "failing")
      PROVE  BudgetCovers'
  <2>1. /\ Alone(w) /\ pc[w] = "resent" /\ pc'[w] = "failing" /\ bought' = bought
        /\ billed' = IF w \in Call THEN billed - 1 ELSE billed
    BY <1>18, AgainRefusedDoes DEF Moves
  <2>2. CASE w \in Call
    BY <2>1, <2>2, BudgetReturns
  <2>3. CASE w \notin Call
    BY <2>1, <2>3, BudgetRestsAlone DEF Pass, Worker
  <2> QED BY <2>2, <2>3
<1>19. ASSUME NEW w \in Call \cup Pass, Empty(w, "resent", "failing")
      PROVE  BudgetCovers'
  <2>1. cand[w] \in Model
    BY <1>19 DEF Empty, TypedInv, ModelOf, Pass, Worker
  <2>2. /\ Alone(w) /\ pc[w] = "resent" /\ pc'[w] \in {"failing"} /\ billed' = billed
        /\ bought' = [bought EXCEPT ![at[w]] = Append(@, cand[w])]
    BY <1>19, AgainEmptyDoes DEF Moves
  <2> QED BY <2>1, <2>2, BudgetPays
<1>20. ASSUME NEW w \in Call \cup Pass, Accepted(w, "resent", copy[w], IF cand[w]
             \in Inline THEN "restore" ELSE "keep")
      PROVE  BudgetCovers'
  <2>1. cand[w] \in Model
    BY <1>20 DEF Accepted, TypedInv, ModelOf, Pass, Worker
  <2>2. /\ Alone(w) /\ pc[w] = "resent" /\ pc'[w] \in {"restore", "keep"} /\ billed' = billed
        /\ bought' = [bought EXCEPT ![at[w]] = Append(@, cand[w])]
    BY <1>20, AgainAcceptedDoes DEF Moves
  <2> QED BY <2>1, <2>2, BudgetPays
<1>21. ASSUME NEW w \in Call \cup Pass, Resume(w), ~LostEffect(w) PROVE BudgetCovers'
  <2>1. Alone(w) /\ bought' = bought /\ billed' = billed
    BY <1>21, ResumeDoes DEF LeaveEffect, Moves
  <2>2. w \in Call => Active(w) /\ pc'[w] \notin {"idle", "sent", "resent"}
    BY <1>21, ResumeDoes, CallAssumption DEF LeaveEffect, Moves, BillEffect, Pass,
       Active
  <2> QED BY <2>1, <2>2, BudgetRestsAlone DEF Pass, Worker
<1>22. ASSUME NEW w \in Call \cup Pass, FileGood(w) PROVE BudgetCovers'
  <2>1. Alone(w) /\ bought' = bought /\ billed' = billed
    BY <1>22, FileGoodDoes DEF LeaveEffect, Moves
  <2>2. w \in Call => Active(w) /\ pc'[w] \notin {"idle", "sent", "resent"}
    BY <1>22, FileGoodDoes, CallAssumption DEF LeaveEffect, Moves, BillEffect, Pass,
       Active
  <2> QED BY <2>1, <2>2, BudgetRestsAlone DEF Pass, Worker
<1>23. ASSUME NEW w \in Call \cup Pass, FileBad(w) PROVE BudgetCovers'
  <2>1. Alone(w) /\ bought' = bought /\ billed' = billed
    BY <1>23, FileBadDoes DEF LeaveEffect, Moves
  <2>2. w \in Call => Active(w) /\ pc'[w] \notin {"idle", "sent", "resent"}
    BY <1>23, FileBadDoes, CallAssumption DEF LeaveEffect, Moves, BillEffect, Pass,
       Active
  <2> QED BY <2>1, <2>2, BudgetRestsAlone DEF Pass, Worker
<1>24. ASSUME NEW w \in Call \cup Pass, Settle(w), ~LostEffect(w) PROVE BudgetCovers'
  <2>1. Alone(w) /\ bought' = bought /\ billed' = billed
    BY <1>24, SettleDoes DEF LeaveEffect, Moves
  <2>2. w \in Call => Active(w) /\ pc'[w] \notin {"idle", "sent", "resent"}
    BY <1>24, SettleDoes, CallAssumption DEF LeaveEffect, Moves, BillEffect, Pass,
       Active
  <2> QED BY <2>1, <2>2, BudgetRestsAlone DEF Pass, Worker
<1>25. ASSUME NEW w \in Call \cup Pass, Draw(w) PROVE BudgetCovers'
  <2>1. Alone(w) /\ bought' = bought /\ billed' = billed
    BY <1>25, DrawDoes DEF LeaveEffect, Moves
  <2>2. w \in Call => Active(w) /\ pc'[w] \notin {"idle", "sent", "resent"}
    BY <1>25, DrawDoes, CallAssumption DEF LeaveEffect, Moves, BillEffect, Pass,
       Active
  <2> QED BY <2>1, <2>2, BudgetRestsAlone DEF Pass, Worker
<1>26. ASSUME NEW q \in Place, NEW j \in Call, PlaceRead(q, j) PROVE BudgetCovers'
  <2>1. Alone(q) /\ bought' = bought /\ billed' = billed
    BY <1>26, PlaceReadDoes DEF LeaveEffect, Moves
  <2>2. q \in Call => Active(q) /\ pc'[q] \notin {"idle", "sent", "resent"}
    BY <1>26, PlaceReadDoes, CallAssumption DEF LeaveEffect, Moves, BillEffect, Pass,
       Active
  <2> QED BY <2>1, <2>2, BudgetRestsAlone DEF Pass, Worker
<1>27. ASSUME NEW q \in Place, PlaceDraw(q) PROVE BudgetCovers'
  <2>1. Alone(q) /\ bought' = bought /\ billed' = billed
    BY <1>27, PlaceDrawDoes DEF LeaveEffect, Moves
  <2>2. q \in Call => Active(q) /\ pc'[q] \notin {"idle", "sent", "resent"}
    BY <1>27, PlaceDrawDoes, CallAssumption DEF LeaveEffect, Moves, BillEffect, Pass,
       Active
  <2> QED BY <2>1, <2>2, BudgetRestsAlone DEF Pass, Worker
<1>28. ASSUME NEW q \in Place, PlaceSave(q), ~LostEffect(q) PROVE BudgetCovers'
  <2>1. Alone(q) /\ bought' = bought /\ billed' = billed
    BY <1>28, PlaceSaveDoes DEF LeaveEffect, Moves
  <2>2. q \in Call => Active(q) /\ pc'[q] \notin {"idle", "sent", "resent"}
    BY <1>28, PlaceSaveDoes, CallAssumption DEF LeaveEffect, Moves, BillEffect, Pass,
       Active
  <2> QED BY <2>1, <2>2, BudgetRestsAlone DEF Pass, Worker
<1>29. ASSUME NEW j \in Call, FallDue(j) PROVE BudgetCovers'
  BY <1>29 DEF FallDue, workVars, budgetVars, historyVars, BudgetCovers, OnBudget,
     Purchases, Active
<1>30. ASSUME NEW j \in Call, GrowOld(j) PROVE BudgetCovers'
  BY <1>30 DEF GrowOld, workVars, budgetVars, historyVars, BudgetCovers, OnBudget,
     Purchases, Active
<1>31. CASE PurgeMark
  BY <1>31 DEF PurgeMark, workVars, budgetVars, historyVars, BudgetCovers, OnBudget,
     Purchases, Active
<1>32. CASE PurgeDrop
  BY <1>32 DEF PurgeDrop, workVars, budgetVars, historyVars, BudgetCovers, OnBudget,
     Purchases, Active
<1>33. CASE PurgeAgent
  BY <1>33 DEF PurgeAgent, workVars, budgetVars, historyVars, BudgetCovers, OnBudget,
     Purchases, Active
<1>34. CASE SwitchOff
  BY <1>34 DEF SwitchOff, workVars, budgetVars, historyVars, BudgetCovers, OnBudget,
     Purchases, Active
<1>35. CASE SwitchOn
  BY <1>35 DEF SwitchOn, workVars, budgetVars, historyVars, BudgetCovers, OnBudget,
     Purchases, Active
<1>36. CASE Restart
  <2>1. bought' = bought /\ billed' = 0 /\ \A d \in Call : pc'[d] \in {"idle", "over"}
    BY <1>36 DEF Restart, Active, Pass, Worker, TypedInv, Typed, PlaceOf
  <2>2. \A d \in Call : pc'[d] = "idle" => pc[d] = "idle"
    BY <1>36, CallAssumption DEF Restart, Active, Pass, Worker
  <2> QED BY <2>1, <2>2, BudgetOpens DEF Active
<1>38. ASSUME NEW m \in Model, Disconnect(m) PROVE BudgetCovers'
  BY <1>38 DEF Disconnect, workVars, budgetVars, historyVars, BudgetCovers, OnBudget,
     Purchases, Active
<1>39. ASSUME NEW m \in Model, Connect(m) PROVE BudgetCovers'
  BY <1>39 DEF Connect, workVars, budgetVars, historyVars, BudgetCovers, OnBudget,
     Purchases, Active
<1>37. CASE UNCHANGED vars
  BY <1>37 DEF vars, BudgetCovers, OnBudget, Purchases, Active, workVars, budgetVars,
     historyVars
<1> HIDE DEF BudgetCovers
<1> QED
  BY <1>0, <1>1, <1>2, <1>3, <1>4, <1>5, <1>6, <1>7, <1>8, <1>9, <1>10, <1>11, <1>12,
     <1>13, <1>14, <1>15, <1>16, <1>17, <1>18, <1>19, <1>20, <1>21, <1>22, <1>23,
     <1>24, <1>25, <1>26, <1>27, <1>28, <1>29, <1>30, <1>31, <1>32, <1>33, <1>34,
     <1>35, <1>36, <1>37, <1>38, <1>39 DEF Next, CallStep, PassStep, RenderStep, PlaceStep, Reply,
     ReplyAgain

\* The parts of the invariant so far.
WorkInv == TypedInv /\ OneAtWork /\ BudgetCovers

\* They hold always.
THEOREM WorkInvariant == Spec => []WorkInv
<1>1. Init => WorkInv
  BY TypedInit, OneAtWorkInit, BudgetInit DEF WorkInv
<1>2. WorkInv /\ [Next]_vars => WorkInv'
  BY TypedStep, OneAtWorkStep, BudgetStep DEF WorkInv
<1> QED BY <1>1, <1>2, PTL DEF Spec

\* No submit is given back that was not claimed and none is claimed beyond the
\* ceiling (_MediaBudget), and every variable has its type.
THEOREM TypeCorrect == Spec => []TypeOK
<1>1. WorkInv => TypeOK
  BY DEF WorkInv, TypedInv, BudgetCovers, TypeOK
<1> QED BY <1>1, WorkInvariant, PTL
-----------------------------------------------------------------------------
(* What is not stale. *)

\* A step of one worker that writes no job, and forgets no other stale copy.
LEMMA FreshAlone ==
  ASSUME TypedInv, Fresh, NEW w \in Worker, Alone(w), rec' = rec,
         stale \subseteq stale' \cup {w}, FreshOf(w)'
  PROVE  Fresh'
<1>1. ASSUME NEW o \in Worker \ {w} PROVE FreshOf(o)'
  <2>1. FreshOf(o) /\ (o \notin stale' => o \notin stale)
    BY DEF Fresh
  <2>2. pc'[o] = pc[o] /\ at'[o] = at[o] /\ copy'[o] = copy[o]
    BY DEF Alone
  <2> QED BY <2>1, <2>2 DEF FreshOf, SameJob
<1> QED BY <1>1 DEF Fresh

\* A save makes every other copy of its job stale, and writes no other job.
LEMMA FreshSaved ==
  ASSUME TypedInv, Fresh, NEW w \in Worker, NEW c, Alone(w), SaveEffect(w, c), FreshOf(w)'
  PROVE  Fresh'
<1>1. ASSUME NEW o \in Worker \ {w}, o \notin stale' PROVE FreshOf(o)'
  <2>1. FreshOf(o) /\ o \notin stale /\ ~(Holds(o) /\ at[o] = at[w])
    BY <1>1 DEF Fresh, SaveEffect
  <2>2. pc'[o] = pc[o] /\ at'[o] = at[o] /\ copy'[o] = copy[o]
    BY DEF Alone
  <2>3. Holds(o) => rec'[at[o]] = rec[at[o]]
    BY <2>1 DEF SaveEffect, TypedInv, PlaceOf
  <2>4. ~Holds(o) => pc[o] \notin {"lock", "place", "name", "poll", "refail", "redraw"}
                                     \cup AfterJob
    BY DEF Holds, AfterJob, Rendering
  <2> QED BY <2>1, <2>2, <2>3, <2>4 DEF FreshOf, SameJob
<1>2. \A o \in Worker \ {w} : o \in stale' => FreshOf(o)'
  BY DEF FreshOf
<1> QED BY <1>1, <1>2 DEF Fresh

\* A worker that leaves holds no copy.
LEMMA FreshLeft ==
  ASSUME TypedInv, NEW w \in Worker, LeaveEffect(w)
  PROVE  FreshOf(w)'
BY DEF LeaveEffect, FreshOf, AfterJob, Rendering, Worker

\* A worker that goes on with its copy changes no element's name.
LEMMA FreshMoved ==
  ASSUME TypedInv, Fresh, NEW w \in Worker, rec' = rec, stale' = stale, at'[w] = at[w],
         pc[w] \in {"poll", "refail", "redraw"} \cup AfterJob,
         pc'[w] \notin {"lock", "place", "name"}, copy'[w].element = copy[w].element
  PROVE  FreshOf(w)'
BY DEF Fresh, FreshOf

\* Everything is fresh at the start.
LEMMA FreshInit == Init => Fresh
BY DEF Init, Fresh, FreshOf, AfterJob, Rendering

\* A save that is lost leaves its worker with a copy that is not the record's.
LEMMA FreshLost ==
  ASSUME TypedInv, Fresh, NEW w \in Worker, LostEffect(w)
  PROVE  Fresh'
<1>1. Alone(w) /\ rec' = rec /\ stale' = stale \cup {w}
  BY DEF LostEffect, LostSave, LeaveEffect, Moves
<1>2. FreshOf(w)'
  BY <1>1 DEF FreshOf
<1> QED BY <1>1, <1>2, FreshAlone

\* No step leaves a copy that is not the record's last state and is not stale.
LEMMA FreshStep == TypedInv /\ Fresh /\ [Next]_vars => Fresh'
<1> SUFFICES ASSUME TypedInv, Fresh, [Next]_vars PROVE Fresh'
  OBVIOUS
<1>0. ASSUME NEW w, w \in Call \/ w \in Pass \/ w \in Place, LostEffect(w) PROVE Fresh'
  BY <1>0, FreshLost DEF Pass, Worker
<1>1. ASSUME NEW c \in Call, Ask(c) PROVE Fresh'
  <2>1. Alone(c) /\ rec' = rec /\ stale' = stale
    BY <1>1, AskDoes DEF Moves, Alone
  <2>2. FreshOf(c)'
    BY <1>1, AskDoes DEF FreshOf, Moves, AfterJob, Rendering
  <2> QED BY <2>1, <2>2, FreshAlone DEF Worker, Pass
<1>2. ASSUME NEW c \in Call, Walk(c) PROVE Fresh'
  <2>1. Alone(c) /\ rec' = rec /\ stale' = stale
    BY <1>2, WalkDoes DEF Moves, Alone
  <2>2. FreshOf(c)'
    BY <1>2, WalkDoes DEF FreshOf, Moves, AfterJob, Rendering
  <2> QED BY <2>1, <2>2, FreshAlone DEF Worker, Pass
<1>3. ASSUME NEW c \in Call, Refused(c, "sent", "walk") PROVE Fresh'
  <2>1. Alone(c) /\ rec' = rec /\ stale' = stale
    BY <1>3, RefusedDoes DEF Moves, Alone
  <2>2. FreshOf(c)'
    BY <1>3, RefusedDoes DEF FreshOf, Moves, AfterJob, Rendering
  <2> QED BY <2>1, <2>2, FreshAlone DEF Worker, Pass
<1>4. ASSUME NEW c \in Call, Empty(c, "sent", "walk") PROVE Fresh'
  <2>1. Alone(c) /\ rec' = rec /\ stale' = stale
    BY <1>4, EmptyDoes DEF Moves, Alone
  <2>2. FreshOf(c)'
    BY <1>4, EmptyDoes DEF FreshOf, Moves, AfterJob, Rendering
  <2> QED BY <2>1, <2>2, FreshAlone DEF Worker, Pass
<1>5. ASSUME NEW c \in Call, Accepted(c, "sent", Carried(copy[c]), "made") PROVE Fresh'
  <2>1. Alone(c) /\ rec' = rec /\ stale' = stale
    BY <1>5, AcceptedDoes DEF Moves, Alone
  <2>2. FreshOf(c)'
    BY <1>5, AcceptedDoes DEF FreshOf, Moves, AfterJob, Rendering
  <2> QED BY <2>1, <2>2, FreshAlone DEF Worker, Pass
<1>6. ASSUME NEW c \in Call, Make(c), ~LostEffect(c) PROVE Fresh'
  <2>1. SaveEffect(c, copy[c])
    BY <1>6, MakeDoes
  <2>2. CASE LeaveEffect(c)
    <3>1. FreshOf(c)'
      BY <2>2, FreshLeft DEF Worker
    <3> QED BY <2>1, <2>2, <3>1, FreshSaved DEF LeaveEffect, Worker
  <2>3. CASE Moves(c, "made", "store", copy[c]) /\ at' = at
    <3>1. FreshOf(c)'
      BY <2>1, <2>3 DEF FreshOf, Moves, SaveEffect
    <3> QED BY <2>1, <2>3, <3>1, FreshSaved DEF Moves, Worker
  <2> QED BY <1>6, <2>2, <2>3, MakeDoes
<1>7. ASSUME NEW c \in Call, WalkOver(c), ~LostEffect(c) PROVE Fresh'
  <2>1. LeaveEffect(c)
    BY <1>7, WalkOverDoes
  <2>2. FreshOf(c)'
    BY <2>1, FreshLeft DEF Worker
  <2>3. CASE SaveEffect(c, Ended(Carried(copy[c]), "failed"))
    BY <2>1, <2>2, <2>3, FreshSaved DEF LeaveEffect, Worker
  <2>4. CASE UNCHANGED <<rec, stale>>
    BY <2>1, <2>2, <2>4, FreshAlone DEF LeaveEffect, Worker
  <2> QED BY <1>7, <2>3, <2>4, WalkOverDoes
<1>8. ASSUME NEW p \in Pass, Open(p) PROVE Fresh'
  <2>1. Alone(p) /\ rec' = rec /\ stale' = stale
    BY <1>8, OpenDoes DEF Moves, Alone
  <2>2. FreshOf(p)'
    BY <1>8, OpenDoes DEF FreshOf, Moves, AfterJob, Rendering
  <2> QED BY <2>1, <2>2, FreshAlone DEF Worker, Pass
<1>9. ASSUME NEW p \in Pass, NEW j \in Call, Take(p, j) PROVE Fresh'
  <2>1. CASE Moves(p, "open", "lock", rec[j]) /\ at'[p] = j /\ stale' = stale \ {p}
    <3>1. rec' = rec
      BY <1>9, TakeDoes
    <3>2. FreshOf(p)'
      BY <2>1, <3>1 DEF FreshOf, Moves, SameJob, AfterJob, Rendering
    <3> QED BY <2>1, <3>1, <3>2, FreshAlone DEF Moves, Worker, Pass
  <2>2. CASE Moves(p, "open", pc'[p], copy[p]) /\ pc'[p] \in {"idle", "open"} /\ stale' = stale
    <3>1. rec' = rec
      BY <1>9, TakeDoes
    <3>2. FreshOf(p)'
      BY <2>2 DEF FreshOf, AfterJob, Rendering
    <3> QED BY <2>2, <3>1, <3>2, FreshAlone DEF Moves, Worker, Pass
  <2> QED BY <1>9, <2>1, <2>2, TakeDoes
<1>10. ASSUME NEW p \in Pass, Enter(p) PROVE Fresh'
  <2>1. pc[p] = "lock" /\ rec' = rec
    BY <1>10, EnterDoes
  <2>2. CASE Moves(p, "lock", "poll", rec[at[p]]) /\ at' = at /\ stale' = stale \ {p}
    <3>1. FreshOf(p)'
      BY <2>1, <2>2 DEF FreshOf, Moves
    <3> QED BY <2>1, <2>2, <3>1, FreshAlone DEF Moves, Worker, Pass
  <2>3. CASE Moves(p, "lock", "poll", copy[p]) /\ at' = at /\ stale' = stale
    <3>1. FreshOf(p)'
      BY <2>1, <2>3 DEF Fresh, FreshOf, SameJob, Moves, Worker, Pass
    <3> QED BY <2>1, <2>3, <3>1, FreshAlone DEF Moves, Worker, Pass
  <2>4. CASE LeaveEffect(p) /\ stale' = stale \ {p}
    <3>1. FreshOf(p)'
      BY <2>4, FreshLeft DEF Worker, Pass
    <3> QED BY <2>1, <2>4, <3>1, FreshAlone DEF LeaveEffect, Worker, Pass
  <2> QED BY <1>10, <2>2, <2>3, <2>4, EnterDoes
<1>11. ASSUME NEW p \in Pass, NotServing(p) PROVE Fresh'
  <2>1. LeaveEffect(p) /\ rec' = rec /\ stale' = stale
    BY <1>11, NotServingDoes
  <2>2. FreshOf(p)'
    BY <2>1, FreshLeft DEF Worker, Pass
  <2> QED BY <2>1, <2>2, FreshAlone DEF LeaveEffect, Worker, Pass
<1>12. ASSUME NEW p \in Pass, Progress(p), ~LostEffect(p) PROVE Fresh'
  <2>1. LeaveEffect(p) /\ SaveEffect(p, DueNow(copy[p], FALSE))
    BY <1>12, ProgressDoes
  <2>2. FreshOf(p)'
    BY <2>1, FreshLeft DEF Worker, Pass
  <2> QED BY <2>1, <2>2, FreshSaved DEF LeaveEffect, Worker, Pass
<1>13. ASSUME NEW p \in Pass, TimedOut(p) PROVE Fresh'
  <2>1. copy[p] \in Record
    BY DEF TypedInv, Typed, Worker, Pass
  <2>2. copy[p].model \in Model
    BY <1>13 DEF TimedOut, TypedInv, ModelOf, AfterJob, Rendering, Worker, Pass
  <2>3. Banked(copy[p], copy[p].model).element = copy[p].element
    BY <2>1, <2>2, BankedJob
  <2>4. /\ Alone(p) /\ rec' = rec /\ stale' = stale /\ at'[p] = at[p]
        /\ pc[p] \in {"poll", "refail", "redraw"} \cup AfterJob
        /\ pc'[p] \notin {"lock", "place", "name"} /\ copy'[p].element = copy[p].element
    BY <1>13, <2>3, TimedOutDoes DEF Moves, BillEffect, AfterJob, Rendering
  <2>5. FreshOf(p)'
    BY <2>4, FreshMoved DEF Worker, Pass
  <2> QED BY <2>4, <2>5, FreshAlone DEF Worker, Pass
<1>14. ASSUME NEW p \in Pass, PollFailed(p) PROVE Fresh'
  <2>1. copy[p] \in Record
    BY DEF TypedInv, Typed, Worker, Pass
  <2>2. /\ Alone(p) /\ rec' = rec /\ stale' = stale /\ at'[p] = at[p]
        /\ pc[p] \in {"poll", "refail", "redraw"} \cup AfterJob
        /\ pc'[p] \notin {"lock", "place", "name"} /\ copy'[p].element = copy[p].element
    BY <1>14, PollFailedDoes DEF Moves, BillEffect, AfterJob, Rendering
  <2>3. FreshOf(p)'
    BY <2>2, FreshMoved DEF Worker, Pass
  <2> QED BY <2>2, <2>3, FreshAlone DEF Worker, Pass
<1>15. ASSUME NEW p \in Pass, PollSucceeded(p) PROVE Fresh'
  <2>1. copy[p] \in Record
    BY DEF TypedInv, Typed, Worker, Pass
  <2>2. /\ Alone(p) /\ rec' = rec /\ stale' = stale /\ at'[p] = at[p]
        /\ pc[p] \in {"poll", "refail", "redraw"} \cup AfterJob
        /\ pc'[p] \notin {"lock", "place", "name"} /\ copy'[p].element = copy[p].element
    BY <1>15, PollSucceededDoes DEF Moves, BillEffect, AfterJob, Rendering
  <2>3. FreshOf(p)'
    BY <2>2, FreshMoved DEF Worker, Pass
  <2> QED BY <2>2, <2>3, FreshAlone DEF Worker, Pass
<1>16. ASSUME NEW p \in Pass, DrawFails(p), ~LostEffect(p) PROVE Fresh'
  <2>1. copy[p] \in Record /\ pc[p] \in {"draw", "redraw"}
    BY <1>16, DrawFailsDoes DEF TypedInv, Typed, Worker, Pass
  <2>2. copy[p].model \in Model
    BY <2>1 DEF TypedInv, ModelOf, AfterJob, Rendering, Worker, Pass
  <2>3. CASE LeaveEffect(p) /\ SaveEffect(p, DueNow(copy[p], FALSE))
    <3>1. FreshOf(p)'
      BY <2>3, FreshLeft DEF Worker, Pass
    <3> QED BY <2>3, <3>1, FreshSaved DEF LeaveEffect, Worker, Pass
  <2>4. CASE /\ Moves(p, "draw", "refail", Banked(copy[p], copy[p].model)) /\ at' = at
             /\ UNCHANGED <<rec, stale>>
    <3>1. Banked(copy[p], copy[p].model).element = copy[p].element
      BY <2>1, <2>2, BankedJob
    <3>2. /\ pc[p] \in {"poll", "refail", "redraw"} \cup AfterJob
          /\ pc'[p] \notin {"lock", "place", "name"}
          /\ copy'[p].element = copy[p].element
      BY <2>4, <3>1 DEF Moves, AfterJob
    <3>3. FreshOf(p)'
      BY <2>4, <3>2, FreshMoved DEF Worker, Pass
    <3> QED BY <2>4, <3>3, FreshAlone DEF Moves, Worker, Pass
  <2>5. CASE LeaveEffect(p) /\ UNCHANGED <<rec, stale>>
    <3>1. FreshOf(p)'
      BY <2>5, FreshLeft DEF Worker, Pass
    <3> QED BY <2>5, <3>1, FreshAlone DEF LeaveEffect, Worker, Pass
  <2> QED BY <1>16, <2>3, <2>4, <2>5, DrawFailsDoes
<1>17. ASSUME NEW w \in Call \cup Pass, Again(w) PROVE Fresh'
  <2>1. copy[w] \in Record
    BY DEF TypedInv, Typed, Worker, Pass
  <2>2. /\ Alone(w) /\ rec' = rec /\ stale' = stale /\ at'[w] = at[w]
        /\ pc[w] \in {"poll", "refail", "redraw"} \cup AfterJob
        /\ pc'[w] \notin {"lock", "place", "name"} /\ copy'[w].element = copy[w].element
    BY <1>17, AgainDoes DEF Moves, BillEffect, AfterJob, Rendering
  <2>3. FreshOf(w)'
    BY <2>2, FreshMoved DEF Worker, Pass
  <2> QED BY <2>2, <2>3, FreshAlone DEF Worker, Pass
<1>18. ASSUME NEW w \in Call \cup Pass, Refused(w, "resent", "failing") PROVE Fresh'
  <2>1. copy[w] \in Record
    BY DEF TypedInv, Typed, Worker, Pass
  <2>2. cand[w] \in Model
    BY <1>18 DEF Refused, TypedInv, ModelOf, AfterJob, Rendering, Worker, Pass
  <2>3. Tried(copy[w], cand[w]).element = copy[w].element
    BY <2>1, <2>2, TriedJob
  <2>4. /\ Alone(w) /\ rec' = rec /\ stale' = stale /\ at'[w] = at[w]
        /\ pc[w] \in {"poll", "refail", "redraw"} \cup AfterJob
        /\ pc'[w] \notin {"lock", "place", "name"} /\ copy'[w].element = copy[w].element
    BY <1>18, <2>3, AgainRefusedDoes DEF Moves, BillEffect, AfterJob, Rendering
  <2>5. FreshOf(w)'
    BY <2>4, FreshMoved DEF Worker, Pass
  <2> QED BY <2>4, <2>5, FreshAlone DEF Worker, Pass
<1>19. ASSUME NEW w \in Call \cup Pass, Empty(w, "resent", "failing") PROVE Fresh'
  <2>1. copy[w] \in Record
    BY DEF TypedInv, Typed, Worker, Pass
  <2>2. cand[w] \in Model
    BY <1>19 DEF Empty, TypedInv, ModelOf, AfterJob, Rendering, Worker, Pass
  <2>3. Banked(copy[w], cand[w]).element = copy[w].element
    BY <2>1, <2>2, BankedJob
  <2>4. /\ Alone(w) /\ rec' = rec /\ stale' = stale /\ at'[w] = at[w]
        /\ pc[w] \in {"poll", "refail", "redraw"} \cup AfterJob
        /\ pc'[w] \notin {"lock", "place", "name"} /\ copy'[w].element = copy[w].element
    BY <1>19, <2>3, AgainEmptyDoes DEF Moves, BillEffect, AfterJob, Rendering
  <2>5. FreshOf(w)'
    BY <2>4, FreshMoved DEF Worker, Pass
  <2> QED BY <2>4, <2>5, FreshAlone DEF Worker, Pass
<1>20. ASSUME NEW w \in Call \cup Pass, Accepted(w, "resent", copy[w], IF cand[w]
             \in Inline THEN "restore" ELSE "keep")
      PROVE  Fresh'
  <2>1. copy[w] \in Record
    BY DEF TypedInv, Typed, Worker, Pass
  <2>2. cand[w] \in Model
    BY <1>20 DEF Accepted, TypedInv, ModelOf, AfterJob, Rendering, Worker, Pass
  <2>3. Taken(copy[w], cand[w]).element = copy[w].element
    BY <2>1, <2>2, TakenJob
  <2>4. /\ Alone(w) /\ rec' = rec /\ stale' = stale /\ at'[w] = at[w]
        /\ pc[w] \in {"poll", "refail", "redraw"} \cup AfterJob
        /\ pc'[w] \notin {"lock", "place", "name"} /\ copy'[w].element = copy[w].element
    BY <1>20, <2>3, AgainAcceptedDoes DEF Moves, BillEffect, AfterJob, Rendering
  <2>5. FreshOf(w)'
    BY <2>4, FreshMoved DEF Worker, Pass
  <2> QED BY <2>4, <2>5, FreshAlone DEF Worker, Pass
<1>21. ASSUME NEW w \in Call \cup Pass, Resume(w), ~LostEffect(w) PROVE Fresh'
  <2>1. LeaveEffect(w) /\ SaveEffect(w, copy[w])
    BY <1>21, ResumeDoes
  <2>2. FreshOf(w)'
    BY <2>1, FreshLeft DEF Worker, Pass
  <2> QED BY <2>1, <2>2, FreshSaved DEF LeaveEffect, Worker, Pass
<1>22. ASSUME NEW w \in Call \cup Pass, FileGood(w) PROVE Fresh'
  <2>1. copy[w] \in Record
    BY DEF TypedInv, Typed, Worker, Pass
  <2>2. Ended(copy[w], "succeeded").element = copy[w].element
    BY <2>1, EndedJob
  <2>3. /\ Alone(w) /\ rec' = rec /\ stale' = stale /\ at'[w] = at[w]
        /\ pc[w] \in {"poll", "refail", "redraw"} \cup AfterJob
        /\ pc'[w] \notin {"lock", "place", "name"} /\ copy'[w].element = copy[w].element
    BY <1>22, <2>2, FileGoodDoes DEF Moves, BillEffect, AfterJob, Rendering
  <2>4. FreshOf(w)'
    BY <2>3, FreshMoved DEF Worker, Pass
  <2> QED BY <2>3, <2>4, FreshAlone DEF Worker, Pass
<1>23. ASSUME NEW w \in Call \cup Pass, FileBad(w) PROVE Fresh'
  <2>1. copy[w] \in Record
    BY DEF TypedInv, Typed, Worker, Pass
  <2>2. copy[w].model \in Model
    BY <1>23 DEF FileBad, TypedInv, ModelOf, AfterJob, Rendering, Worker, Pass
  <2>3. Banked(copy[w], copy[w].model).element = copy[w].element
    BY <2>1, <2>2, BankedJob
  <2>4. /\ Alone(w) /\ rec' = rec /\ stale' = stale /\ at'[w] = at[w]
        /\ pc[w] \in {"poll", "refail", "redraw"} \cup AfterJob
        /\ pc'[w] \notin {"lock", "place", "name"} /\ copy'[w].element = copy[w].element
    BY <1>23, <2>3, FileBadDoes DEF Moves, BillEffect, AfterJob, Rendering
  <2>5. FreshOf(w)'
    BY <2>4, FreshMoved DEF Worker, Pass
  <2> QED BY <2>4, <2>5, FreshAlone DEF Worker, Pass
<1>24. ASSUME NEW w \in Call \cup Pass, Settle(w), ~LostEffect(w) PROVE Fresh'
  <2>1. copy[w] \in Record
    BY DEF TypedInv, Typed, Worker, Pass
  <2>2. Settled(w) \in Record /\ SaveEffect(w, Settled(w)) /\ at' = at /\ Alone(w)
    BY <1>24, SettleDoes DEF Moves
  <2>3. copy'[w].element = Settled(w).element
    <3>1. Marked(Settled(w), TRUE).element = Settled(w).element
      BY <2>2, MarkedJob
    <3> QED BY <1>24, <3>1, SettleDoes DEF Moves
  <2>4. pc'[w] \in {"draw", "redraw"}
    BY <1>24, SettleDoes DEF Moves
  <2>5. FreshOf(w)'
    BY <2>2, <2>3, <2>4 DEF FreshOf, SaveEffect
  <2> QED BY <2>2, <2>5, FreshSaved DEF Worker, Pass
<1>25. ASSUME NEW w \in Call \cup Pass, Draw(w) PROVE Fresh'
  <2>1. LeaveEffect(w) /\ rec' = rec /\ stale' = stale
    BY <1>25, DrawDoes
  <2>2. FreshOf(w)'
    BY <2>1, FreshLeft DEF Worker, Pass
  <2> QED BY <2>1, <2>2, FreshAlone DEF LeaveEffect, Worker, Pass
<1>26. ASSUME NEW q \in Place, NEW j \in Call, PlaceRead(q, j) PROVE Fresh'
  <2>1. /\ Alone(q) /\ pc'[q] = "place" /\ at'[q] = j /\ copy'[q] = rec[j]
        /\ rec' = rec /\ stale' = stale \ {q}
    BY <1>26, PlaceReadDoes DEF Moves
  <2>2. FreshOf(q)'
    BY <2>1 DEF FreshOf, SameJob, AfterJob, Rendering
  <2> QED BY <2>1, <2>2, FreshAlone DEF Worker
<1>27. ASSUME NEW q \in Place, PlaceDraw(q) PROVE Fresh'
  <2>1. /\ Alone(q) /\ pc[q] = "place" /\ pc'[q] = "name" /\ at' = at
        /\ copy'[q] = copy[q] /\ rec' = rec /\ stale' = stale
    BY <1>27, PlaceDrawDoes DEF Moves
  <2>2. FreshOf(q)'
    BY <2>1 DEF Fresh, FreshOf, SameJob, AfterJob, Rendering, Worker
  <2> QED BY <2>1, <2>2, FreshAlone DEF Worker
<1>28. ASSUME NEW q \in Place, PlaceSave(q), ~LostEffect(q) PROVE Fresh'
  <2>1. LeaveEffect(q) /\ SaveEffect(q, Named(copy[q]))
    BY <1>28, PlaceSaveDoes
  <2>2. FreshOf(q)'
    BY <2>1, FreshLeft DEF Worker, Pass
  <2> QED BY <2>1, <2>2, FreshSaved DEF LeaveEffect, Worker, Pass
<1>29. ASSUME NEW j \in Call, FallDue(j) PROVE Fresh'
  <2>1. /\ rec[j] \in Record /\ rec' = [rec EXCEPT ![j] = DueNow(rec[j], TRUE)]
        /\ UNCHANGED <<pc, at, copy, stale>>
    BY <1>29 DEF FallDue, TypedInv, Typed, workVars, historyVars
  <2>2. \A i \in Call : SameJob(rec[i], rec'[i])
    <3>1. SameJob(rec[j], DueNow(rec[j], TRUE))
      BY <2>1, DueNowJob DEF SameJob
    <3>2. rec'[j] = DueNow(rec[j], TRUE) /\ \A i \in Call \ {j} : rec'[i] = rec[i]
      BY <2>1 DEF TypedInv, Typed
    <3> QED BY <3>1, <3>2 DEF SameJob
  <2>3. ASSUME NEW w \in Worker PROVE FreshOf(w)'
    <3>1. FreshOf(w) /\ (Holds(w) => at[w] \in Call)
      BY DEF Fresh, TypedInv, PlaceOf
    <3>2. Holds(w) => SameJob(rec[at[w]], rec'[at[w]])
      BY <2>2, <3>1
    <3>3. ~Holds(w) => pc[w] \notin {"lock", "place", "name", "poll", "refail", "redraw"}
                                       \cup AfterJob
      BY DEF Holds, AfterJob, Rendering
    <3> QED BY <2>1, <3>1, <3>2, <3>3 DEF FreshOf, SameJob
  <2> QED BY <2>3 DEF Fresh
<1>30. ASSUME NEW j \in Call, GrowOld(j) PROVE Fresh'
  BY <1>30 DEF GrowOld, Fresh, FreshOf, SameJob, jobVars, workVars, historyVars
<1>31. CASE PurgeMark
  <2>1. /\ UNCHANGED <<pc, at, copy>> /\ \A w \in Worker : Holds(w) => w \in stale'
    BY <1>31 DEF PurgeMark, workVars
  <2>2. ASSUME NEW w \in Worker PROVE FreshOf(w)'
    BY <2>1 DEF FreshOf, Holds, AfterJob, Rendering
  <2> QED BY <2>2 DEF Fresh
<1>32. CASE PurgeDrop
  <2>1. /\ UNCHANGED <<pc, at, copy>> /\ \A w \in Worker : Holds(w) => w \in stale'
    BY <1>32 DEF PurgeDrop, workVars
  <2>2. ASSUME NEW w \in Worker PROVE FreshOf(w)'
    BY <2>1 DEF FreshOf, Holds, AfterJob, Rendering
  <2> QED BY <2>2 DEF Fresh
<1>33. CASE PurgeAgent
  <2>1. /\ UNCHANGED <<pc, at, copy>> /\ stale \subseteq stale'
        /\ \A w \in Worker : Holds(w) /\ at[w] \in Call /\ w \notin stale' =>
             rec'[at[w]] = rec[at[w]]
    BY <1>33 DEF PurgeAgent, workVars
  <2>2. ASSUME NEW w \in Worker PROVE FreshOf(w)'
    <3>1. FreshOf(w) /\ (Holds(w) => at[w] \in Call)
      BY DEF Fresh, TypedInv, PlaceOf
    <3>2. ~Holds(w) => pc[w] \notin {"lock", "place", "name", "poll", "refail", "redraw"}
                                       \cup AfterJob
      BY DEF Holds, AfterJob, Rendering
    <3> QED BY <2>1, <3>1, <3>2 DEF FreshOf, SameJob
  <2> QED BY <2>2 DEF Fresh
<1>34. CASE SwitchOff
  BY <1>34 DEF SwitchOff, Fresh, FreshOf, SameJob, jobVars, workVars, historyVars
<1>35. CASE SwitchOn
  BY <1>35 DEF SwitchOn, Fresh, FreshOf, SameJob, jobVars, workVars, historyVars
<1>36. CASE Restart
  <2>1. \A w \in Worker : pc'[w] \in {"idle", "over"}
    BY <1>36 DEF Restart, Active
  <2>2. ASSUME NEW w \in Worker PROVE FreshOf(w)'
    BY <2>1 DEF FreshOf, AfterJob, Rendering
  <2> QED BY <2>2 DEF Fresh
<1>38. ASSUME NEW m \in Model, Disconnect(m) PROVE Fresh'
  BY <1>38 DEF Disconnect, Fresh, FreshOf, SameJob, jobVars, workVars, historyVars
<1>39. ASSUME NEW m \in Model, Connect(m) PROVE Fresh'
  BY <1>39 DEF Connect, Fresh, FreshOf, SameJob, jobVars, workVars, historyVars
<1>37. CASE UNCHANGED vars
  BY <1>37 DEF vars, Fresh, FreshOf, SameJob, jobVars, workVars, historyVars
<1> HIDE DEF Fresh
<1> QED
  BY <1>0, <1>1, <1>2, <1>3, <1>4, <1>5, <1>6, <1>7, <1>8, <1>9, <1>10, <1>11, <1>12,
     <1>13, <1>14, <1>15, <1>16, <1>17, <1>18, <1>19, <1>20, <1>21, <1>22, <1>23,
     <1>24, <1>25, <1>26, <1>27, <1>28, <1>29, <1>30, <1>31, <1>32, <1>33, <1>34,
     <1>35, <1>36, <1>37, <1>38, <1>39 DEF Next, CallStep, PassStep, RenderStep, PlaceStep, Reply,
     ReplyAgain
-----------------------------------------------------------------------------
(* The books of a job. *)

\* A job has one worker but for the passes that wait for it, in each state and in the next.
LEMMA OneWorksOn ==
  /\ TypedInv /\ OneAtWork =>
       \A w, o \in AtWork, j \in Call : WorksOn(w, j) /\ WorksOn(o, j) => w = o
  /\ TypedInv' /\ OneAtWork' =>
       \A w, o \in AtWork, j \in Call : WorksOn(w, j)' /\ WorksOn(o, j)' => w = o
<1> USE CallAssumption DEF AtWork, WorksOn, Pass, Worker, BankingAt, PendingAt, OverAt
<1>1. ASSUME TypedInv, OneAtWork, NEW w \in AtWork, NEW o \in AtWork, NEW j \in Call,
             WorksOn(w, j), WorksOn(o, j)
      PROVE  w = o
  <2>1. PlaceOf(w) /\ PlaceOf(o) /\ Holds(w) /\ Holds(o)
    BY <1>1 DEF TypedInv, Holds
  <2>2. CASE w \in Call /\ o \in Call
    BY <1>1, <2>1, <2>2 DEF PlaceOf
  <2>3. CASE w \in Pass /\ o \in Pass
    BY <1>1, <2>3 DEF OneAtWork, Locked
  <2>4. CASE w \in Call /\ o \in Pass
    BY <1>1, <2>1, <2>4 DEF OneAtWork, PlaceOf, BeforeJob, AfterJob, Rendering
  <2>5. CASE w \in Pass /\ o \in Call
    BY <1>1, <2>1, <2>5 DEF OneAtWork, PlaceOf, BeforeJob, AfterJob, Rendering
  <2> QED BY <2>2, <2>3, <2>4, <2>5
<1>2. ASSUME TypedInv', OneAtWork', NEW w \in AtWork, NEW o \in AtWork, NEW j \in Call,
             WorksOn(w, j)', WorksOn(o, j)'
      PROVE  w = o
  <2>1. PlaceOf(w)' /\ PlaceOf(o)' /\ Holds(w)' /\ Holds(o)'
    BY <1>2 DEF TypedInv, Holds
  <2>2. CASE w \in Call /\ o \in Call
    BY <1>2, <2>1, <2>2 DEF PlaceOf
  <2>3. CASE w \in Pass /\ o \in Pass
    BY <1>2, <2>3 DEF OneAtWork, Locked
  <2>4. CASE w \in Call /\ o \in Pass
    BY <1>2, <2>1, <2>4 DEF OneAtWork, PlaceOf, BeforeJob, AfterJob, Rendering
  <2>5. CASE w \in Pass /\ o \in Call
    BY <1>2, <2>1, <2>5 DEF OneAtWork, PlaceOf, BeforeJob, AfterJob, Rendering
  <2> QED BY <2>2, <2>3, <2>4, <2>5
<1> QED BY <1>1, <1>2

\* What a render paid for adds to what was bought.
LEMMA AppendBuys ==
  ASSUME NEW s \in Seq(Model), NEW m \in Model, NEW S, \A i \in DOMAIN s : s[i] \in S
  PROVE  /\ Len(Append(s, m)) = Len(s) + 1
         /\ \A i \in DOMAIN Append(s, m) : Append(s, m)[i] \in S \cup {m}
         /\ m \notin S /\ (\A i, k \in DOMAIN s : s[i] = s[k] => i = k)
            => \A i, k \in DOMAIN Append(s, m) : Append(s, m)[i] = Append(s, m)[k] => i = k
OBVIOUS

\* What is paid for at w, with m not yet tried.
LEMMA PaidBooks ==
  ASSUME TypedInv, NEW j \in Call, NEW m \in Model, NEW S, m \notin S,
         bought' = [bought EXCEPT ![j] = Append(@, m)], Bought(j, S), InBounds(j)
  PROVE  /\ Len(bought'[j]) = Len(bought[j]) + 1 /\ Len(bought[j]) \in Nat
         /\ \A i \in DOMAIN bought'[j] : bought'[j][i] \in S \cup {m}
         /\ \A i, k \in DOMAIN bought'[j] : bought'[j][i] = bought'[j][k] => i = k
         /\ \A i \in Call \ {j} : bought'[i] = bought[i]
<1>1. bought \in [Call -> Seq(Model)] /\ bought[j] \in Seq(Model)
  BY DEF TypedInv, Typed
<1>2. bought'[j] = Append(bought[j], m) /\ \A i \in Call \ {j} : bought'[i] = bought[i]
  BY <1>1
<1>3. /\ \A i \in DOMAIN bought[j] : bought[j][i] \in S
      /\ \A i, k \in DOMAIN bought[j] : bought[j][i] = bought[j][k] => i = k
  BY DEF Bought, InBounds
<1> QED BY <1>1, <1>2, <1>3, AppendBuys

\* What of a record the books are about.
SameBooks(r, q) ==
  /\ r.status = q.status /\ r.model = q.model /\ r.advances = q.advances
  /\ r.banked = q.banked /\ r.tried = q.tried /\ r.metered = q.metered

\* The books of a job stay as they are when it, its history and its worker do.
LEMMA BooksApart ==
  ASSUME NEW j \in Call, BooksOf(j), SameBooks(rec'[j], rec[j]),
         bought'[j] = bought[j], reported'[j] = reported[j], landed'[j] = landed[j],
         \A o \in AtWork : WorksOn(o, j)' <=> WorksOn(o, j),
         \A o \in AtWork : WorksOn(o, j) =>
           /\ pc'[o] = pc[o] /\ copy'[o] = copy[o] /\ cand'[o] = cand[o]
           /\ o \in stale => o \in stale'
  PROVE  BooksOf(j)'
<1>1. \A pcs \in {{"poll"}, OverAt} : Worked(j, pcs)' <=> Worked(j, pcs)
  BY DEF Worked
<1>2. Worked(j, {"poll"})' <=> Worked(j, {"poll"})
  BY DEF Worked
<1>3. Worked(j, OverAt)' <=> Worked(j, OverAt)
  BY DEF Worked, OverAt
<1>4. InBounds(j)'
  BY DEF BooksOf, InBounds
<1>5. Pending(j, rec[j]) => Pending(j, rec[j])'
  BY DEF Pending, Bought, SameBooks
<1>6. RecordBooks(j)'
  BY <1>2, <1>3, <1>5 DEF BooksOf, RecordBooks, SameBooks, Terminal
<1>7. ASSUME NEW o \in AtWork, WorksOn(o, j)' PROVE HolderBooks(o, j)'
  <2>1. HolderBooks(o, j) /\ pc'[o] = pc[o] /\ copy'[o] = copy[o] /\ cand'[o] = cand[o]
        /\ (o \in stale => o \in stale')
    BY <1>7 DEF BooksOf
  <2>2. (Pending(j, copy[o]) => Pending(j, copy[o])')
        /\ (Banking(j, copy[o]) => Banking(j, copy[o])')
    BY <2>1 DEF Pending, Banking, Bought
  <2> QED BY <2>1, <2>2 DEF HolderBooks, SameBooks, Terminal
<1> QED BY <1>4, <1>6, <1>7 DEF BooksOf

\* A step of a worker at work keeps the books if it keeps those of its job.
LEMMA BooksKept ==
  ASSUME TypedInv, OneAtWork, Books, NEW w \in AtWork, Holds(w), Alone(w),
         torn \subseteq torn', stale \subseteq stale' \cup {w},
         w \in Call => pc'[w] # "idle", \A i \in Call \ {at[w]} : ~WorksOn(w, i)',
         \A i \in Call \ {at[w]} :
           /\ rec'[i] = rec[i] /\ bought'[i] = bought[i]
           /\ reported'[i] = reported[i] /\ landed'[i] = landed[i],
         \A j \in Call \ torn' : j = at[w] => BooksOf(j)'
  PROVE  Books'
<1> USE CallAssumption DEF AtWork, Pass, Worker
<1>1. ASSUME NEW i \in Call \ torn', i # at[w] PROVE BooksOf(i)'
  <2>1. BooksOf(i)
    BY DEF Books
  <2>2. \A o \in AtWork : WorksOn(o, i)' <=> WorksOn(o, i)
    BY <1>1 DEF WorksOn, Alone
  <2>3. \A o \in AtWork : WorksOn(o, i) =>
          /\ pc'[o] = pc[o] /\ copy'[o] = copy[o] /\ cand'[o] = cand[o]
          /\ o \in stale => o \in stale'
    BY <1>1 DEF WorksOn, Alone
  <2>4. SameBooks(rec'[i], rec[i])
    BY <1>1 DEF SameBooks
  <2> QED BY <1>1, <2>1, <2>2, <2>3, <2>4, BooksApart
<1>2. ASSUME NEW d \in Call, pc'[d] = "idle"
      PROVE  reported'[d] = 0 /\ landed'[d] = 0 /\ copy'[d] = Blank
  <2>1. d # w /\ pc[d] = "idle" /\ copy'[d] = copy[d]
    BY <1>2 DEF Alone
  <2>2. d # at[w]
    BY <2>1 DEF OneAtWork, BeforeJob, TypedInv, PlaceOf
  <2> QED BY <2>1, <2>2 DEF Books
<1> QED BY <1>1, <1>2 DEF Books

\* A step of a pass that only waits, or of a place, keeps the books if it keeps what
\* they are about.
LEMMA BooksUnmoved ==
  ASSUME TypedInv, Books, NEW w \in Pass \cup Place, Alone(w),
         torn \subseteq torn', stale \subseteq stale' \cup {w},
         w \in Pass => \A i \in Call : ~WorksOn(w, i) /\ ~WorksOn(w, i)',
         \A i \in Call \ torn' : SameBooks(rec'[i], rec[i]) /\ reported'[i] = reported[i],
         \A i \in Call : pc[i] = "idle" => reported'[i] = reported[i],
         bought' = bought, landed' = landed
  PROVE  Books'
<1> USE CallAssumption DEF AtWork, Pass, Worker
<1>1. ASSUME NEW i \in Call \ torn' PROVE BooksOf(i)'
  <2>1. BooksOf(i)
    BY DEF Books
  <2>2. \A o \in AtWork : WorksOn(o, i)' <=> WorksOn(o, i)
    BY DEF WorksOn, Alone
  <2>3. \A o \in AtWork : WorksOn(o, i) =>
          /\ pc'[o] = pc[o] /\ copy'[o] = copy[o] /\ cand'[o] = cand[o]
          /\ o \in stale => o \in stale'
    BY DEF WorksOn, Alone
  <2> QED BY <2>1, <2>2, <2>3, BooksApart
<1>2. ASSUME NEW d \in Call, pc'[d] = "idle"
      PROVE  reported'[d] = 0 /\ landed'[d] = 0 /\ copy'[d] = Blank
  BY <1>2 DEF Alone, Books
<1> QED BY <1>1, <1>2 DEF Books

\* A step of the world keeps the books if it leaves a job's record or ends it with
\* neither outcome.
LEMMA BooksWorld ==
  ASSUME TypedInv, Books, UNCHANGED <<pc, at, copy, cand, bought, landed, reported, torn>>,
         stale \subseteq stale',
         \A i \in Call : SameBooks(rec'[i], rec[i])
           \/ (rec'[i].status \in {"absent", "deleted"} /\ (rec'[i].metered => rec[i].metered))
  PROVE  Books'
<1>1. ASSUME NEW i \in Call \ torn PROVE BooksOf(i)'
  <2>1. BooksOf(i)
    BY DEF Books
  <2>2. \A o \in AtWork : WorksOn(o, i)' <=> WorksOn(o, i)
    BY DEF WorksOn
  <2>3. CASE SameBooks(rec'[i], rec[i])
    BY <2>1, <2>2, <2>3, BooksApart
  <2>4. CASE rec'[i].status \in {"absent", "deleted"} /\ (rec'[i].metered => rec[i].metered)
    <3>1. RecordBooks(i)'
      BY <2>4 DEF RecordBooks, Terminal
    <3>2. InBounds(i)'
      BY <2>1 DEF BooksOf, InBounds
    <3>3. ASSUME NEW o \in AtWork, WorksOn(o, i)' PROVE HolderBooks(o, i)'
      <4>1. HolderBooks(o, i)
        BY <2>1, <2>2, <3>3 DEF BooksOf
      <4>2. (Pending(i, copy[o]) => Pending(i, copy[o])')
            /\ (Banking(i, copy[o]) => Banking(i, copy[o])')
        BY DEF Pending, Banking, Bought
      <4> QED BY <2>4, <4>1, <4>2 DEF HolderBooks, Terminal
    <3> QED BY <3>1, <3>2, <3>3 DEF BooksOf
  <2> QED BY <2>3, <2>4
<1>2. \A d \in Call : pc'[d] = "idle" => reported'[d] = 0 /\ landed'[d] = 0 /\ copy'[d] = Blank
  BY DEF Books
<1> QED BY <1>1, <1>2 DEF Books

\* A worker that goes on with its render, without a save, keeps the books if it keeps
\* its own.
LEMMA BooksAdvance ==
  ASSUME TypedInv, OneAtWork, Books, NEW w \in AtWork, NEW j \in Call, WorksOn(w, j),
         Alone(w), at'[w] = at[w], rec' = rec, torn' = torn, stale' = stale,
         reported' = reported, pc[w] \notin OverAt,
         pc'[w] \in (BankingAt \cup PendingAt) \ {"poll"},
         \A i \in Call \ {j} : bought'[i] = bought[i] /\ landed'[i] = landed[i],
         j \notin torn => HolderBooks(w, j)' /\ InBounds(j)'
  PROVE  Books'
<1>1. Holds(w) /\ at[w] = j
  BY DEF WorksOn, Holds, BankingAt, PendingAt, OverAt
<1>2. ASSUME j \notin torn PROVE BooksOf(j)'
  <2>1. WorksOn(w, j)' /\ pc'[w] # "poll" /\ pc'[w] \notin OverAt
    BY DEF WorksOn, BankingAt, PendingAt, OverAt
  <2>2. \A o \in AtWork \ {w} : ~WorksOn(o, j)'
    BY OneWorksOn DEF WorksOn, Alone, AtWork, Worker
  <2>3. RecordBooks(j) /\ ~Terminal(rec[j])
    BY <1>2 DEF Books, BooksOf, RecordBooks, Worked
  <2>4. RecordBooks(j)'
    BY <2>1, <2>3 DEF RecordBooks, Worked, Terminal
  <2> QED BY <1>2, <2>2, <2>4 DEF BooksOf
<1>3. \A i \in Call \ {at[w]} : ~WorksOn(w, i)'
  BY <1>1 DEF WorksOn
<1>4. pc'[w] # "idle"
  BY DEF BankingAt, PendingAt
<1> QED BY <1>1, <1>2, <1>3, <1>4, BooksKept

\* A worker that leaves, having saved or not, keeps the books if the record says all.
LEMMA BooksLeft ==
  ASSUME TypedInv, OneAtWork, Books, NEW w \in AtWork, NEW j \in Call, WorksOn(w, j),
         LeaveEffect(w), torn \subseteq torn', stale \subseteq stale' \cup {w},
         bought' = bought, landed' = landed,
         \A i \in Call \ {j} : rec'[i] = rec[i] /\ reported'[i] = reported[i],
         j \notin torn' =>
           /\ rec'[j].status = "running" =>
                /\ ~rec'[j].metered /\ reported'[j] = 0
                /\ rec'[j].banked = rec'[j].advances /\ rec'[j].advances <= MaxAdvances
                /\ Pending(j, rec[j])' /\ landed[j] = 0
           /\ Terminal(rec'[j]) => rec'[j].metered /\ reported'[j] = Len(bought[j])
  PROVE  Books'
<1>1. Holds(w) /\ at[w] = j /\ Alone(w)
  BY DEF WorksOn, Holds, BankingAt, PendingAt, OverAt, LeaveEffect
<1>2. \A i \in Call : ~WorksOn(w, i)'
  BY CallAssumption DEF WorksOn, LeaveEffect, BankingAt, PendingAt, OverAt, AtWork, Pass
<1>3. ASSUME j \notin torn' PROVE BooksOf(j)'
  <2>1. \A o \in AtWork : ~WorksOn(o, j)'
    BY <1>1, <1>2, OneWorksOn DEF WorksOn, Alone, AtWork, Worker
  <2>2. RecordBooks(j)'
    BY <1>3, <2>1 DEF RecordBooks, Worked, Terminal
  <2>3. InBounds(j)'
    BY <1>3 DEF Books, BooksOf, InBounds
  <2> QED BY <2>1, <2>2, <2>3 DEF BooksOf
<1>4. w \in Call => pc'[w] # "idle"
  BY DEF LeaveEffect
<1> QED BY <1>1, <1>2, <1>3, <1>4, BooksKept

\* A call that submits to its first candidates can afford the render.
LEMMA CallAffords ==
  ASSUME TypedInv, BudgetCovers, NEW c \in Call, pc[c] = "sent"
  PROVE  Len(bought[c]) <= MaxAdvances
<1> DEFINE n == Len(bought[c]) + 1
           f == [i \in 1 .. n |-> <<c, i>>]
<1>1. n \in Nat /\ Purchases(c) = n /\ Active(c)
  <2>1. Len(bought[c]) \in Nat
    BY PurchasesAreNat
  <2> QED BY <2>1 DEF Purchases, Active
<1>2. f \in [1 .. n -> OnBudget]
  BY <1>1, OnBudgetHas
<1>3. f \in Injection(1 .. n, OnBudget)
  BY <1>2, Fun_IsInj
<1>4. Cardinality(1 .. n) <= Cardinality(OnBudget)
  BY <1>3, FS_Injection DEF BudgetCovers
<1>5. Cardinality(1 .. n) = n
  BY <1>1, FS_Interval
<1>6. Cardinality(OnBudget) \in Nat
  BY FS_CardinalityType DEF BudgetCovers
<1>7. n <= MaxAdvances + 1
  BY <1>1, <1>4, <1>5, <1>6, BudgetAssumption DEF BudgetCovers
<1>8. Len(bought[c]) \in Nat
  BY PurchasesAreNat
<1> QED BY <1>7, <1>8, BudgetAssumption

\* There is nothing to report for a job that is not recorded.
LEMMA NoRowUnreported == ~NoRow.metered
BY DEF NoRow, Blank

\* A failed render keeps the books.
LEMMA BooksBilled ==
  ASSUME TypedInv, OneAtWork, Books, NEW w \in AtWork, pc[w] \in {"poll", "store"},
         Alone(w), BillEffect(w), at' = at,
         UNCHANGED <<rec, torn, stale, reported, bought, landed>>
  PROVE  Books'
<1>1. /\ PlaceOf(w) /\ copy[w] \in Record
      /\ copy[w].banked \in Nat /\ copy[w].advances \in Nat
  BY Fields DEF TypedInv, Typed, AtWork, Worker, Pass
<1>2. PICK j \in Call : at[w] = j
  BY <1>1 DEF PlaceOf, Holds
<1>3. /\ WorksOn(w, j) /\ pc[w] \notin OverAt
      /\ pc'[w] \in (BankingAt \cup PendingAt) \ {"poll"}
  BY <1>2 DEF WorksOn, BankingAt, PendingAt, OverAt, BillEffect
<1>4. ASSUME j \notin torn PROVE HolderBooks(w, j)' /\ InBounds(j)'
  <2>1. HolderBooks(w, j) /\ InBounds(j)
    BY <1>3, <1>4 DEF Books, BooksOf
  <2>2. Banking(j, copy[w])'
    BY <2>1, <1>1 DEF HolderBooks, PendingAt, BillEffect, Banking, Pending, Bought
  <2>3. copy'[w].banked = copy[w].banked + 1 /\ copy[w].banked = copy[w].advances
        /\ ~copy'[w].metered /\ copy'[w].status = "running" /\ reported[j] = 0
        /\ landed[j] = 0 /\ (w \in stale \/ ~rec[j].metered)
    BY <2>1 DEF HolderBooks, PendingAt, BillEffect
  <2>4. pc'[w] = "again"
          => copy'[w].banked = copy'[w].advances /\ copy'[w].advances <= MaxAdvances
    BY <2>3, <1>1, BudgetAssumption DEF BillEffect
  <2>5. pc'[w] \in {"again", "failing"}
    BY DEF BillEffect
  <2>6. HolderBooks(w, j)'
    BY <2>2, <2>3, <2>4, <2>5 DEF HolderBooks, BankingAt, PendingAt, OverAt
  <2>7. InBounds(j)'
    BY <2>1 DEF InBounds
  <2> QED BY <2>6, <2>7
<1> QED BY <1>2, <1>3, <1>4, BooksAdvance

\* A job saved as it is, to be polled, keeps the books.
LEMMA BooksPutDown ==
  ASSUME TypedInv, OneAtWork, Books, NEW w \in AtWork, pc[w] \in {"made", "poll", "keep"},
         NEW c, SameBooks(c, copy[w]), SaveEffect(w, c), LeaveEffect(w),
         bought' = bought, landed' = landed
  PROVE  Books'
<1>1. PICK j \in Call : at[w] = j
  BY DEF SaveEffect
<1>2. WorksOn(w, j)
  BY <1>1 DEF WorksOn, PendingAt
<1>3. /\ torn \subseteq torn' /\ stale \subseteq stale' \cup {w}
      /\ \A i \in Call \ {j} : rec'[i] = rec[i] /\ reported'[i] = reported[i]
      /\ w \in stale => j \in torn'
  BY <1>1 DEF SaveEffect, TypedInv, Typed
<1>4. /\ rec'[j].status = copy[w].status /\ rec'[j].model = copy[w].model
      /\ rec'[j].advances = copy[w].advances /\ rec'[j].banked = copy[w].banked
      /\ rec'[j].tried = copy[w].tried
  BY <1>1 DEF SaveEffect, SameBooks
<1>5. ASSUME j \notin torn'
      PROVE  /\ rec'[j].status = "running" /\ ~rec'[j].metered /\ reported'[j] = 0
             /\ rec'[j].banked = rec'[j].advances /\ rec'[j].advances <= MaxAdvances
             /\ Pending(j, rec[j])' /\ landed[j] = 0
  <2>1. HolderBooks(w, j) /\ w \notin stale
    BY <1>2, <1>3, <1>5 DEF Books, BooksOf
  <2>2. /\ Pending(j, copy[w]) /\ reported[j] = 0 /\ ~copy[w].metered
        /\ copy[w].status = "running" /\ ~rec[j].metered /\ landed[j] = 0
        /\ copy[w].banked = copy[w].advances /\ copy[w].advances <= MaxAdvances
    BY <2>1 DEF HolderBooks, PendingAt, BankingAt
  <2>3. c.status = "running" /\ ~c.metered
    BY <2>2 DEF SameBooks
  <2>4. ~rec'[j].metered /\ reported'[j] = 0
    BY <1>1, <2>2, <2>3 DEF SaveEffect, Terminal
  <2>5. Pending(j, rec[j])'
    BY <1>4, <2>2 DEF Pending, Bought
  <2> QED BY <1>4, <2>2, <2>4, <2>5
<1>6. j \notin torn' => ~Terminal(rec'[j])
  BY <1>5 DEF Terminal
<1> QED BY <1>2, <1>3, <1>5, <1>6, BooksLeft

\* A worker that leaves a job that is over as it is keeps the books.
LEMMA BooksLeftOver ==
  ASSUME TypedInv, OneAtWork, Books, NEW w \in AtWork, pc[w] \in OverAt, LeaveEffect(w),
         UNCHANGED <<rec, reported, stale, torn, bought, landed>>
  PROVE  Books'
<1>1. PICK j \in Call : at[w] = j
  BY DEF TypedInv, PlaceOf, Holds, OverAt, AtWork, Worker, Pass
<1>2. WorksOn(w, j)
  BY <1>1 DEF WorksOn
<1>3. ASSUME j \notin torn
      PROVE  /\ rec[j].status # "running"
             /\ Terminal(rec[j]) => rec[j].metered /\ reported[j] = Len(bought[j])
  BY <1>2, <1>3 DEF Books, BooksOf, RecordBooks, HolderBooks
<1> QED BY <1>2, <1>3, BooksLeft

\* There is nothing to keep books of at the start.
LEMMA BooksInit == Init => Books
<1> SUFFICES ASSUME Init PROVE Books
  OBVIOUS
<1>1. /\ \A w \in Worker : pc[w] = "idle" /\ copy[w] = Blank
      /\ \A j \in Call : rec[j] = NoRow /\ reported[j] = 0 /\ landed[j] = 0 /\ bought[j] = <<>>
  BY DEF Init
<1>2. ASSUME NEW j \in Call PROVE BooksOf(j)
  <2>1. \A w \in AtWork : ~WorksOn(w, j)
    BY <1>1 DEF WorksOn, AtWork, Worker, BankingAt, PendingAt, OverAt
  <2>2. RecordBooks(j)
    BY <1>1, Blanks DEF RecordBooks, Terminal
  <2>3. InBounds(j)
    BY <1>1, BudgetAssumption DEF InBounds
  <2> QED BY <2>1, <2>2, <2>3 DEF BooksOf
<1> QED BY <1>1, <1>2 DEF Books, Worker

\* The books of the other jobs do not change when a save is lost.
LEMMA BooksLost ==
  ASSUME TypedInv, OneAtWork, Books, NEW w \in Worker, LostEffect(w)
  PROVE  Books'
<1> USE CallAssumption DEF AtWork, Pass, Worker
<1>1. /\ Alone(w) /\ Holds(w) /\ at[w] \in Call /\ rec' = rec
      /\ torn' = torn \cup {at[w]} /\ stale' = stale \cup {w}
      /\ bought' = bought /\ landed' = landed
      /\ \A j \in Call \ {at[w]} : reported'[j] = reported[j]
  BY DEF LostEffect, LostSave, LeaveEffect, Moves
<1>2. CASE w \in Place
  <2>1. \A i \in Call : pc[i] = "idle" => i # at[w]
    BY <1>1, <1>2 DEF OneAtWork, BeforeJob
  <2> QED BY <1>1, <1>2, <2>1, BooksUnmoved DEF SameBooks
<1>3. CASE w \in AtWork
  <2>1. w \in Call => pc'[w] # "idle"
    BY <1>3 DEF LostEffect, LeaveEffect, Moves
  <2>2. \A i \in Call \ {at[w]} : ~WorksOn(w, i)'
    BY <1>3 DEF LostEffect, LeaveEffect, Moves, WorksOn, BankingAt, PendingAt, OverAt
  <2> QED BY <1>1, <1>3, <2>1, <2>2, BooksKept
<1> QED BY <1>2, <1>3

\* Every step keeps the books.
LEMMA BooksStep == TypedInv /\ OneAtWork /\ BudgetCovers /\ Fresh /\ Books /\ [Next]_vars => Books'
<1> SUFFICES ASSUME TypedInv, OneAtWork, BudgetCovers, Fresh, Books, [Next]_vars PROVE Books'
  OBVIOUS
<1>0. ASSUME NEW w, w \in Call \/ w \in Pass \/ w \in Place, LostEffect(w) PROVE Books'
  BY <1>0, BooksLost DEF Pass, Worker
<1>1. ASSUME NEW c \in Call, Ask(c) PROVE Books'
  <2>1. /\ Alone(c) /\ pc[c] = "idle" /\ pc'[c] = "walk" /\ copy'[c] = copy[c]
        /\ UNCHANGED <<at, rec, torn, stale, reported, bought, landed>>
    BY <1>1, AskDoes DEF Moves
  <2>2. copy[c] = Blank /\ bought[c] = <<>> /\ reported[c] = 0 /\ landed[c] = 0
    BY <2>1 DEF Books, BudgetCovers
  <2>3. rec[c] = NoRow /\ at[c] = c
    BY <2>1 DEF OneAtWork, BeforeJob, TypedInv, PlaceOf, Worker
  <2>4. BooksOf(c)'
    <3>1. RecordBooks(c)'
      BY <2>1, <2>3, Blanks DEF RecordBooks, Terminal
    <3>2. InBounds(c)'
      BY <2>1, <2>2, BudgetAssumption DEF InBounds
    <3>3. WorksOn(c, c)'
      BY <2>1, <2>3 DEF WorksOn, BankingAt
    <3>4. HolderBooks(c, c)'
      <4>1. Banking(c, copy[c])'
        BY <2>1, <2>2, Blanks DEF Banking, Bought
      <4> QED BY <2>1, <2>2, <2>3, <4>1, Blanks, NoRowUnreported
              DEF HolderBooks, BankingAt, PendingAt, OverAt
    <3>5. ASSUME NEW o \in AtWork, WorksOn(o, c)' PROVE o = c
      <4>1. CASE o \in Call
        BY <2>1, <2>3, <3>5, <4>1 DEF WorksOn, Alone, TypedInv, PlaceOf, Worker
      <4>2. CASE o \in Pass /\ o # c
        <5>1. WorksOn(o, c)
          BY <2>1, <3>5, <4>2 DEF WorksOn, Alone, Worker
        <5>2. Holds(o) /\ at[o] = c
          BY <5>1 DEF WorksOn, Holds, BankingAt, PendingAt, OverAt
        <5> QED BY <2>1, <4>2, <5>2 DEF OneAtWork, BeforeJob
      <4> QED BY <4>1, <4>2 DEF AtWork
    <3> QED BY <3>1, <3>2, <3>3, <3>4, <3>5 DEF BooksOf
  <2>5. ASSUME NEW i \in Call \ torn', i # c PROVE BooksOf(i)'
    <3>1. BooksOf(i) /\ SameBooks(rec'[i], rec[i])
      BY <2>1, <2>5 DEF Books, SameBooks
    <3>2. \A o \in AtWork : WorksOn(o, i)' <=> WorksOn(o, i)
      BY <2>1, <2>3, <2>5 DEF WorksOn, Alone, AtWork, Worker
    <3>3. \A o \in AtWork : WorksOn(o, i) =>
            /\ pc'[o] = pc[o] /\ copy'[o] = copy[o] /\ cand'[o] = cand[o]
            /\ o \in stale => o \in stale'
      BY <2>1, <2>3, <2>5 DEF WorksOn, Alone, AtWork, Worker
    <3> QED BY <2>1, <3>1, <3>2, <3>3, BooksApart
  <2>6. \A d \in Call : pc'[d] = "idle"
          => reported'[d] = 0 /\ landed'[d] = 0 /\ copy'[d] = Blank
    BY <2>1 DEF Books, Alone, Worker
  <2> QED BY <2>4, <2>5, <2>6 DEF Books
<1>2. ASSUME NEW c \in Call, Walk(c) PROVE Books'
  <2>1. CASE Moves(c, "walk", "sent", copy[c]) /\ cand'[c] \in Model \ copy[c].tried
    <3>1. /\ Alone(c) /\ pc[c] = "walk" /\ pc'[c] = "sent" /\ at'[c] = at[c]
          /\ copy'[c] = copy[c]
          /\ UNCHANGED <<rec, torn, stale, reported, bought, landed>>
          /\ cand'[c] \notin copy[c].tried
      BY <2>1, <1>2, WalkDoes DEF Moves, BillEffect
    <3>2. /\ c \in AtWork /\ PlaceOf(c) /\ ModelOf(c) /\ copy[c] \in Record
          /\ copy[c].banked \in Nat /\ copy[c].advances \in Nat
      BY Fields DEF TypedInv, Typed, AtWork, Worker, Pass
    <3>3. PICK j \in Call : at[c] = j
      BY <3>1, <3>2 DEF PlaceOf, Holds
    <3>4. /\ WorksOn(c, j) /\ pc[c] \notin OverAt
          /\ pc'[c] \in (BankingAt \cup PendingAt) \ {"poll"}
      BY <3>1, <3>3 DEF WorksOn, BankingAt, PendingAt, OverAt
    <3>5. ASSUME j \notin torn PROVE HolderBooks(c, j)' /\ InBounds(j)'
      <4>1. HolderBooks(c, j) /\ InBounds(j)
        BY <3>2, <3>4, <3>5 DEF Books, BooksOf
      <4>2. HolderBooks(c, j)'
        BY <3>1, <3>2, <3>3, <4>1 DEF HolderBooks, Banking, Pending, Bought,
           BankingAt, PendingAt, OverAt
      <4>3. InBounds(j)'
        BY <3>1, <4>1 DEF InBounds
      <4> QED BY <4>2, <4>3
    <3>6. \A i \in Call \ {j} : bought'[i] = bought[i] /\ landed'[i] = landed[i]
      BY <3>1, <3>3 DEF TypedInv, Typed
    <3> QED BY <3>1, <3>2, <3>3, <3>4, <3>5, <3>6, BooksAdvance
  <2>2. CASE Moves(c, "walk", "spent", copy[c])
    <3>1. /\ Alone(c) /\ pc[c] = "walk" /\ pc'[c] = "spent" /\ at'[c] = at[c]
          /\ copy'[c] = copy[c]
          /\ UNCHANGED <<rec, torn, stale, reported, bought, landed>>
      BY <2>2, <1>2, WalkDoes DEF Moves, BillEffect
    <3>2. /\ c \in AtWork /\ PlaceOf(c) /\ ModelOf(c) /\ copy[c] \in Record
          /\ copy[c].banked \in Nat /\ copy[c].advances \in Nat
      BY Fields DEF TypedInv, Typed, AtWork, Worker, Pass
    <3>3. PICK j \in Call : at[c] = j
      BY <3>1, <3>2 DEF PlaceOf, Holds
    <3>4. /\ WorksOn(c, j) /\ pc[c] \notin OverAt
          /\ pc'[c] \in (BankingAt \cup PendingAt) \ {"poll"}
      BY <3>1, <3>3 DEF WorksOn, BankingAt, PendingAt, OverAt
    <3>5. ASSUME j \notin torn PROVE HolderBooks(c, j)' /\ InBounds(j)'
      <4>1. HolderBooks(c, j) /\ InBounds(j)
        BY <3>2, <3>4, <3>5 DEF Books, BooksOf
      <4>2. HolderBooks(c, j)'
        BY <3>1, <3>2, <3>3, <4>1 DEF HolderBooks, Banking, Pending, Bought,
           BankingAt, PendingAt, OverAt
      <4>3. InBounds(j)'
        BY <3>1, <4>1 DEF InBounds
      <4> QED BY <4>2, <4>3
    <3>6. \A i \in Call \ {j} : bought'[i] = bought[i] /\ landed'[i] = landed[i]
      BY <3>1, <3>3 DEF TypedInv, Typed
    <3> QED BY <3>1, <3>2, <3>3, <3>4, <3>5, <3>6, BooksAdvance
  <2> QED BY <1>2, <2>1, <2>2, WalkDoes DEF Moves, BillEffect
<1>3. ASSUME NEW c \in Call, Refused(c, "sent", "walk") PROVE Books'
  <2>1. /\ Alone(c) /\ pc[c] = "sent" /\ pc'[c] = "walk" /\ at'[c] = at[c]
        /\ copy'[c] = Tried(copy[c], cand[c])
        /\ UNCHANGED <<rec, torn, stale, reported, bought, landed>>
    BY <1>3, RefusedDoes DEF Moves, BillEffect
  <2>2. /\ c \in AtWork /\ PlaceOf(c) /\ ModelOf(c) /\ copy[c] \in Record
        /\ copy[c].banked \in Nat /\ copy[c].advances \in Nat
    BY Fields DEF TypedInv, Typed, AtWork, Worker, Pass
  <2>3. PICK j \in Call : at[c] = j
    BY <2>1, <2>2 DEF PlaceOf, Holds
  <2>4. /\ WorksOn(c, j) /\ pc[c] \notin OverAt
        /\ pc'[c] \in (BankingAt \cup PendingAt) \ {"poll"}
    BY <2>1, <2>3 DEF WorksOn, BankingAt, PendingAt, OverAt
  <2>5. cand[c] \in Model
    BY <2>1, <2>2 DEF ModelOf, AfterJob, Rendering
  <2>6. /\ copy'[c].banked = copy[c].banked /\ copy'[c].tried = copy[c].tried \cup {cand[c]}
        /\ copy'[c].status = copy[c].status /\ copy'[c].model = copy[c].model
        /\ copy'[c].metered = copy[c].metered /\ copy'[c].advances = copy[c].advances
    BY <2>1, <2>2, <2>5, TriedJob
  <2>7. ASSUME j \notin torn PROVE HolderBooks(c, j)' /\ InBounds(j)'
    <3>1. HolderBooks(c, j) /\ InBounds(j)
      BY <2>2, <2>4, <2>7 DEF Books, BooksOf
    <3>2. HolderBooks(c, j)'
      BY <2>1, <2>2, <2>3, <2>6, <3>1 DEF HolderBooks, Banking, Pending, Bought,
         BankingAt, PendingAt, OverAt
    <3>3. InBounds(j)'
      BY <2>1, <3>1 DEF InBounds
    <3> QED BY <3>2, <3>3
  <2>8. \A i \in Call \ {j} : bought'[i] = bought[i] /\ landed'[i] = landed[i]
    BY <2>1, <2>3 DEF TypedInv, Typed
  <2> QED BY <2>1, <2>2, <2>3, <2>4, <2>7, <2>8, BooksAdvance
<1>4. ASSUME NEW c \in Call, Empty(c, "sent", "walk") PROVE Books'
  <2>1. /\ Alone(c) /\ pc[c] = "sent" /\ pc'[c] = "walk" /\ at'[c] = at[c]
        /\ copy'[c] = Banked(copy[c], cand[c])
        /\ UNCHANGED <<rec, torn, stale, reported, landed>>
        /\ bought' = [bought EXCEPT ![at[c]] = Append(@, cand[c])]
    BY <1>4, EmptyDoes DEF Moves, BillEffect
  <2>2. /\ c \in AtWork /\ PlaceOf(c) /\ ModelOf(c) /\ copy[c] \in Record
        /\ copy[c].banked \in Nat /\ copy[c].advances \in Nat
    BY Fields DEF TypedInv, Typed, AtWork, Worker, Pass
  <2>3. PICK j \in Call : at[c] = j
    BY <2>1, <2>2 DEF PlaceOf, Holds
  <2>4. /\ WorksOn(c, j) /\ pc[c] \notin OverAt
        /\ pc'[c] \in (BankingAt \cup PendingAt) \ {"poll"}
    BY <2>1, <2>3 DEF WorksOn, BankingAt, PendingAt, OverAt
  <2>5. cand[c] \in Model
    BY <2>1, <2>2 DEF ModelOf, AfterJob, Rendering
  <2>6. /\ copy'[c].banked = copy[c].banked + 1 /\ copy'[c].tried = copy[c].tried \cup {cand[c]}
        /\ copy'[c].status = copy[c].status /\ copy'[c].model = copy[c].model
        /\ copy'[c].metered = copy[c].metered /\ copy'[c].advances = copy[c].advances
    BY <2>1, <2>2, <2>5, BankedJob
  <2>7. ASSUME j \notin torn PROVE HolderBooks(c, j)' /\ InBounds(j)'
    <3>1. HolderBooks(c, j) /\ InBounds(j)
      BY <2>2, <2>4, <2>7 DEF Books, BooksOf
    <3>2. /\ Len(bought[j]) = copy[c].banked
          /\ Bought(j, copy[c].tried)
          /\ cand[c] \notin copy[c].tried
      BY <2>1, <3>1 DEF HolderBooks, Banking, BankingAt
    <3>3. bought' = [bought EXCEPT ![j] = Append(@, cand[c])]
      BY <2>1, <2>3
    <3>4. /\ Len(bought'[j]) = copy[c].banked + 1 /\ InBounds(j)
          /\ \A i \in DOMAIN bought'[j] : bought'[j][i] \in copy[c].tried \cup {cand[c]}
          /\ \A i, k \in DOMAIN bought'[j] : bought'[j][i] = bought'[j][k] => i = k
      <4> DEFINE S == copy[c].tried
                 m == cand[c]
      <4>1. /\ InBounds(j) /\ Len(bought[j]) = copy[c].banked /\ m \in Model /\ m \notin S
            /\ Bought(j, S) /\ bought' = [bought EXCEPT ![j] = Append(@, m)]
        BY <2>5, <3>1, <3>2, <3>3
      <4> HIDE DEF S, m
      <4>2. Len(bought'[j]) = copy[c].banked + 1
        BY <4>1, PaidBooks
      <4>3. \A i \in DOMAIN bought'[j] : bought'[j][i] \in S \cup {m}
        BY <4>1, PaidBooks
      <4>4. \A i, k \in DOMAIN bought'[j] : bought'[j][i] = bought'[j][k] => i = k
        BY <4>1, PaidBooks
      <4> QED BY <4>1, <4>2, <4>3, <4>4 DEF S, m
    <3>5. copy[c].banked <= MaxAdvances
      BY <2>1, <2>2, <2>3, <3>2, CallAffords DEF PlaceOf
    <3>6. HolderBooks(c, j)'
      BY <2>1, <2>2, <2>3, <2>6, <3>1, <3>4, <3>5 DEF HolderBooks, Banking, Pending,
         Bought, BankingAt, PendingAt, OverAt
    <3>7. InBounds(j)'
      <4>1. Len(bought'[j]) <= MaxAdvances + 1
        BY <2>2, <3>4, <3>5, BudgetAssumption
      <4>2. landed'[j] <= 1
        BY <2>1, <3>1 DEF InBounds
      <4> QED BY <3>4, <4>1, <4>2 DEF InBounds
    <3> QED BY <3>6, <3>7
  <2>8. \A i \in Call \ {j} : bought'[i] = bought[i] /\ landed'[i] = landed[i]
    BY <2>1, <2>3 DEF TypedInv, Typed
  <2> QED BY <2>1, <2>2, <2>3, <2>4, <2>7, <2>8, BooksAdvance
<1>5. ASSUME NEW c \in Call, Accepted(c, "sent", Carried(copy[c]), "made") PROVE Books'
  <2>1. /\ Alone(c) /\ pc[c] = "sent" /\ pc'[c] = "made" /\ at'[c] = at[c]
        /\ copy'[c] = Taken(Carried(copy[c]), cand[c])
        /\ UNCHANGED <<rec, torn, stale, reported, landed>>
        /\ bought' = [bought EXCEPT ![at[c]] = Append(@, cand[c])]
    BY <1>5, AcceptedDoes DEF Moves, BillEffect
  <2>2. /\ c \in AtWork /\ PlaceOf(c) /\ ModelOf(c) /\ copy[c] \in Record
        /\ copy[c].banked \in Nat /\ copy[c].advances \in Nat
    BY Fields DEF TypedInv, Typed, AtWork, Worker, Pass
  <2>3. PICK j \in Call : at[c] = j
    BY <2>1, <2>2 DEF PlaceOf, Holds
  <2>4. /\ WorksOn(c, j) /\ pc[c] \notin OverAt
        /\ pc'[c] \in (BankingAt \cup PendingAt) \ {"poll"}
    BY <2>1, <2>3 DEF WorksOn, BankingAt, PendingAt, OverAt
  <2>5. cand[c] \in Model
    BY <2>1, <2>2 DEF ModelOf, AfterJob, Rendering
  <2>6. /\ copy'[c].banked = copy[c].banked /\ copy'[c].tried = copy[c].tried
        /\ copy'[c].status = copy[c].status /\ copy'[c].model = cand[c]
        /\ copy'[c].metered = copy[c].metered /\ copy'[c].advances = copy[c].banked
    <3>1. /\ Carried(copy[c]) \in Record /\ Carried(copy[c]).status = copy[c].status
          /\ Carried(copy[c]).banked = copy[c].banked /\ Carried(copy[c]).advances = copy[c].banked
          /\ Carried(copy[c]).tried = copy[c].tried /\ Carried(copy[c]).metered = copy[c].metered
      BY <2>2, CarriedJob
    <3>2. /\ Taken(Carried(copy[c]), cand[c]).banked = Carried(copy[c]).banked
          /\ Taken(Carried(copy[c]), cand[c]).tried = Carried(copy[c]).tried
          /\ Taken(Carried(copy[c]), cand[c]).status = Carried(copy[c]).status
          /\ Taken(Carried(copy[c]), cand[c]).model = cand[c]
          /\ Taken(Carried(copy[c]), cand[c]).metered = Carried(copy[c]).metered
          /\ Taken(Carried(copy[c]), cand[c]).advances = Carried(copy[c]).advances
      BY <3>1, <2>5, TakenJob
    <3> QED BY <2>1, <3>1, <3>2
  <2>7. ASSUME j \notin torn PROVE HolderBooks(c, j)' /\ InBounds(j)'
    <3>1. HolderBooks(c, j) /\ InBounds(j)
      BY <2>2, <2>4, <2>7 DEF Books, BooksOf
    <3>2. /\ Len(bought[j]) = copy[c].banked
          /\ Bought(j, copy[c].tried)
          /\ cand[c] \notin copy[c].tried
      BY <2>1, <3>1 DEF HolderBooks, Banking, BankingAt
    <3>3. bought' = [bought EXCEPT ![j] = Append(@, cand[c])]
      BY <2>1, <2>3
    <3>4. /\ Len(bought'[j]) = copy[c].banked + 1 /\ InBounds(j)
          /\ \A i \in DOMAIN bought'[j] : bought'[j][i] \in copy[c].tried \cup {cand[c]}
          /\ \A i, k \in DOMAIN bought'[j] : bought'[j][i] = bought'[j][k] => i = k
      <4> DEFINE S == copy[c].tried
                 m == cand[c]
      <4>1. /\ InBounds(j) /\ Len(bought[j]) = copy[c].banked /\ m \in Model /\ m \notin S
            /\ Bought(j, S) /\ bought' = [bought EXCEPT ![j] = Append(@, m)]
        BY <2>5, <3>1, <3>2, <3>3
      <4> HIDE DEF S, m
      <4>2. Len(bought'[j]) = copy[c].banked + 1
        BY <4>1, PaidBooks
      <4>3. \A i \in DOMAIN bought'[j] : bought'[j][i] \in S \cup {m}
        BY <4>1, PaidBooks
      <4>4. \A i, k \in DOMAIN bought'[j] : bought'[j][i] = bought'[j][k] => i = k
        BY <4>1, PaidBooks
      <4> QED BY <4>1, <4>2, <4>3, <4>4 DEF S, m
    <3>5. copy[c].banked <= MaxAdvances
      BY <2>1, <2>2, <2>3, <3>2, CallAffords DEF PlaceOf
    <3>6. HolderBooks(c, j)'
      BY <2>1, <2>2, <2>3, <2>6, <3>1, <3>4, <3>5 DEF HolderBooks, Banking, Pending,
         Bought, BankingAt, PendingAt, OverAt
    <3>7. InBounds(j)'
      <4>1. Len(bought'[j]) <= MaxAdvances + 1
        BY <2>2, <3>4, <3>5, BudgetAssumption
      <4>2. landed'[j] <= 1
        BY <2>1, <3>1 DEF InBounds
      <4> QED BY <3>4, <4>1, <4>2 DEF InBounds
    <3> QED BY <3>6, <3>7
  <2>8. \A i \in Call \ {j} : bought'[i] = bought[i] /\ landed'[i] = landed[i]
    BY <2>1, <2>3 DEF TypedInv, Typed
  <2> QED BY <2>1, <2>2, <2>3, <2>4, <2>7, <2>8, BooksAdvance
<1>6. ASSUME NEW c \in Call, Make(c), ~LostEffect(c) PROVE Books'
  <2>1. pc[c] = "made" /\ SaveEffect(c, copy[c]) /\ bought' = bought /\ landed' = landed
    BY <1>6, MakeDoes
  <2>2. CASE LeaveEffect(c)
    BY <2>1, <2>2, BooksPutDown DEF SameBooks, AtWork
  <2>3. CASE Moves(c, "made", "store", copy[c]) /\ at' = at
    <3>1. /\ Holds(c) /\ at[c] = c /\ Alone(c) /\ pc'[c] = "store" /\ copy'[c] = copy[c]
          /\ at'[c] = c /\ WorksOn(c, c) /\ WorksOn(c, c)'
      BY <2>1, <2>3 DEF Moves, Holds, TypedInv, PlaceOf, Worker, WorksOn, PendingAt
    <3>2. /\ torn \subseteq torn' /\ stale \subseteq stale' \cup {c}
          /\ \A i \in Call \ {c} : rec'[i] = rec[i] /\ reported'[i] = reported[i]
          /\ c \in stale => c \in torn'
      BY <2>1, <3>1 DEF SaveEffect, TypedInv, Typed
    <3>3. ASSUME c \notin torn' PROVE BooksOf(c)'
      <4>1. HolderBooks(c, c) /\ InBounds(c) /\ c \notin stale
        BY <3>1, <3>2, <3>3 DEF Books, BooksOf, AtWork
      <4>2. /\ Pending(c, copy[c]) /\ reported[c] = 0 /\ ~copy[c].metered
            /\ copy[c].status = "running" /\ ~rec[c].metered /\ landed[c] = 0
            /\ copy[c].banked = copy[c].advances /\ copy[c].advances <= MaxAdvances
        BY <2>1, <4>1 DEF HolderBooks, PendingAt, BankingAt
      <4>3. ~rec'[c].metered /\ reported'[c] = 0
        BY <2>1, <3>1, <4>2 DEF SaveEffect, Terminal
      <4>4. /\ rec'[c].status = "running" /\ rec'[c].banked = rec'[c].advances
            /\ rec'[c].advances <= MaxAdvances
        BY <2>1, <3>1, <4>2 DEF SaveEffect
      <4>5. RecordBooks(c)'
        BY <3>1, <4>3, <4>4 DEF RecordBooks, Terminal, Worked, AtWork
      <4>6. InBounds(c)'
        BY <2>1, <4>1 DEF InBounds
      <4>7. Pending(c, copy[c])'
        BY <2>1, <3>1, <4>2 DEF Pending, Bought
      <4>8. HolderBooks(c, c)'
        BY <2>1, <3>1, <4>2, <4>3, <4>7 DEF HolderBooks, BankingAt, PendingAt, OverAt
      <4>9. \A o \in AtWork \ {c} : ~WorksOn(o, c)'
        BY <3>1, OneWorksOn DEF WorksOn, Alone, AtWork, Worker
      <4> QED BY <4>5, <4>6, <4>8, <4>9 DEF BooksOf
    <3>4. \A i \in Call \ {c} : ~WorksOn(c, i)'
      BY <3>1 DEF WorksOn
    <3> QED BY <2>1, <3>1, <3>2, <3>3, <3>4, BooksKept DEF AtWork
  <2> QED BY <1>6, <2>2, <2>3, MakeDoes
<1>7. ASSUME NEW c \in Call, WalkOver(c), ~LostEffect(c) PROVE Books'
  <2>1. pc[c] = "spent" /\ LeaveEffect(c) /\ bought' = bought /\ landed' = landed
    BY <1>7, WalkOverDoes
  <2>2. /\ at[c] = c /\ WorksOn(c, c) /\ c \in AtWork /\ rec[c] = NoRow
        /\ copy[c] \in Record /\ copy[c].banked \in Nat
    BY <2>1, Fields DEF TypedInv, Typed, PlaceOf, Worker, WorksOn, BankingAt, AtWork,
       OneAtWork, BeforeJob
  <2>3. CASE SaveEffect(c, Ended(Carried(copy[c]), "failed"))
    <3>1. /\ torn \subseteq torn' /\ stale \subseteq stale' \cup {c}
          /\ \A i \in Call \ {c} : rec'[i] = rec[i] /\ reported'[i] = reported[i]
      BY <2>2, <2>3 DEF SaveEffect, TypedInv, Typed
    <3>2. /\ Ended(Carried(copy[c]), "failed").status = "failed"
          /\ Ended(Carried(copy[c]), "failed").banked = copy[c].banked
          /\ Ended(Carried(copy[c]), "failed").metered = copy[c].metered
      <4>1. /\ Carried(copy[c]) \in Record /\ Carried(copy[c]).banked = copy[c].banked
            /\ Carried(copy[c]).metered = copy[c].metered
        BY <2>2, CarriedJob
      <4> QED BY <4>1, EndedJob
    <3>3. ASSUME c \notin torn' PROVE reported[c] = 0 /\ ~copy[c].metered
                                      /\ Len(bought[c]) = copy[c].banked
      <4>1. HolderBooks(c, c)
        BY <2>2, <3>1, <3>3 DEF Books, BooksOf
      <4> QED BY <2>1, <4>1 DEF HolderBooks, BankingAt, Banking
    <3>4. Terminal(Ended(Carried(copy[c]), "failed"))
      BY <3>2 DEF Terminal
    <3>5. rec'[c].status = "failed" /\ rec'[c].metered
      BY <2>2, <2>3, <3>2, <3>4 DEF SaveEffect
    <3>6. Spent(Ended(Carried(copy[c]), "failed")) = copy[c].banked
      BY <2>2, <3>2 DEF Spent
    <3>7. c \notin torn' => reported'[c] = Len(bought[c])
      BY <2>2, <2>3, <3>2, <3>3, <3>4, <3>6 DEF SaveEffect
    <3> QED BY <2>1, <2>2, <3>1, <3>5, <3>7, BooksLeft
  <2>4. CASE UNCHANGED <<rec, reported, torn, stale>>
    <3>1. rec'[c].status = "absent"
      BY <2>2, <2>4, Blanks
    <3>2. rec'[c].status # "running" /\ ~Terminal(rec'[c])
      BY <3>1 DEF Terminal
    <3> QED BY <2>1, <2>2, <2>4, <3>2, BooksLeft
  <2> QED BY <1>7, <2>3, <2>4, WalkOverDoes
<1>8. ASSUME NEW p \in Pass, Open(p) PROVE Books'
  <2>1. /\ Alone(p) /\ pc[p] = "idle" /\ pc'[p] = "open"
        /\ UNCHANGED <<rec, torn, stale, reported, bought, landed>>
    BY <1>8, OpenDoes DEF Moves
  <2>2. \A i \in Call : ~WorksOn(p, i) /\ ~WorksOn(p, i)'
    BY <2>1 DEF WorksOn, BankingAt, PendingAt, OverAt
  <2> QED BY <2>1, <2>2, BooksUnmoved DEF SameBooks
<1>9. ASSUME NEW p \in Pass, NEW j \in Call, Take(p, j) PROVE Books'
  <2>1. /\ Alone(p) /\ pc[p] = "open" /\ pc'[p] \in {"idle", "open", "lock"}
        /\ stale \subseteq stale' \cup {p}
        /\ UNCHANGED <<rec, torn, reported, bought, landed>>
    BY <1>9, TakeDoes DEF Moves
  <2>2. \A i \in Call : ~WorksOn(p, i) /\ ~WorksOn(p, i)'
    BY <2>1 DEF WorksOn, BankingAt, PendingAt, OverAt
  <2> QED BY <2>1, <2>2, BooksUnmoved DEF SameBooks
<1>10. ASSUME NEW p \in Pass, Enter(p) PROVE Books'
  <2>1. /\ pc[p] = "lock" /\ \A o \in Pass : at[o] = at[p] => ~Locked(o)
        /\ UNCHANGED <<rec, reported, bought, landed>>
    BY <1>10, EnterDoes
  <2>2. CASE LeaveEffect(p) /\ stale' = stale \ {p} /\ torn' = torn
    <3>1. Alone(p) /\ \A i \in Call : ~WorksOn(p, i) /\ ~WorksOn(p, i)'
      BY <2>1, <2>2 DEF LeaveEffect, WorksOn, BankingAt, PendingAt, OverAt
    <3> QED BY <2>1, <2>2, <3>1, BooksUnmoved DEF SameBooks
  <2>3. CASE pc'[p] = "poll" /\ Alone(p) /\ at' = at /\ stale \subseteq stale' \cup {p}
    <3>1. PICK j \in Call : at[p] = j
      BY <2>1 DEF TypedInv, PlaceOf, Holds, Worker, Pass
    <3>2. Holds(p)
      BY <2>1 DEF Holds
    <3>3. ASSUME NEW o \in AtWork PROVE ~WorksOn(o, j)
      <4>1. o \in Pass => ~WorksOn(o, j)
        BY <2>1, <3>1 DEF WorksOn, Locked, BankingAt, PendingAt, OverAt
      <4>2. ASSUME o \in Call, WorksOn(o, j) PROVE FALSE
        <5>1. o = j /\ pc[o] \in BeforeJob \cup AfterJob
          BY <4>2 DEF WorksOn, TypedInv, PlaceOf, Worker, BankingAt, PendingAt, OverAt
        <5> QED BY <3>1, <3>2, <5>1 DEF OneAtWork
      <4> QED BY <4>1, <4>2 DEF AtWork
    <3>4. WorksOn(p, j)' /\ \A i \in Call \ {j} : ~WorksOn(p, i)'
      BY <2>3, <3>1 DEF WorksOn, PendingAt
    <3>5. \A o \in AtWork \ {p} : ~WorksOn(o, j)'
      BY <2>3, <3>3 DEF WorksOn, Alone, AtWork, Worker
    <3>6. ASSUME torn' = torn, Pollable(rec[j]), copy'[p] = rec[j], j \notin torn
          PROVE  BooksOf(j)'
      <4>1. RecordBooks(j) /\ InBounds(j) /\ rec[j].status = "running"
        BY <3>6 DEF Books, BooksOf, Pollable
      <4>2. Worked(j, {"poll"})
        BY <3>3 DEF Worked
      <4>3. /\ ~rec[j].metered /\ reported[j] = 0 /\ rec[j].banked = rec[j].advances
            /\ rec[j].advances <= MaxAdvances /\ Pending(j, rec[j]) /\ landed[j] = 0
        BY <4>1, <4>2 DEF RecordBooks
      <4>4. Pending(j, rec[j])' /\ Pending(j, copy[p])'
        BY <2>1, <3>6, <4>3 DEF Pending, Bought
      <4>5. RecordBooks(j)'
        BY <2>1, <4>1, <4>3, <4>4 DEF RecordBooks, Terminal
      <4>6. InBounds(j)'
        BY <2>1, <4>1 DEF InBounds
      <4>7. HolderBooks(p, j)'
        BY <2>1, <2>3, <3>6, <4>1, <4>3, <4>4 DEF HolderBooks, BankingAt, PendingAt, OverAt
      <4> QED BY <3>5, <4>5, <4>6, <4>7 DEF BooksOf
    <3>7. torn \subseteq torn' /\ (j \in torn' \/ BooksOf(j)')
      <4>1. CASE Known(at[p]) /\ Pollable(rec[at[p]]) /\ Moves(p, "lock", "poll", rec[at[p]])
                 /\ torn' = torn
        BY <3>1, <3>6, <4>1 DEF Moves
      <4>2. CASE torn' = torn \cup {at[p]}
        BY <3>1, <4>2
      <4>3. CASE LeaveEffect(p)
        BY <2>3, <4>3 DEF LeaveEffect
      <4> QED BY <1>10, <4>1, <4>2, <4>3, EnterDoes
    <3> QED BY <2>1, <2>3, <3>1, <3>2, <3>4, <3>7, CallAssumption, BooksKept DEF AtWork, Pass
  <2> QED BY <1>10, <2>2, <2>3, EnterDoes DEF Moves
<1>11. ASSUME NEW p \in Pass, NotServing(p) PROVE Books'
  <2>1. /\ pc[p] = "poll" /\ LeaveEffect(p)
        /\ UNCHANGED <<rec, reported, stale, torn, bought, landed>>
    BY <1>11, NotServingDoes
  <2>2. PICK j \in Call : at[p] = j
    BY <2>1 DEF TypedInv, PlaceOf, Holds, Worker, Pass
  <2>3. WorksOn(p, j) /\ p \in AtWork
    BY <2>1, <2>2 DEF WorksOn, PendingAt, AtWork
  <2>4. Worked(j, {"poll"})
    BY <2>1, <2>3, OneWorksOn DEF Worked
  <2>5. Pending(j, rec[j]) => Pending(j, rec[j])'
    BY <2>1 DEF Pending, Bought
  <2>6. ASSUME j \notin torn'
        PROVE  /\ rec'[j].status = "running" =>
                    /\ ~rec'[j].metered /\ reported'[j] = 0
                    /\ rec'[j].banked = rec'[j].advances /\ rec'[j].advances <= MaxAdvances
                    /\ Pending(j, rec[j])' /\ landed[j] = 0
               /\ Terminal(rec'[j]) => rec'[j].metered /\ reported'[j] = Len(bought[j])
    <3>1. RecordBooks(j)
      BY <2>1, <2>6 DEF Books, BooksOf
    <3> QED BY <2>1, <2>4, <2>5, <3>1 DEF RecordBooks, Terminal
  <2> QED BY <2>1, <2>3, <2>6, BooksLeft
<1>12. ASSUME NEW p \in Pass, Progress(p), ~LostEffect(p) PROVE Books'
  <2>1. /\ pc[p] = "poll" /\ LeaveEffect(p) /\ SaveEffect(p, DueNow(copy[p], FALSE))
        /\ bought' = bought /\ landed' = landed
    BY <1>12, ProgressDoes
  <2>2. copy[p] \in Record /\ p \in AtWork
    BY DEF TypedInv, Typed, Worker, Pass, AtWork
  <2>3. SameBooks(DueNow(copy[p], FALSE), copy[p])
    BY <2>2, DueNowJob DEF SameBooks
  <2> QED BY <2>1, <2>2, <2>3, BooksPutDown
<1>13. ASSUME NEW p \in Pass, TimedOut(p) PROVE Books'
  <2>1. /\ Alone(p) /\ pc[p] = "poll" /\ pc'[p] = "failing" /\ at'[p] = at[p]
        /\ copy'[p] = Banked(copy[p], copy[p].model)
        /\ UNCHANGED <<rec, torn, stale, reported, bought, landed>>
    BY <1>13, TimedOutDoes DEF Moves, BillEffect
  <2>2. /\ p \in AtWork /\ PlaceOf(p) /\ ModelOf(p) /\ copy[p] \in Record
        /\ copy[p].banked \in Nat /\ copy[p].advances \in Nat
    BY Fields DEF TypedInv, Typed, AtWork, Worker, Pass
  <2>3. PICK j \in Call : at[p] = j
    BY <2>1, <2>2 DEF PlaceOf, Holds
  <2>4. /\ WorksOn(p, j) /\ pc[p] \notin OverAt
        /\ pc'[p] \in (BankingAt \cup PendingAt) \ {"poll"}
    BY <2>1, <2>3 DEF WorksOn, BankingAt, PendingAt, OverAt
  <2>5. copy[p].model \in Model
    BY <2>1, <2>2 DEF ModelOf, AfterJob, Rendering
  <2>6. /\ copy'[p].banked = copy[p].banked + 1
        /\ copy'[p].tried = copy[p].tried \cup {copy[p].model}
        /\ copy'[p].status = copy[p].status /\ copy'[p].model = copy[p].model
        /\ copy'[p].metered = copy[p].metered /\ copy'[p].advances = copy[p].advances
    BY <2>1, <2>2, <2>5, BankedJob
  <2>7. ASSUME j \notin torn PROVE HolderBooks(p, j)' /\ InBounds(j)'
    <3>1. HolderBooks(p, j) /\ InBounds(j)
      BY <2>2, <2>4, <2>7 DEF Books, BooksOf
    <3>2. HolderBooks(p, j)'
      BY <2>1, <2>2, <2>3, <2>6, <3>1 DEF HolderBooks, Banking, Pending, Bought,
         BankingAt, PendingAt, OverAt
    <3>3. InBounds(j)'
      BY <2>1, <3>1 DEF InBounds
    <3> QED BY <3>2, <3>3
  <2>8. \A i \in Call \ {j} : bought'[i] = bought[i] /\ landed'[i] = landed[i]
    BY <2>1, <2>3 DEF TypedInv, Typed
  <2> QED BY <2>1, <2>2, <2>3, <2>4, <2>7, <2>8, BooksAdvance
<1>14. ASSUME NEW p \in Pass, PollFailed(p) PROVE Books'
  <2>1. /\ pc[p] = "poll" /\ Alone(p) /\ BillEffect(p) /\ at' = at
        /\ UNCHANGED <<rec, torn, stale, reported, bought, landed>>
    BY <1>14, PollFailedDoes
  <2> QED BY <2>1, BooksBilled DEF AtWork
<1>15. ASSUME NEW p \in Pass, PollSucceeded(p) PROVE Books'
  <2>1. /\ Alone(p) /\ pc[p] = "poll" /\ pc'[p] = "store" /\ at'[p] = at[p]
        /\ copy'[p] = copy[p]
        /\ UNCHANGED <<rec, torn, stale, reported, bought, landed>>
    BY <1>15, PollSucceededDoes DEF Moves, BillEffect
  <2>2. /\ p \in AtWork /\ PlaceOf(p) /\ ModelOf(p) /\ copy[p] \in Record
        /\ copy[p].banked \in Nat /\ copy[p].advances \in Nat
    BY Fields DEF TypedInv, Typed, AtWork, Worker, Pass
  <2>3. PICK j \in Call : at[p] = j
    BY <2>1, <2>2 DEF PlaceOf, Holds
  <2>4. /\ WorksOn(p, j) /\ pc[p] \notin OverAt
        /\ pc'[p] \in (BankingAt \cup PendingAt) \ {"poll"}
    BY <2>1, <2>3 DEF WorksOn, BankingAt, PendingAt, OverAt
  <2>5. ASSUME j \notin torn PROVE HolderBooks(p, j)' /\ InBounds(j)'
    <3>1. HolderBooks(p, j) /\ InBounds(j)
      BY <2>2, <2>4, <2>5 DEF Books, BooksOf
    <3>2. HolderBooks(p, j)'
      BY <2>1, <2>2, <2>3, <3>1 DEF HolderBooks, Banking, Pending, Bought,
         BankingAt, PendingAt, OverAt
    <3>3. InBounds(j)'
      BY <2>1, <3>1 DEF InBounds
    <3> QED BY <3>2, <3>3
  <2>6. \A i \in Call \ {j} : bought'[i] = bought[i] /\ landed'[i] = landed[i]
    BY <2>1, <2>3 DEF TypedInv, Typed
  <2> QED BY <2>1, <2>2, <2>3, <2>4, <2>5, <2>6, BooksAdvance
<1>16. ASSUME NEW p \in Pass, DrawFails(p), ~LostEffect(p) PROVE Books'
  <2>1. /\ pc[p] \in OverAt /\ bought' = bought /\ landed' = landed /\ p \in AtWork
    BY <1>16, DrawFailsDoes DEF OverAt, AtWork
  <2>2. PICK j \in Call : at[p] = j
    BY <2>1 DEF TypedInv, PlaceOf, Holds, OverAt, Worker, Pass
  <2>3. Holds(p) /\ WorksOn(p, j) /\ copy[p] \in Record
    BY <2>1, <2>2 DEF Holds, WorksOn, OverAt, TypedInv, Typed, Worker, Pass
  <2>4. ASSUME j \notin torn
        PROVE  /\ Terminal(copy[p]) /\ copy[p].metered /\ reported[j] = Len(bought[j])
               /\ rec[j].status # "running"
               /\ Terminal(rec[j]) => rec[j].metered
    <3>1. HolderBooks(p, j) /\ RecordBooks(j)
      BY <2>1, <2>3, <2>4 DEF Books, BooksOf
    <3> QED BY <2>1, <3>1 DEF HolderBooks, RecordBooks
  <2>5. CASE LeaveEffect(p) /\ SaveEffect(p, DueNow(copy[p], FALSE))
    <3>1. /\ DueNow(copy[p], FALSE).status = copy[p].status
          /\ DueNow(copy[p], FALSE).metered = copy[p].metered
      BY <2>3, DueNowJob
    <3>2. /\ torn \subseteq torn' /\ stale \subseteq stale' \cup {p}
          /\ \A i \in Call \ {j} : rec'[i] = rec[i] /\ reported'[i] = reported[i]
      BY <2>2, <2>5 DEF SaveEffect, TypedInv, Typed
    <3>3. ASSUME j \notin torn'
          PROVE  /\ rec'[j].status # "running" /\ rec'[j].metered
                 /\ reported'[j] = Len(bought[j])
      <4>1. Terminal(copy[p]) /\ copy[p].metered /\ reported[j] = Len(bought[j])
        BY <2>4, <3>2, <3>3
      <4>2. rec'[j].status = copy[p].status /\ reported'[j] = reported[j]
        BY <2>2, <2>5, <3>1, <4>1 DEF SaveEffect
      <4>3. rec'[j].metered
        BY <2>2, <2>5, <3>1, <4>1 DEF SaveEffect, Terminal
      <4> QED BY <4>1, <4>2, <4>3 DEF Terminal
    <3> QED BY <2>1, <2>3, <2>5, <3>2, <3>3, BooksLeft
  <2>6. CASE /\ Moves(p, "draw", "refail", Banked(copy[p], copy[p].model)) /\ at' = at
             /\ UNCHANGED <<rec, reported, stale, torn>>
    <3>1. copy[p].model \in Model
      BY <2>6 DEF Moves, TypedInv, ModelOf, AfterJob, Worker, Pass
    <3>2. /\ Alone(p) /\ pc'[p] = "refail" /\ copy'[p].status = copy[p].status
          /\ copy'[p].metered = copy[p].metered
      BY <2>3, <2>6, <3>1, BankedJob DEF Moves
    <3>3. WorksOn(p, j)' /\ \A i \in Call \ {j} : ~WorksOn(p, i)'
      BY <2>2, <2>6, <3>2 DEF WorksOn, OverAt
    <3>4. ASSUME j \notin torn PROVE BooksOf(j)'
      <4>1. \A o \in AtWork \ {p} : ~WorksOn(o, j)'
        BY <2>1, <2>3, <3>2, OneWorksOn DEF WorksOn, Alone, AtWork, Worker
      <4>2. RecordBooks(j)'
        BY <2>1, <2>4, <2>6, <3>2, <3>4, <4>1 DEF RecordBooks, Worked, OverAt, Terminal
      <4>3. InBounds(j)'
        BY <2>1, <3>4 DEF Books, BooksOf, InBounds
      <4>4. HolderBooks(p, j)'
        BY <2>1, <2>4, <2>6, <3>2, <3>4
           DEF HolderBooks, BankingAt, PendingAt, OverAt, Terminal
      <4> QED BY <4>1, <4>2, <4>3, <4>4 DEF BooksOf
    <3> QED BY <2>1, <2>2, <2>3, <2>6, <3>2, <3>3, <3>4, BooksKept
  <2>7. CASE LeaveEffect(p) /\ UNCHANGED <<rec, reported, stale, torn>>
    BY <2>1, <2>7, BooksLeftOver
  <2> QED BY <1>16, <2>5, <2>6, <2>7, DrawFailsDoes
<1>17. ASSUME NEW w \in Call \cup Pass, Again(w) PROVE Books'
  <2>1. CASE Moves(w, "again", "resent", copy[w]) /\ cand'[w] \in Model \ copy[w].tried
    <3>1. /\ Alone(w) /\ pc[w] = "again" /\ pc'[w] = "resent" /\ at'[w] = at[w]
          /\ copy'[w] = copy[w]
          /\ UNCHANGED <<rec, torn, stale, reported, bought, landed>>
          /\ cand'[w] \notin copy[w].tried
      BY <2>1, <1>17, AgainDoes DEF Moves, BillEffect
    <3>2. /\ w \in AtWork /\ PlaceOf(w) /\ ModelOf(w) /\ copy[w] \in Record
          /\ copy[w].banked \in Nat /\ copy[w].advances \in Nat
      BY Fields DEF TypedInv, Typed, AtWork, Worker, Pass
    <3>3. PICK j \in Call : at[w] = j
      BY <3>1, <3>2 DEF PlaceOf, Holds
    <3>4. /\ WorksOn(w, j) /\ pc[w] \notin OverAt
          /\ pc'[w] \in (BankingAt \cup PendingAt) \ {"poll"}
      BY <3>1, <3>3 DEF WorksOn, BankingAt, PendingAt, OverAt
    <3>5. ASSUME j \notin torn PROVE HolderBooks(w, j)' /\ InBounds(j)'
      <4>1. HolderBooks(w, j) /\ InBounds(j)
        BY <3>2, <3>4, <3>5 DEF Books, BooksOf
      <4>2. HolderBooks(w, j)'
        BY <3>1, <3>2, <3>3, <4>1 DEF HolderBooks, Banking, Pending, Bought,
           BankingAt, PendingAt, OverAt
      <4>3. InBounds(j)'
        BY <3>1, <4>1 DEF InBounds
      <4> QED BY <4>2, <4>3
    <3>6. \A i \in Call \ {j} : bought'[i] = bought[i] /\ landed'[i] = landed[i]
      BY <3>1, <3>3 DEF TypedInv, Typed
    <3> QED BY <3>1, <3>2, <3>3, <3>4, <3>5, <3>6, BooksAdvance
  <2>2. CASE Moves(w, "again", "failing", copy[w])
    <3>1. /\ Alone(w) /\ pc[w] = "again" /\ pc'[w] = "failing" /\ at'[w] = at[w]
          /\ copy'[w] = copy[w]
          /\ UNCHANGED <<rec, torn, stale, reported, bought, landed>>
      BY <2>2, <1>17, AgainDoes DEF Moves, BillEffect
    <3>2. /\ w \in AtWork /\ PlaceOf(w) /\ ModelOf(w) /\ copy[w] \in Record
          /\ copy[w].banked \in Nat /\ copy[w].advances \in Nat
      BY Fields DEF TypedInv, Typed, AtWork, Worker, Pass
    <3>3. PICK j \in Call : at[w] = j
      BY <3>1, <3>2 DEF PlaceOf, Holds
    <3>4. /\ WorksOn(w, j) /\ pc[w] \notin OverAt
          /\ pc'[w] \in (BankingAt \cup PendingAt) \ {"poll"}
      BY <3>1, <3>3 DEF WorksOn, BankingAt, PendingAt, OverAt
    <3>5. ASSUME j \notin torn PROVE HolderBooks(w, j)' /\ InBounds(j)'
      <4>1. HolderBooks(w, j) /\ InBounds(j)
        BY <3>2, <3>4, <3>5 DEF Books, BooksOf
      <4>2. HolderBooks(w, j)'
        BY <3>1, <3>2, <3>3, <4>1 DEF HolderBooks, Banking, Pending, Bought,
           BankingAt, PendingAt, OverAt
      <4>3. InBounds(j)'
        BY <3>1, <4>1 DEF InBounds
      <4> QED BY <4>2, <4>3
    <3>6. \A i \in Call \ {j} : bought'[i] = bought[i] /\ landed'[i] = landed[i]
      BY <3>1, <3>3 DEF TypedInv, Typed
    <3> QED BY <3>1, <3>2, <3>3, <3>4, <3>5, <3>6, BooksAdvance
  <2> QED BY <1>17, <2>1, <2>2, AgainDoes DEF Moves, BillEffect
<1>18. ASSUME NEW w \in Call \cup Pass, Refused(w, "resent", "failing") PROVE Books'
  <2>1. /\ Alone(w) /\ pc[w] = "resent" /\ pc'[w] = "failing" /\ at'[w] = at[w]
        /\ copy'[w] = Tried(copy[w], cand[w])
        /\ UNCHANGED <<rec, torn, stale, reported, bought, landed>>
    BY <1>18, AgainRefusedDoes DEF Moves, BillEffect
  <2>2. /\ w \in AtWork /\ PlaceOf(w) /\ ModelOf(w) /\ copy[w] \in Record
        /\ copy[w].banked \in Nat /\ copy[w].advances \in Nat
    BY Fields DEF TypedInv, Typed, AtWork, Worker, Pass
  <2>3. PICK j \in Call : at[w] = j
    BY <2>1, <2>2 DEF PlaceOf, Holds
  <2>4. /\ WorksOn(w, j) /\ pc[w] \notin OverAt
        /\ pc'[w] \in (BankingAt \cup PendingAt) \ {"poll"}
    BY <2>1, <2>3 DEF WorksOn, BankingAt, PendingAt, OverAt
  <2>5. cand[w] \in Model
    BY <2>1, <2>2 DEF ModelOf, AfterJob, Rendering
  <2>6. /\ copy'[w].banked = copy[w].banked /\ copy'[w].tried = copy[w].tried \cup {cand[w]}
        /\ copy'[w].status = copy[w].status /\ copy'[w].model = copy[w].model
        /\ copy'[w].metered = copy[w].metered /\ copy'[w].advances = copy[w].advances
    BY <2>1, <2>2, <2>5, TriedJob
  <2>7. ASSUME j \notin torn PROVE HolderBooks(w, j)' /\ InBounds(j)'
    <3>1. HolderBooks(w, j) /\ InBounds(j)
      BY <2>2, <2>4, <2>7 DEF Books, BooksOf
    <3>2. HolderBooks(w, j)'
      BY <2>1, <2>2, <2>3, <2>6, <3>1 DEF HolderBooks, Banking, Pending, Bought,
         BankingAt, PendingAt, OverAt
    <3>3. InBounds(j)'
      BY <2>1, <3>1 DEF InBounds
    <3> QED BY <3>2, <3>3
  <2>8. \A i \in Call \ {j} : bought'[i] = bought[i] /\ landed'[i] = landed[i]
    BY <2>1, <2>3 DEF TypedInv, Typed
  <2> QED BY <2>1, <2>2, <2>3, <2>4, <2>7, <2>8, BooksAdvance
<1>19. ASSUME NEW w \in Call \cup Pass, Empty(w, "resent", "failing") PROVE Books'
  <2>1. /\ Alone(w) /\ pc[w] = "resent" /\ pc'[w] = "failing" /\ at'[w] = at[w]
        /\ copy'[w] = Banked(copy[w], cand[w])
        /\ UNCHANGED <<rec, torn, stale, reported, landed>>
        /\ bought' = [bought EXCEPT ![at[w]] = Append(@, cand[w])]
    BY <1>19, AgainEmptyDoes DEF Moves, BillEffect
  <2>2. /\ w \in AtWork /\ PlaceOf(w) /\ ModelOf(w) /\ copy[w] \in Record
        /\ copy[w].banked \in Nat /\ copy[w].advances \in Nat
    BY Fields DEF TypedInv, Typed, AtWork, Worker, Pass
  <2>3. PICK j \in Call : at[w] = j
    BY <2>1, <2>2 DEF PlaceOf, Holds
  <2>4. /\ WorksOn(w, j) /\ pc[w] \notin OverAt
        /\ pc'[w] \in (BankingAt \cup PendingAt) \ {"poll"}
    BY <2>1, <2>3 DEF WorksOn, BankingAt, PendingAt, OverAt
  <2>5. cand[w] \in Model
    BY <2>1, <2>2 DEF ModelOf, AfterJob, Rendering
  <2>6. /\ copy'[w].banked = copy[w].banked + 1 /\ copy'[w].tried = copy[w].tried \cup {cand[w]}
        /\ copy'[w].status = copy[w].status /\ copy'[w].model = copy[w].model
        /\ copy'[w].metered = copy[w].metered /\ copy'[w].advances = copy[w].advances
    BY <2>1, <2>2, <2>5, BankedJob
  <2>7. ASSUME j \notin torn PROVE HolderBooks(w, j)' /\ InBounds(j)'
    <3>1. HolderBooks(w, j) /\ InBounds(j)
      BY <2>2, <2>4, <2>7 DEF Books, BooksOf
    <3>2. /\ Len(bought[j]) = copy[w].banked
          /\ Bought(j, copy[w].tried)
          /\ cand[w] \notin copy[w].tried
      BY <2>1, <3>1 DEF HolderBooks, Banking, BankingAt
    <3>3. bought' = [bought EXCEPT ![j] = Append(@, cand[w])]
      BY <2>1, <2>3
    <3>4. /\ Len(bought'[j]) = copy[w].banked + 1 /\ InBounds(j)
          /\ \A i \in DOMAIN bought'[j] : bought'[j][i] \in copy[w].tried \cup {cand[w]}
          /\ \A i, k \in DOMAIN bought'[j] : bought'[j][i] = bought'[j][k] => i = k
      <4> DEFINE S == copy[w].tried
                 m == cand[w]
      <4>1. /\ InBounds(j) /\ Len(bought[j]) = copy[w].banked /\ m \in Model /\ m \notin S
            /\ Bought(j, S) /\ bought' = [bought EXCEPT ![j] = Append(@, m)]
        BY <2>5, <3>1, <3>2, <3>3
      <4> HIDE DEF S, m
      <4>2. Len(bought'[j]) = copy[w].banked + 1
        BY <4>1, PaidBooks
      <4>3. \A i \in DOMAIN bought'[j] : bought'[j][i] \in S \cup {m}
        BY <4>1, PaidBooks
      <4>4. \A i, k \in DOMAIN bought'[j] : bought'[j][i] = bought'[j][k] => i = k
        BY <4>1, PaidBooks
      <4> QED BY <4>1, <4>2, <4>3, <4>4 DEF S, m
    <3>5. copy[w].banked <= MaxAdvances
      BY <2>1, <3>1 DEF HolderBooks
    <3>6. HolderBooks(w, j)'
      BY <2>1, <2>2, <2>3, <2>6, <3>1, <3>4, <3>5 DEF HolderBooks, Banking, Pending,
         Bought, BankingAt, PendingAt, OverAt
    <3>7. InBounds(j)'
      <4>1. Len(bought'[j]) <= MaxAdvances + 1
        BY <2>2, <3>4, <3>5, BudgetAssumption
      <4>2. landed'[j] <= 1
        BY <2>1, <3>1 DEF InBounds
      <4> QED BY <3>4, <4>1, <4>2 DEF InBounds
    <3> QED BY <3>6, <3>7
  <2>8. \A i \in Call \ {j} : bought'[i] = bought[i] /\ landed'[i] = landed[i]
    BY <2>1, <2>3 DEF TypedInv, Typed
  <2> QED BY <2>1, <2>2, <2>3, <2>4, <2>7, <2>8, BooksAdvance
<1>20. ASSUME NEW w \in Call \cup Pass, Accepted(w, "resent", copy[w], IF cand[w]
             \in Inline THEN "restore" ELSE "keep")
      PROVE  Books'
  <2>1. /\ Alone(w) /\ pc[w] = "resent" /\ pc'[w] \in {"keep", "restore"} /\ at'[w] = at[w]
        /\ copy'[w] = Taken(copy[w], cand[w])
        /\ UNCHANGED <<rec, torn, stale, reported, landed>>
        /\ bought' = [bought EXCEPT ![at[w]] = Append(@, cand[w])]
    BY <1>20, AgainAcceptedDoes DEF Moves, BillEffect
  <2>2. /\ w \in AtWork /\ PlaceOf(w) /\ ModelOf(w) /\ copy[w] \in Record
        /\ copy[w].banked \in Nat /\ copy[w].advances \in Nat
    BY Fields DEF TypedInv, Typed, AtWork, Worker, Pass
  <2>3. PICK j \in Call : at[w] = j
    BY <2>1, <2>2 DEF PlaceOf, Holds
  <2>4. /\ WorksOn(w, j) /\ pc[w] \notin OverAt
        /\ pc'[w] \in (BankingAt \cup PendingAt) \ {"poll"}
    BY <2>1, <2>3 DEF WorksOn, BankingAt, PendingAt, OverAt
  <2>5. cand[w] \in Model
    BY <2>1, <2>2 DEF ModelOf, AfterJob, Rendering
  <2>6. /\ copy'[w].banked = copy[w].banked /\ copy'[w].tried = copy[w].tried
        /\ copy'[w].status = copy[w].status /\ copy'[w].model = cand[w]
        /\ copy'[w].metered = copy[w].metered /\ copy'[w].advances = copy[w].advances
    <3>1. copy[w] \in Record
      BY <2>2
    <3>2. /\ Taken(copy[w], cand[w]).banked = copy[w].banked
          /\ Taken(copy[w], cand[w]).tried = copy[w].tried
          /\ Taken(copy[w], cand[w]).status = copy[w].status
          /\ Taken(copy[w], cand[w]).model = cand[w]
          /\ Taken(copy[w], cand[w]).metered = copy[w].metered
          /\ Taken(copy[w], cand[w]).advances = copy[w].advances
      BY <3>1, <2>5, TakenJob
    <3> QED BY <2>1, <3>1, <3>2
  <2>7. ASSUME j \notin torn PROVE HolderBooks(w, j)' /\ InBounds(j)'
    <3>1. HolderBooks(w, j) /\ InBounds(j)
      BY <2>2, <2>4, <2>7 DEF Books, BooksOf
    <3>2. /\ Len(bought[j]) = copy[w].banked
          /\ Bought(j, copy[w].tried)
          /\ cand[w] \notin copy[w].tried
      BY <2>1, <3>1 DEF HolderBooks, Banking, BankingAt
    <3>3. bought' = [bought EXCEPT ![j] = Append(@, cand[w])]
      BY <2>1, <2>3
    <3>4. /\ Len(bought'[j]) = copy[w].banked + 1 /\ InBounds(j)
          /\ \A i \in DOMAIN bought'[j] : bought'[j][i] \in copy[w].tried \cup {cand[w]}
          /\ \A i, k \in DOMAIN bought'[j] : bought'[j][i] = bought'[j][k] => i = k
      <4> DEFINE S == copy[w].tried
                 m == cand[w]
      <4>1. /\ InBounds(j) /\ Len(bought[j]) = copy[w].banked /\ m \in Model /\ m \notin S
            /\ Bought(j, S) /\ bought' = [bought EXCEPT ![j] = Append(@, m)]
        BY <2>5, <3>1, <3>2, <3>3
      <4> HIDE DEF S, m
      <4>2. Len(bought'[j]) = copy[w].banked + 1
        BY <4>1, PaidBooks
      <4>3. \A i \in DOMAIN bought'[j] : bought'[j][i] \in S \cup {m}
        BY <4>1, PaidBooks
      <4>4. \A i, k \in DOMAIN bought'[j] : bought'[j][i] = bought'[j][k] => i = k
        BY <4>1, PaidBooks
      <4> QED BY <4>1, <4>2, <4>3, <4>4 DEF S, m
    <3>5. copy[w].banked <= MaxAdvances
      BY <2>1, <3>1 DEF HolderBooks
    <3>6. HolderBooks(w, j)'
      BY <2>1, <2>2, <2>3, <2>6, <3>1, <3>4, <3>5 DEF HolderBooks, Banking, Pending,
         Bought, BankingAt, PendingAt, OverAt
    <3>7. InBounds(j)'
      <4>1. Len(bought'[j]) <= MaxAdvances + 1
        BY <2>2, <3>4, <3>5, BudgetAssumption
      <4>2. landed'[j] <= 1
        BY <2>1, <3>1 DEF InBounds
      <4> QED BY <3>4, <4>1, <4>2 DEF InBounds
    <3> QED BY <3>6, <3>7
  <2>8. \A i \in Call \ {j} : bought'[i] = bought[i] /\ landed'[i] = landed[i]
    BY <2>1, <2>3 DEF TypedInv, Typed
  <2> QED BY <2>1, <2>2, <2>3, <2>4, <2>7, <2>8, BooksAdvance
<1>21. ASSUME NEW w \in Call \cup Pass, Resume(w), ~LostEffect(w) PROVE Books'
  <2>1. /\ pc[w] = "keep" /\ LeaveEffect(w) /\ SaveEffect(w, copy[w])
        /\ bought' = bought /\ landed' = landed
    BY <1>21, ResumeDoes
  <2> QED BY <2>1, BooksPutDown DEF SameBooks, AtWork
<1>22. ASSUME NEW w \in Call \cup Pass, FileGood(w) PROVE Books'
  <2>1. /\ Alone(w) /\ pc[w] \in {"store", "restore"} /\ pc'[w] = "landing" /\ at'[w] = at[w]
        /\ copy'[w] = Ended(copy[w], "succeeded")
        /\ UNCHANGED <<rec, torn, stale, reported, bought>>
        /\ landed' = [landed EXCEPT ![at[w]] = @ + 1]
    BY <1>22, FileGoodDoes DEF Moves, BillEffect
  <2>2. /\ w \in AtWork /\ PlaceOf(w) /\ ModelOf(w) /\ copy[w] \in Record
        /\ copy[w].banked \in Nat /\ copy[w].advances \in Nat
    BY Fields DEF TypedInv, Typed, AtWork, Worker, Pass
  <2>3. PICK j \in Call : at[w] = j
    BY <2>1, <2>2 DEF PlaceOf, Holds
  <2>4. /\ WorksOn(w, j) /\ pc[w] \notin OverAt
        /\ pc'[w] \in (BankingAt \cup PendingAt) \ {"poll"}
    BY <2>1, <2>3 DEF WorksOn, BankingAt, PendingAt, OverAt
  <2>5. /\ copy'[w].banked = copy[w].banked /\ copy'[w].tried = copy[w].tried
        /\ copy'[w].status = "succeeded" /\ copy'[w].model = copy[w].model
        /\ copy'[w].metered = copy[w].metered /\ copy'[w].advances = copy[w].advances
    BY <2>1, <2>2, EndedJob
  <2>6. ASSUME j \notin torn PROVE HolderBooks(w, j)' /\ InBounds(j)'
    <3>1. HolderBooks(w, j) /\ InBounds(j)
      BY <2>2, <2>4, <2>6 DEF Books, BooksOf
    <3>2. HolderBooks(w, j)'
      BY <2>1, <2>2, <2>3, <2>5, <3>1 DEF HolderBooks, Banking, Pending, Bought,
         BankingAt, PendingAt, OverAt
    <3>3. InBounds(j)'
      BY <2>1, <2>3, <3>1 DEF InBounds, HolderBooks, PendingAt, TypedInv, Typed
    <3> QED BY <3>2, <3>3
  <2>7. \A i \in Call \ {j} : bought'[i] = bought[i] /\ landed'[i] = landed[i]
    BY <2>1, <2>3 DEF TypedInv, Typed
  <2> QED BY <2>1, <2>2, <2>3, <2>4, <2>6, <2>7, BooksAdvance
<1>23. ASSUME NEW w \in Call \cup Pass, FileBad(w) PROVE Books'
  <2>1. CASE pc[w] = "store" /\ Alone(w) /\ BillEffect(w)
    <3>1. at' = at /\ UNCHANGED <<rec, torn, stale, reported, bought, landed>>
      BY <1>23, FileBadDoes
    <3> QED BY <2>1, <3>1, BooksBilled DEF AtWork
  <2>2. CASE Moves(w, "restore", "failing", Banked(copy[w], copy[w].model))
    <3>1. /\ Alone(w) /\ pc[w] = "restore" /\ pc'[w] = "failing" /\ at'[w] = at[w]
          /\ copy'[w] = Banked(copy[w], copy[w].model)
          /\ UNCHANGED <<rec, torn, stale, reported, bought, landed>>
      BY <2>2, <1>23, FileBadDoes DEF Moves, BillEffect
    <3>2. /\ w \in AtWork /\ PlaceOf(w) /\ ModelOf(w) /\ copy[w] \in Record
          /\ copy[w].banked \in Nat /\ copy[w].advances \in Nat
      BY Fields DEF TypedInv, Typed, AtWork, Worker, Pass
    <3>3. PICK j \in Call : at[w] = j
      BY <3>1, <3>2 DEF PlaceOf, Holds
    <3>4. /\ WorksOn(w, j) /\ pc[w] \notin OverAt
          /\ pc'[w] \in (BankingAt \cup PendingAt) \ {"poll"}
      BY <3>1, <3>3 DEF WorksOn, BankingAt, PendingAt, OverAt
    <3>5. copy[w].model \in Model
      BY <3>1, <3>2 DEF ModelOf, AfterJob, Rendering
    <3>6. /\ copy'[w].banked = copy[w].banked + 1
          /\ copy'[w].tried = copy[w].tried \cup {copy[w].model}
          /\ copy'[w].status = copy[w].status /\ copy'[w].model = copy[w].model
          /\ copy'[w].metered = copy[w].metered /\ copy'[w].advances = copy[w].advances
      BY <3>1, <3>2, <3>5, BankedJob
    <3>7. ASSUME j \notin torn PROVE HolderBooks(w, j)' /\ InBounds(j)'
      <4>1. HolderBooks(w, j) /\ InBounds(j)
        BY <3>2, <3>4, <3>7 DEF Books, BooksOf
      <4>2. HolderBooks(w, j)'
        BY <3>1, <3>2, <3>3, <3>6, <4>1 DEF HolderBooks, Banking, Pending, Bought,
           BankingAt, PendingAt, OverAt
      <4>3. InBounds(j)'
        BY <3>1, <4>1 DEF InBounds
      <4> QED BY <4>2, <4>3
    <3>8. \A i \in Call \ {j} : bought'[i] = bought[i] /\ landed'[i] = landed[i]
      BY <3>1, <3>3 DEF TypedInv, Typed
    <3> QED BY <3>1, <3>2, <3>3, <3>4, <3>7, <3>8, BooksAdvance
  <2> QED BY <1>23, <2>1, <2>2, FileBadDoes
<1>24. ASSUME NEW w \in Call \cup Pass, Settle(w), ~LostEffect(w) PROVE Books'
  <2> DEFINE c == Settled(w)
  <2>1. /\ pc[w] \in {"landing", "failing", "refail"} /\ c \in Record /\ SaveEffect(w, c)
        /\ Alone(w) /\ pc'[w] = IF pc[w] = "refail" THEN "redraw" ELSE "draw"
        /\ copy'[w] = Marked(c, TRUE) /\ at' = at /\ bought' = bought /\ landed' = landed
    BY <1>24, SettleDoes DEF Moves
  <2>2. PICK j \in Call : at[w] = j
    BY <2>1 DEF SaveEffect
  <2>3. copy[w] \in Record /\ copy[w].banked \in Nat /\ w \in AtWork
    BY Fields DEF TypedInv, Typed, AtWork, Worker, Pass
  <2>4. /\ Holds(w) /\ WorksOn(w, j) /\ WorksOn(w, j)' /\ pc'[w] \in {"draw", "redraw"}
        /\ \A i \in Call \ {j} : ~WorksOn(w, i)'
    BY <2>1, <2>2 DEF Holds, WorksOn, BankingAt, PendingAt, OverAt
  <2>5. /\ pc[w] = "landing" => c = copy[w] /\ c.status = "succeeded"
        /\ pc[w] # "landing" => c.status = "failed"
        /\ c.metered = copy[w].metered /\ c.banked = copy[w].banked
    BY <2>1, <2>3, EndedJob DEF Settled, TypedInv, ModelOf, AtWork, Worker, Pass
  <2>6. Marked(c, TRUE).status = c.status /\ Marked(c, TRUE).metered = TRUE
    <3>1. Marked(c, TRUE).metered = (c.metered \/ TRUE) /\ Marked(c, TRUE).status = c.status
      BY <2>1, MarkedJob
    <3> QED BY <3>1
  <2> HIDE DEF c
  <2>7. /\ torn \subseteq torn' /\ stale \subseteq stale' \cup {w}
        /\ \A i \in Call \ {j} : rec'[i] = rec[i] /\ reported'[i] = reported[i]
    BY <2>1, <2>2 DEF SaveEffect, TypedInv, Typed
  <2>8. Terminal(c)
    BY <2>5 DEF Terminal
  <2>9. rec'[j].status = c.status /\ rec'[j].metered
    BY <2>1, <2>2, <2>8 DEF SaveEffect
  <2>10. ASSUME j \notin torn' PROVE BooksOf(j)'
    <3>1. HolderBooks(w, j) /\ InBounds(j)
      BY <2>3, <2>4, <2>7, <2>10 DEF Books, BooksOf
    <3>2. reported'[j] = Len(bought[j])
      <4>1. CASE pc[w] = "landing"
        <5>1. /\ reported[j] = 0 /\ ~c.metered /\ Len(bought[j]) = c.banked + 1
          BY <2>5, <3>1, <4>1 DEF HolderBooks, PendingAt, BankingAt, Pending
        <5>2. Spent(c) = c.banked + 1
          BY <2>5, <4>1 DEF Spent
        <5> QED BY <2>1, <2>2, <2>3, <2>5, <2>8, <5>1, <5>2 DEF SaveEffect
      <4>2. CASE pc[w] = "failing"
        <5>1. /\ reported[j] = 0 /\ ~c.metered /\ Len(bought[j]) = c.banked
          BY <2>5, <3>1, <4>2 DEF HolderBooks, PendingAt, BankingAt, Banking
        <5>2. Spent(c) = c.banked
          BY <2>3, <2>5, <4>2 DEF Spent
        <5> QED BY <2>1, <2>2, <2>3, <2>5, <2>8, <5>1, <5>2 DEF SaveEffect
      <4>3. CASE pc[w] = "refail"
        <5>1. reported[j] = Len(bought[j]) /\ c.metered
          BY <2>5, <3>1, <4>3 DEF HolderBooks, OverAt
        <5> QED BY <2>1, <2>2, <5>1 DEF SaveEffect
      <4> QED BY <2>1, <4>1, <4>2, <4>3
    <3>3. \A o \in AtWork \ {w} : ~WorksOn(o, j)'
      BY <2>1, <2>3, <2>4, OneWorksOn DEF WorksOn, Alone, AtWork, Worker
    <3>4. RecordBooks(j)'
      BY <2>1, <2>4, <2>5, <2>9, <3>2, <3>3 DEF RecordBooks, Worked, OverAt
    <3>5. InBounds(j)'
      BY <2>1, <3>1 DEF InBounds
    <3>6. HolderBooks(w, j)'
      BY <2>1, <2>4, <2>5, <2>6, <2>8, <2>9, <3>2
         DEF HolderBooks, BankingAt, PendingAt, OverAt, Terminal
    <3> QED BY <3>3, <3>4, <3>5, <3>6 DEF BooksOf
  <2>11. w \in Call => pc'[w] # "idle"
    BY <2>4
  <2> QED BY <2>1, <2>2, <2>3, <2>4, <2>7, <2>10, <2>11, BooksKept
<1>25. ASSUME NEW w \in Call \cup Pass, Draw(w) PROVE Books'
  <2>1. /\ pc[w] \in OverAt /\ LeaveEffect(w)
        /\ UNCHANGED <<rec, reported, stale, torn, bought, landed>>
    BY <1>25, DrawDoes DEF OverAt
  <2> QED BY <2>1, BooksLeftOver DEF AtWork
<1>26. ASSUME NEW q \in Place, NEW j \in Call, PlaceRead(q, j) PROVE Books'
  <2>1. /\ Alone(q) /\ torn' = torn /\ stale \subseteq stale' \cup {q}
        /\ UNCHANGED <<rec, reported, bought, landed>>
    BY <1>26, PlaceReadDoes DEF Moves
  <2> QED BY <2>1, BooksUnmoved, CallAssumption DEF SameBooks, Pass
<1>27. ASSUME NEW q \in Place, PlaceDraw(q) PROVE Books'
  <2>1. /\ Alone(q) /\ torn' = torn /\ stale \subseteq stale' \cup {q}
        /\ UNCHANGED <<rec, reported, bought, landed>>
    BY <1>27, PlaceDrawDoes DEF Moves
  <2> QED BY <2>1, BooksUnmoved, CallAssumption DEF SameBooks, Pass
<1>28. ASSUME NEW q \in Place, PlaceSave(q), ~LostEffect(q) PROVE Books'
  <2>1. /\ pc[q] = "name" /\ LeaveEffect(q) /\ SaveEffect(q, Named(copy[q])) /\ Holds(q)
        /\ bought' = bought /\ landed' = landed
    BY <1>28, PlaceSaveDoes DEF Holds
  <2>2. PICK j \in Call : at[q] = j
    BY <2>1 DEF SaveEffect
  <2>3. copy[q] \in Record /\ pc[j] # "idle"
    BY <2>1, <2>2 DEF TypedInv, Typed, OneAtWork, BeforeJob, Worker
  <2>4. /\ Alone(q) /\ torn \subseteq torn' /\ stale \subseteq stale' \cup {q}
        /\ \A i \in Call \ {j} : rec'[i] = rec[i] /\ reported'[i] = reported[i]
    BY <2>1, <2>2 DEF LeaveEffect, SaveEffect, TypedInv, Typed
  <2>5. ASSUME j \notin torn' PROVE SameBooks(rec'[j], rec[j]) /\ reported'[j] = reported[j]
    <3>1. SameJob(copy[q], rec[j])
      BY <2>1, <2>2, <2>5 DEF Fresh, FreshOf, SaveEffect, Worker
    <3>2. /\ Named(copy[q]).status = copy[q].status /\ Named(copy[q]).model = copy[q].model
          /\ Named(copy[q]).advances = copy[q].advances
          /\ Named(copy[q]).banked = copy[q].banked /\ Named(copy[q]).tried = copy[q].tried
          /\ Named(copy[q]).metered = copy[q].metered
      BY <2>3, NamedJob
    <3>3. Terminal(rec[j]) => rec[j].metered
      BY <2>4, <2>5 DEF Books, BooksOf, RecordBooks
    <3>4. copy[q].metered \in BOOLEAN /\ copy[q].metered = rec[j].metered
      BY <2>3, <3>1, Fields DEF SameJob
    <3>5. Terminal(Named(copy[q])) => copy[q].metered
      BY <3>1, <3>2, <3>3, <3>4 DEF SameJob, Terminal
    <3>6. rec'[j].metered = (Named(copy[q]).metered \/ Terminal(Named(copy[q])) \/ rec[j].metered)
      BY <2>1, <2>2 DEF SaveEffect
    <3>7. rec'[j].metered = rec[j].metered
      BY <3>2, <3>4, <3>5, <3>6
    <3>8. reported'[j] = reported[j]
      BY <2>1, <2>2, <3>2, <3>5 DEF SaveEffect
    <3>9. /\ rec'[j].status = rec[j].status /\ rec'[j].model = rec[j].model
          /\ rec'[j].advances = rec[j].advances /\ rec'[j].banked = rec[j].banked
          /\ rec'[j].tried = rec[j].tried
      BY <2>1, <2>2, <3>1, <3>2 DEF SaveEffect, SameJob
    <3> QED BY <3>7, <3>8, <3>9 DEF SameBooks
  <2>6. \A i \in Call \ torn' : SameBooks(rec'[i], rec[i]) /\ reported'[i] = reported[i]
    BY <2>4, <2>5 DEF SameBooks
  <2>7. \A i \in Call : pc[i] = "idle" => reported'[i] = reported[i]
    BY <2>3, <2>4
  <2>8. q \notin Pass
    BY CallAssumption DEF Pass
  <2> QED BY <2>1, <2>4, <2>6, <2>7, <2>8, BooksUnmoved
<1>29. ASSUME NEW j \in Call, FallDue(j) PROVE Books'
  <2>1. /\ rec' = [rec EXCEPT ![j] = DueNow(rec[j], TRUE)] /\ rec[j] \in Record
        /\ UNCHANGED <<pc, at, copy, cand, bought, landed, reported, torn, stale>>
    BY <1>29 DEF FallDue, TypedInv, Typed, workVars, historyVars
  <2>2. SameBooks(DueNow(rec[j], TRUE), rec[j])
    BY <2>1, DueNowJob DEF SameBooks
  <2>3. rec'[j] = DueNow(rec[j], TRUE) /\ \A i \in Call \ {j} : rec'[i] = rec[i]
    BY <2>1 DEF TypedInv, Typed
  <2>4. \A i \in Call : SameBooks(rec'[i], rec[i])
    BY <2>2, <2>3 DEF SameBooks
  <2> QED BY <2>1, <2>4, BooksWorld
<1>30. ASSUME NEW j \in Call, GrowOld(j) PROVE Books'
  <2>1. UNCHANGED <<pc, at, copy, cand, bought, landed, reported, torn, stale, rec>>
    BY <1>30 DEF GrowOld, jobVars, workVars, historyVars
  <2>2. \A i \in Call : SameBooks(rec'[i], rec[i])
    BY <2>1 DEF SameBooks
  <2> QED BY <2>1, <2>2, BooksWorld
<1>31. CASE PurgeMark
  <2>1. /\ rec' = [j \in Call |-> IF ~Known(j) THEN NoRow ELSE Ended(rec[j], "deleted")]
        /\ UNCHANGED <<pc, at, copy, cand, bought, landed, reported, torn>>
        /\ stale \subseteq stale'
    BY <1>31 DEF PurgeMark, workVars
  <2>2. \A i \in Call : /\ Ended(rec[i], "deleted").status = "deleted"
                        /\ Ended(rec[i], "deleted").metered = rec[i].metered
    BY EndedJob DEF TypedInv, Typed
  <2>3. \A i \in Call : rec'[i].status \in {"absent", "deleted"}
                         /\ (rec'[i].metered => rec[i].metered)
    BY <2>1, <2>2, Blanks, NoRowUnreported
  <2> QED BY <2>1, <2>3, BooksWorld
<1>32. CASE PurgeDrop
  <2>1. /\ rec' = [j \in Call |-> NoRow] /\ stale \subseteq stale'
        /\ UNCHANGED <<pc, at, copy, cand, bought, landed, reported, torn>>
    BY <1>32 DEF PurgeDrop, workVars
  <2>2. \A i \in Call : rec'[i].status \in {"absent", "deleted"}
                         /\ (rec'[i].metered => rec[i].metered)
    BY <2>1, Blanks, NoRowUnreported
  <2> QED BY <2>1, <2>2, BooksWorld
<1>33. CASE PurgeAgent
  <2>1. /\ \A i \in Call : rec'[i] = IF rec[i].status = "running"
                                         THEN Ended(rec[i], "deleted") ELSE rec[i]
        /\ UNCHANGED <<pc, at, copy, cand, bought, landed, reported, torn>>
        /\ stale \subseteq stale'
    BY <1>33 DEF PurgeAgent, workVars
  <2>2. \A i \in Call : /\ Ended(rec[i], "deleted").status = "deleted"
                        /\ Ended(rec[i], "deleted").metered = rec[i].metered
    BY EndedJob DEF TypedInv, Typed
  <2>3. \A i \in Call : SameBooks(rec'[i], rec[i])
           \/ (rec'[i].status \in {"absent", "deleted"} /\ (rec'[i].metered => rec[i].metered))
    BY <2>1, <2>2 DEF SameBooks
  <2> QED BY <2>1, <2>3, BooksWorld
<1>34. CASE SwitchOff
  <2>1. UNCHANGED <<pc, at, copy, cand, bought, landed, reported, torn, stale, rec>>
    BY <1>34 DEF SwitchOff, jobVars, workVars, historyVars
  <2>2. \A i \in Call : SameBooks(rec'[i], rec[i])
    BY <2>1 DEF SameBooks
  <2> QED BY <2>1, <2>2, BooksWorld
<1>35. CASE SwitchOn
  <2>1. UNCHANGED <<pc, at, copy, cand, bought, landed, reported, torn, stale, rec>>
    BY <1>35 DEF SwitchOn, jobVars, workVars, historyVars
  <2>2. \A i \in Call : SameBooks(rec'[i], rec[i])
    BY <2>1 DEF SameBooks
  <2> QED BY <2>1, <2>2, BooksWorld
<1>36. CASE Restart
  <2>1. /\ UNCHANGED <<rec, bought, landed, reported>>
        /\ torn' = torn \cup {at[w] : w \in {o \in Worker : Holds(o)}}
        /\ \A w \in Worker : pc'[w] \in {"idle", "over"} /\ copy'[w] = Blank
    BY <1>36 DEF Restart, Active, jobVars
  <2>2. \A d \in Call : pc'[d] = "idle" => pc[d] = "idle"
    BY <1>36, CallAssumption DEF Restart, Active, TypedInv, Typed, Worker, Pass
  <2>3. ASSUME NEW j \in Call \ torn' PROVE BooksOf(j)'
    <3>1. BooksOf(j) /\ \A o \in AtWork : ~WorksOn(o, j)
      BY <2>1 DEF Books, WorksOn, Holds, BankingAt, PendingAt, OverAt, AtWork, Worker
    <3>2. \A o \in AtWork : ~WorksOn(o, j)'
      BY <2>1 DEF WorksOn, BankingAt, PendingAt, OverAt, AtWork, Worker
    <3>3. InBounds(j)'
      BY <2>1, <3>1 DEF BooksOf, InBounds
    <3>4. rec[j].status = "running" => Pending(j, rec[j]) /\ landed[j] = 0
      BY <3>1 DEF BooksOf, RecordBooks, Worked
    <3>5. Pending(j, rec[j]) => Pending(j, rec[j])'
      BY <2>1 DEF Pending, Bought
    <3>6. RecordBooks(j)'
      BY <2>1, <3>1, <3>2, <3>4, <3>5 DEF BooksOf, RecordBooks, Worked, Terminal
    <3> QED BY <3>2, <3>3, <3>6 DEF BooksOf
  <2>4. \A d \in Call : pc'[d] = "idle"
          => reported'[d] = 0 /\ landed'[d] = 0 /\ copy'[d] = Blank
    BY <2>1, <2>2 DEF Books, Worker
  <2> QED BY <2>3, <2>4 DEF Books
<1>38. ASSUME NEW m \in Model, Disconnect(m) PROVE Books'
  <2>1. UNCHANGED <<pc, at, copy, cand, bought, landed, reported, torn, stale, rec>>
    BY <1>38 DEF Disconnect, jobVars, workVars, historyVars
  <2>2. \A i \in Call : SameBooks(rec'[i], rec[i])
    BY <2>1 DEF SameBooks
  <2> QED BY <2>1, <2>2, BooksWorld
<1>39. ASSUME NEW m \in Model, Connect(m) PROVE Books'
  <2>1. UNCHANGED <<pc, at, copy, cand, bought, landed, reported, torn, stale, rec>>
    BY <1>39 DEF Connect, jobVars, workVars, historyVars
  <2>2. \A i \in Call : SameBooks(rec'[i], rec[i])
    BY <2>1 DEF SameBooks
  <2> QED BY <2>1, <2>2, BooksWorld
<1>37. CASE UNCHANGED vars
  <2>1. UNCHANGED <<pc, at, copy, cand, bought, landed, reported, torn, stale, rec>>
    BY <1>37 DEF vars, jobVars, workVars, historyVars
  <2>2. \A i \in Call : SameBooks(rec'[i], rec[i])
    BY <2>1 DEF SameBooks
  <2> QED BY <2>1, <2>2, BooksWorld
<1> HIDE DEF Books
<1> QED
  BY <1>0, <1>1, <1>2, <1>3, <1>4, <1>5, <1>6, <1>7, <1>8, <1>9, <1>10, <1>11, <1>12,
     <1>13, <1>14, <1>15, <1>16, <1>17, <1>18, <1>19, <1>20, <1>21, <1>22, <1>23,
     <1>24, <1>25, <1>26, <1>27, <1>28, <1>29, <1>30, <1>31, <1>32, <1>33, <1>34,
     <1>35, <1>36, <1>37, <1>38, <1>39 DEF Next, CallStep, PassStep, RenderStep, PlaceStep, Reply,
     ReplyAgain

BooksInv == Fresh /\ Books

\* The books of every job are right, in whichever walk and pass its renders fail, unless a
\* step wrote it from a copy that was not its last state.
THEOREM BooksInvariant == Spec => []BooksInv
<1>1. Init => BooksInv
  BY FreshInit, BooksInit DEF BooksInv
<1>2. WorkInv /\ BooksInv /\ [Next]_vars => BooksInv'
  BY FreshStep, BooksStep DEF WorkInv, BooksInv
<1> QED BY <1>1, <1>2, WorkInvariant, PTL DEF Spec

\* A job buys at most one render more than its advances, and no model twice
\* (_media_call, _media_job_billable_failure).
THEOREM OneCeiling == Spec => []RendersBounded
<1>1. BooksInv => RendersBounded
  BY DEF BooksInv, Books, BooksOf, InBounds, RendersBounded
<1> QED BY <1>1, BooksInvariant, PTL

\* What is reported for a job that is over is what its renders cost, once
\* (_media_meter_once).
THEOREM MeteredRight == Spec => []MeteredOnce
<1>1. BooksInv => MeteredOnce
  BY DEF BooksInv, Books, BooksOf, RecordBooks, MeteredOnce
<1> QED BY <1>1, BooksInvariant, PTL

\* The file of a job is stored once, however many passes see its render done
\* (_media_job_lock).
THEOREM OneFile == Spec => []LandedOnce
<1>1. BooksInv => LandedOnce
  BY DEF BooksInv, Books, BooksOf, InBounds, LandedOnce
<1> QED BY <1>1, BooksInvariant, PTL
-----------------------------------------------------------------------------
(* The canvas. *)

\* Neither naming nor replacing an element is undone by a step of another kind of
\* worker, and who draws goes on unless it is the one that moves.
LEMMA OthersDraw ==
  ASSUME TypedInv, NEW w \in AtWork, NEW j \in Call, Alone(w),
         stale \subseteq stale' \cup {w}
  PROVE  /\ Naming(j)' <=> Naming(j)
         /\ Replacing(j) => Replacing(j)'
         /\ rec'[j].status = rec[j].status /\ (pc[w] = "draw" => at[w] # j) /\ Drawing(j)
              => Drawing(j)'
<1>1. \A q \in Place : q # w /\ pc'[q] = pc[q] /\ at'[q] = at[q] /\ (q \in stale => q \in stale')
  BY CallAssumption DEF Alone, AtWork, Pass, Worker
<1>2. Naming(j)' <=> Naming(j)
  BY <1>1 DEF Naming
<1>3. Replacing(j) => Replacing(j)'
  BY <1>1 DEF Replacing, Holds
<1>4. ASSUME rec'[j].status = rec[j].status, pc[w] = "draw" => at[w] # j, Drawing(j)
      PROVE  Drawing(j)'
  <2>1. PICK o \in Call \cup Pass :
          pc[o] = "draw" /\ at[o] = j /\ copy[o].element /\ copy[o].status = rec[j].status
    BY <1>4 DEF Drawing
  <2>2. o # w /\ o \in Worker
    BY <1>4, <2>1 DEF Worker
  <2>3. pc'[o] = pc[o] /\ at'[o] = at[o] /\ copy'[o] = copy[o]
    BY <2>2 DEF Alone
  <2> QED BY <1>4, <2>1, <2>3 DEF Drawing
<1> QED BY <1>2, <1>3, <1>4

\* A step of a worker that neither draws nor saves leaves the canvas right.
LEMMA ClipRests ==
  ASSUME TypedInv, ClipInv, NEW w \in AtWork, Alone(w), rec' = rec, clip' = clip,
         purge' = purge, torn \subseteq torn', blurred \subseteq blurred',
         stale \subseteq stale' \cup {w}, pc[w] = "draw" => at[w] \in blurred',
         pc'[w] \in {"refail", "redraw"} => at'[w] \in blurred'
  PROVE  ClipInv'
<1>1. \A p \in Pass : pc'[p] \in {"refail", "redraw"} => at'[p] \in blurred'
  BY DEF ClipInv, Alone, Worker
<1>2. \A q \in Place : purge' \in {"marked", "gone"} /\ Holds(q)' => q \in stale'
  BY CallAssumption DEF ClipInv, Alone, Holds, AtWork, Pass, Worker
<1>3. ASSUME NEW j \in Call, j \notin torn', j \notin blurred' PROVE ElementBooks(j)'
  <2>1. ElementBooks(j) /\ (pc[w] = "draw" => at[w] # j)
    BY <1>3 DEF ClipInv
  <2>2. /\ Naming(j)' <=> Naming(j)
        /\ Replacing(j) => Replacing(j)'
        /\ Drawing(j) => Drawing(j)'
    BY <2>1, OthersDraw
  <2> QED BY <2>1, <2>2 DEF ElementBooks, Terminal, Shown
<1> QED BY <1>1, <1>2, <1>3 DEF ClipInv

\* A save by a worker that does not draw leaves the elements of other jobs right.
LEMMA ClipSaved ==
  ASSUME TypedInv, ClipInv, NEW w \in AtWork, NEW c, NEW j \in Call, at[w] = j, Alone(w),
         SaveEffect(w, c), clip' = clip, purge' = purge, blurred \subseteq blurred',
         pc[w] = "draw" => j \in blurred',
         pc'[w] \in {"refail", "redraw"} => at'[w] \in blurred',
         j \notin torn' /\ j \notin blurred' => ElementBooks(j)'
  PROVE  ClipInv'
<1>1. \A p \in Pass : pc'[p] \in {"refail", "redraw"} => at'[p] \in blurred'
  BY DEF ClipInv, Alone, Worker
<1>2. /\ torn \subseteq torn' /\ stale \subseteq stale' \cup {w}
      /\ \A i \in Call \ {j} : rec'[i] = rec[i]
  BY DEF SaveEffect, TypedInv, Typed
<1>3. \A q \in Place : purge' \in {"marked", "gone"} /\ Holds(q)' => q \in stale'
  BY <1>2, CallAssumption DEF ClipInv, Alone, Holds, AtWork, Pass, Worker
<1>4. ASSUME NEW i \in Call, i \notin torn', i \notin blurred', i # j
      PROVE  ElementBooks(i)'
  <2>1. ElementBooks(i) /\ rec'[i] = rec[i]
    BY <1>2, <1>4 DEF ClipInv
  <2>2. /\ Naming(i)' <=> Naming(i)
        /\ Replacing(i) => Replacing(i)'
        /\ Drawing(i) => Drawing(i)'
    BY <1>2, <1>4, <2>1, OthersDraw
  <2> QED BY <2>1, <2>2 DEF ElementBooks, Terminal, Shown
<1> QED BY <1>1, <1>3, <1>4 DEF ClipInv

\* Saving a job that goes on keeps its element right.
LEMMA ClipPutDown ==
  ASSUME TypedInv, ClipInv, Fresh, NEW w \in AtWork, NEW c, Alone(w), SaveEffect(w, c),
         clip' = clip, purge' = purge, blurred' = blurred, pc[w] \in {"poll", "keep"},
         pc'[w] \notin {"refail", "redraw"}, c.status = "running",
         c.element = copy[w].element
  PROVE  ClipInv'
<1>1. PICK j \in Call : at[w] = j
  BY DEF SaveEffect
<1>2. ASSUME j \notin torn', j \notin blurred' PROVE ElementBooks(j)'
  <2>1. rec'[j].status = c.status /\ rec'[j].element = c.element
    BY <1>1 DEF SaveEffect
  <2>2. w \notin stale /\ torn \subseteq torn' /\ stale \subseteq stale' \cup {w}
    BY <1>1, <1>2 DEF SaveEffect, TypedInv, Typed
  <2>3. copy[w].element = rec[j].element
    BY <1>1, <2>2 DEF Fresh, FreshOf, AfterJob, Rendering, AtWork, Worker
  <2>4. ElementBooks(j)
    BY <1>2, <2>2 DEF ClipInv
  <2>5. Naming(j)' <=> Naming(j)
    BY <2>2, OthersDraw
  <2> QED BY <2>1, <2>3, <2>4, <2>5 DEF ElementBooks, Terminal
<1> QED BY <1>1, <1>2, ClipSaved

\* A job has no element before it is recorded.
LEMMA NoElementYet ==
  ASSUME TypedInv, OneAtWork, ClipInv, NEW c \in Call, pc[c] \in BeforeJob,
         c \notin torn, c \notin blurred
  PROVE  clip[c] = None
<1>1. rec[c] = NoRow /\ \A q \in Place : Holds(q) => at[q] # c
  BY DEF OneAtWork
<1>2. ~NoRow.element
  BY DEF NoRow, Blank
<1>3. ~Naming(c)
  BY <1>1 DEF Naming, Holds
<1>4. ElementBooks(c)
  BY DEF ClipInv
<1> QED BY <1>1, <1>2, <1>3, <1>4 DEF ElementBooks

\* Recording a job finds no element of it.
LEMMA ClipRecorded ==
  ASSUME TypedInv, OneAtWork, ClipInv, NEW w \in Call, NEW c, Alone(w), SaveEffect(w, c),
         clip' = clip, purge' = purge, blurred' = blurred, pc[w] \in {"made", "spent"},
         pc'[w] \notin {"refail", "redraw"}
  PROVE  ClipInv'
<1>1. at[w] = w
  BY DEF TypedInv, PlaceOf, Worker
<1>2. ASSUME w \notin torn', w \notin blurred' PROVE ElementBooks(w)'
  <2>1. clip[w] = None
    BY <1>2, NoElementYet DEF SaveEffect, BeforeJob
  <2> QED BY <2>1 DEF ElementBooks
<1> QED BY <1>1, <1>2, ClipSaved DEF AtWork

\* What the elements show does not depend on time or the server.
LEMMA ClipWorld ==
  ASSUME ClipInv, UNCHANGED <<pc, at, copy, clip, purge, stale, torn, blurred>>,
         \A j \in Call : rec'[j].status = rec[j].status /\ rec'[j].element = rec[j].element
  PROVE  ClipInv'
<1>1. ASSUME NEW j \in Call \ (torn \cup blurred) PROVE ElementBooks(j)'
  <2>1. ElementBooks(j) /\ rec'[j].status = rec[j].status /\ rec'[j].element = rec[j].element
    BY <1>1 DEF ClipInv
  <2> QED BY <2>1 DEF ElementBooks, Naming, Replacing, Drawing, Holds, Terminal, Shown
<1> QED BY <1>1 DEF ClipInv, Holds

\* The canvas is empty at the start.
LEMMA ClipInit == Init => ClipInv
BY DEF Init, ClipInv, ElementBooks, Pass, Worker, Holds

\* The elements of the other jobs do not change when a save is lost.
LEMMA ClipLost ==
  ASSUME TypedInv, ClipInv, NEW w \in Worker, LostEffect(w)
  PROVE  ClipInv'
<1>1. /\ Alone(w) /\ Holds(w) /\ at[w] \in Call /\ torn' = torn \cup {at[w]}
      /\ stale' = stale \cup {w} /\ blurred \subseteq blurred'
      /\ UNCHANGED <<rec, clip, purge>>
  BY DEF LostEffect, LostSave, LeaveEffect, Moves
<1>2. ASSUME NEW p \in Pass, pc'[p] \in {"refail", "redraw"} PROVE at'[p] \in blurred'
  <2>1. CASE p = w
    <3>1. pc[p] = "refail" /\ at'[p] = at[p]
      BY <1>2, <2>1, CallAssumption DEF LostEffect, LeaveEffect, Moves, Pass, Worker
    <3> QED BY <1>1, <3>1 DEF ClipInv
  <2>2. CASE p # w
    BY <1>1, <1>2, <2>2 DEF ClipInv, Alone, Worker
  <2> QED BY <2>1, <2>2
<1>3. \A q \in Place : purge' \in {"marked", "gone"} /\ Holds(q)' => q \in stale'
  BY <1>1 DEF ClipInv, Alone, Holds, Worker
<1>4. ASSUME NEW j \in Call, j \notin torn', j \notin blurred' PROVE ElementBooks(j)'
  <2>1. ElementBooks(j) /\ j # at[w]
    BY <1>1, <1>4 DEF ClipInv
  <2>2. \A o \in Worker \ {w} : pc'[o] = pc[o] /\ at'[o] = at[o] /\ copy'[o] = copy[o]
    BY <1>1 DEF Alone
  <2>3. Naming(j)' <=> Naming(j)
    <3>1. CASE w \in Place
      <4>1. pc'[w] # "name"
        BY <3>1, CallAssumption DEF LostEffect, LeaveEffect, Moves, Pass
      <4> QED BY <2>1, <2>2, <3>1, <4>1 DEF Naming, Worker
    <3>2. CASE w \notin Place
      BY <2>2, <3>2 DEF Naming, Worker
    <3> QED BY <3>1, <3>2
  <2>4. Replacing(j) => Replacing(j)'
    BY <1>1, <2>1, <2>2 DEF Replacing, Holds, Worker
  <2>5. Drawing(j) => Drawing(j)'
    BY <1>1, <2>1, <2>2 DEF Drawing, Worker
  <2> QED BY <1>1, <2>1, <2>3, <2>4, <2>5 DEF ElementBooks, Terminal, Shown
<1> QED BY <1>2, <1>3, <1>4 DEF ClipInv

\* Every step leaves the elements right.
LEMMA ClipStep ==
  TypedInv /\ OneAtWork /\ Fresh /\ Books /\ ClipInv /\ [Next]_vars => ClipInv'
<1> SUFFICES ASSUME TypedInv, OneAtWork, Fresh, Books, ClipInv, [Next]_vars PROVE ClipInv'
  OBVIOUS
<1>0. ASSUME NEW w, w \in Call \/ w \in Pass \/ w \in Place, LostEffect(w) PROVE ClipInv'
  BY <1>0, ClipLost DEF Pass, Worker
<1>1. ASSUME NEW c \in Call, Ask(c) PROVE ClipInv'
  <2>1. /\ Alone(c) /\ pc[c] # "draw" /\ pc'[c] \notin {"refail", "redraw"}
        /\ UNCHANGED <<rec, clip, purge, torn, blurred, stale>>
    BY <1>1, AskDoes DEF Moves, Worker, Pass
  <2> QED BY <2>1, ClipRests DEF AtWork
<1>2. ASSUME NEW c \in Call, Walk(c) PROVE ClipInv'
  <2>1. /\ Alone(c) /\ pc[c] # "draw" /\ pc'[c] \notin {"refail", "redraw"}
        /\ UNCHANGED <<rec, clip, purge, torn, blurred, stale>>
    BY <1>2, WalkDoes DEF Moves, Worker, Pass
  <2> QED BY <2>1, ClipRests DEF AtWork
<1>3. ASSUME NEW c \in Call, Refused(c, "sent", "walk") PROVE ClipInv'
  <2>1. /\ Alone(c) /\ pc[c] # "draw" /\ pc'[c] \notin {"refail", "redraw"}
        /\ UNCHANGED <<rec, clip, purge, torn, blurred, stale>>
    BY <1>3, RefusedDoes DEF Moves, Worker, Pass
  <2> QED BY <2>1, ClipRests DEF AtWork
<1>4. ASSUME NEW c \in Call, Empty(c, "sent", "walk") PROVE ClipInv'
  <2>1. /\ Alone(c) /\ pc[c] # "draw" /\ pc'[c] \notin {"refail", "redraw"}
        /\ UNCHANGED <<rec, clip, purge, torn, blurred, stale>>
    BY <1>4, EmptyDoes DEF Moves, Worker, Pass
  <2> QED BY <2>1, ClipRests DEF AtWork
<1>5. ASSUME NEW c \in Call, Accepted(c, "sent", Carried(copy[c]), "made") PROVE ClipInv'
  <2>1. /\ Alone(c) /\ pc[c] # "draw" /\ pc'[c] \notin {"refail", "redraw"}
        /\ UNCHANGED <<rec, clip, purge, torn, blurred, stale>>
    BY <1>5, AcceptedDoes DEF Moves, Worker, Pass
  <2> QED BY <2>1, ClipRests DEF AtWork
<1>6. ASSUME NEW c \in Call, Make(c), ~LostEffect(c) PROVE ClipInv'
  <2>1. /\ pc[c] = "made" /\ SaveEffect(c, copy[c])
        /\ clip' = clip /\ purge' = purge /\ blurred' = blurred
    BY <1>6, MakeDoes
  <2>2. Alone(c) /\ pc'[c] \notin {"refail", "redraw"}
    BY <1>6, MakeDoes DEF Moves, LeaveEffect
  <2> QED BY <2>1, <2>2, ClipRecorded
<1>7. ASSUME NEW c \in Call, WalkOver(c), ~LostEffect(c) PROVE ClipInv'
  <2>1. /\ pc[c] = "spent" /\ Alone(c) /\ pc'[c] \notin {"refail", "redraw"}
        /\ clip' = clip /\ purge' = purge /\ blurred' = blurred
    BY <1>7, WalkOverDoes DEF LeaveEffect
  <2>2. CASE SaveEffect(c, Ended(Carried(copy[c]), "failed"))
    BY <2>1, <2>2, ClipRecorded
  <2>3. CASE UNCHANGED <<rec, torn, stale>>
    BY <2>1, <2>3, ClipRests DEF AtWork
  <2> QED BY <1>7, <2>2, <2>3, WalkOverDoes
<1>8. ASSUME NEW p \in Pass, Open(p) PROVE ClipInv'
  <2>1. /\ Alone(p) /\ pc[p] # "draw" /\ pc'[p] \notin {"refail", "redraw"}
        /\ UNCHANGED <<rec, clip, purge, torn, blurred, stale>>
    BY <1>8, OpenDoes DEF Moves, Worker, Pass
  <2> QED BY <2>1, ClipRests DEF AtWork
<1>9. ASSUME NEW p \in Pass, NEW j \in Call, Take(p, j) PROVE ClipInv'
  <2>1. /\ Alone(p) /\ pc[p] # "draw" /\ pc'[p] \notin {"refail", "redraw"}
        /\ stale \subseteq stale' \cup {p}
        /\ UNCHANGED <<rec, clip, purge, torn, blurred>>
    BY <1>9, TakeDoes DEF Moves
  <2> QED BY <2>1, ClipRests DEF AtWork
<1>10. ASSUME NEW p \in Pass, Enter(p) PROVE ClipInv'
  <2>1. /\ Alone(p) /\ pc[p] # "draw" /\ pc'[p] \notin {"refail", "redraw"}
        /\ stale \subseteq stale' \cup {p} /\ torn \subseteq torn'
        /\ UNCHANGED <<rec, clip, purge, blurred>>
    BY <1>10, EnterDoes DEF Moves, LeaveEffect
  <2> QED BY <2>1, ClipRests DEF AtWork
<1>11. ASSUME NEW p \in Pass, NotServing(p) PROVE ClipInv'
  <2>1. /\ Alone(p) /\ pc[p] # "draw" /\ pc'[p] \notin {"refail", "redraw"}
        /\ UNCHANGED <<rec, clip, purge, torn, blurred, stale>>
    BY <1>11, NotServingDoes DEF LeaveEffect, Worker, Pass
  <2> QED BY <2>1, ClipRests DEF AtWork
<1>12. ASSUME NEW p \in Pass, Progress(p), ~LostEffect(p) PROVE ClipInv'
  <2> DEFINE c == DueNow(copy[p], FALSE)
  <2>1. /\ pc[p] = "poll" /\ LeaveEffect(p) /\ SaveEffect(p, c)
        /\ clip' = clip /\ purge' = purge /\ blurred' = blurred
    BY <1>12, ProgressDoes
  <2>2. copy[p] \in Record
    BY DEF TypedInv, Typed, Worker, Pass
  <2>3. c.status = copy[p].status /\ c.element = copy[p].element
    BY <2>2, DueNowJob
  <2> HIDE DEF c
  <2>4. Alone(p) /\ pc'[p] \notin {"refail", "redraw"}
    BY <2>1 DEF LeaveEffect
  <2>5. PICK j \in Call : at[p] = j
    BY <2>1 DEF SaveEffect
  <2>6. CASE j \in torn'
    BY <2>1, <2>4, <2>5, <2>6, ClipSaved DEF AtWork
  <2>7. CASE j \notin torn'
    <3>1. j \notin torn
      BY <2>1, <2>7 DEF SaveEffect
    <3>2. copy[p].status = "running"
      BY <2>1, <2>5, <3>1 DEF Books, BooksOf, HolderBooks, WorksOn, PendingAt, BankingAt,
                              AtWork
    <3> QED BY <2>1, <2>3, <2>4, <3>2, ClipPutDown DEF AtWork
  <2> QED BY <2>6, <2>7
<1>13. ASSUME NEW p \in Pass, TimedOut(p) PROVE ClipInv'
  <2>1. /\ Alone(p) /\ pc[p] # "draw" /\ pc'[p] \notin {"refail", "redraw"}
        /\ UNCHANGED <<rec, clip, purge, torn, blurred, stale>>
    BY <1>13, TimedOutDoes DEF Moves, Worker, Pass
  <2> QED BY <2>1, ClipRests DEF AtWork
<1>14. ASSUME NEW p \in Pass, PollFailed(p) PROVE ClipInv'
  <2>1. /\ Alone(p) /\ pc[p] # "draw" /\ pc'[p] \notin {"refail", "redraw"}
        /\ UNCHANGED <<rec, clip, purge, torn, blurred, stale>>
    BY <1>14, PollFailedDoes DEF BillEffect
  <2> QED BY <2>1, ClipRests DEF AtWork
<1>15. ASSUME NEW p \in Pass, PollSucceeded(p) PROVE ClipInv'
  <2>1. /\ Alone(p) /\ pc[p] # "draw" /\ pc'[p] \notin {"refail", "redraw"}
        /\ UNCHANGED <<rec, clip, purge, torn, blurred, stale>>
    BY <1>15, PollSucceededDoes DEF Moves, Worker, Pass
  <2> QED BY <2>1, ClipRests DEF AtWork
<1>16. ASSUME NEW p \in Pass, DrawFails(p), ~LostEffect(p) PROVE ClipInv'
  <2>1. /\ pc[p] \in {"draw", "redraw"} /\ clip' = clip /\ purge' = purge
        /\ blurred' = blurred \cup {at[p]}
    BY <1>16, DrawFailsDoes
  <2>2. CASE LeaveEffect(p) /\ SaveEffect(p, DueNow(copy[p], FALSE))
    <3>1. PICK j \in Call : at[p] = j
      BY <2>2 DEF SaveEffect
    <3>2. Alone(p) /\ pc'[p] \notin {"refail", "redraw"} /\ j \in blurred'
      BY <2>1, <2>2, <3>1 DEF LeaveEffect
    <3> QED BY <2>1, <2>2, <3>1, <3>2, ClipSaved DEF AtWork
  <2>3. CASE /\ Moves(p, "draw", "refail", Banked(copy[p], copy[p].model)) /\ at' = at
             /\ UNCHANGED <<rec, torn, stale>>
    BY <2>1, <2>3, ClipRests DEF Moves, AtWork
  <2>4. CASE LeaveEffect(p) /\ UNCHANGED <<rec, torn, stale>>
    BY <2>1, <2>4, ClipRests DEF LeaveEffect, AtWork
  <2> QED BY <1>16, <2>2, <2>3, <2>4, DrawFailsDoes
<1>17. ASSUME NEW w \in Call \cup Pass, Again(w) PROVE ClipInv'
  <2>1. /\ Alone(w) /\ pc[w] # "draw" /\ pc'[w] \notin {"refail", "redraw"}
        /\ UNCHANGED <<rec, clip, purge, torn, blurred, stale>>
    BY <1>17, AgainDoes DEF Moves, Worker, Pass
  <2> QED BY <2>1, ClipRests DEF AtWork
<1>18. ASSUME NEW w \in Call \cup Pass, Refused(w, "resent", "failing") PROVE ClipInv'
  <2>1. /\ Alone(w) /\ pc[w] # "draw" /\ pc'[w] \notin {"refail", "redraw"}
        /\ UNCHANGED <<rec, clip, purge, torn, blurred, stale>>
    BY <1>18, AgainRefusedDoes DEF Moves, Worker, Pass
  <2> QED BY <2>1, ClipRests DEF AtWork
<1>19. ASSUME NEW w \in Call \cup Pass, Empty(w, "resent", "failing") PROVE ClipInv'
  <2>1. /\ Alone(w) /\ pc[w] # "draw" /\ pc'[w] \notin {"refail", "redraw"}
        /\ UNCHANGED <<rec, clip, purge, torn, blurred, stale>>
    BY <1>19, AgainEmptyDoes DEF Moves, Worker, Pass
  <2> QED BY <2>1, ClipRests DEF AtWork
<1>20. ASSUME NEW w \in Call \cup Pass, Accepted(w, "resent", copy[w], IF cand[w]
             \in Inline THEN "restore" ELSE "keep")
      PROVE  ClipInv'
  <2>1. /\ Alone(w) /\ pc[w] # "draw" /\ pc'[w] \notin {"refail", "redraw"}
        /\ UNCHANGED <<rec, clip, purge, torn, blurred, stale>>
    BY <1>20, AgainAcceptedDoes DEF Moves, Worker, Pass
  <2> QED BY <2>1, ClipRests DEF AtWork
<1>21. ASSUME NEW w \in Call \cup Pass, Resume(w), ~LostEffect(w) PROVE ClipInv'
  <2>1. /\ pc[w] = "keep" /\ LeaveEffect(w) /\ SaveEffect(w, copy[w])
        /\ clip' = clip /\ purge' = purge /\ blurred' = blurred
    BY <1>21, ResumeDoes
  <2>2. Alone(w) /\ pc'[w] \notin {"refail", "redraw"}
    BY <2>1 DEF LeaveEffect, Worker, Pass
  <2>3. PICK j \in Call : at[w] = j
    BY <2>1 DEF SaveEffect
  <2>4. CASE j \in torn'
    BY <2>1, <2>2, <2>3, <2>4, ClipSaved DEF AtWork
  <2>5. CASE j \notin torn'
    <3>1. j \notin torn
      BY <2>1, <2>5 DEF SaveEffect
    <3>2. copy[w].status = "running"
      BY <2>1, <2>3, <3>1 DEF Books, BooksOf, HolderBooks, WorksOn, PendingAt, BankingAt,
                              AtWork
    <3> QED BY <2>1, <2>2, <3>2, ClipPutDown DEF AtWork
  <2> QED BY <2>4, <2>5
<1>22. ASSUME NEW w \in Call \cup Pass, FileGood(w) PROVE ClipInv'
  <2>1. /\ Alone(w) /\ pc[w] # "draw" /\ pc'[w] \notin {"refail", "redraw"}
        /\ UNCHANGED <<rec, clip, purge, torn, blurred, stale>>
    BY <1>22, FileGoodDoes DEF Moves
  <2> QED BY <2>1, ClipRests DEF AtWork
<1>23. ASSUME NEW w \in Call \cup Pass, FileBad(w) PROVE ClipInv'
  <2>1. /\ Alone(w) /\ pc[w] # "draw" /\ pc'[w] \notin {"refail", "redraw"}
        /\ UNCHANGED <<rec, clip, purge, torn, blurred, stale>>
    BY <1>23, FileBadDoes DEF Moves, BillEffect
  <2> QED BY <2>1, ClipRests DEF AtWork
<1>24. ASSUME NEW w \in Call \cup Pass, Settle(w), ~LostEffect(w) PROVE ClipInv'
  <2>1. /\ pc[w] \in {"landing", "failing", "refail"} /\ SaveEffect(w, Settled(w))
        /\ Alone(w) /\ at' = at /\ clip' = clip /\ purge' = purge /\ blurred' = blurred
        /\ pc'[w] = IF pc[w] = "refail" THEN "redraw" ELSE "draw"
        /\ copy'[w] = Marked(Settled(w), TRUE)
    BY <1>24, SettleDoes DEF Moves
  <2>2. copy[w] \in Record /\ Settled(w) \in Record
    BY <1>24, SettleDoes DEF TypedInv, Typed, Worker, Pass
  <2>3. copy'[w].status = Settled(w).status /\ copy'[w].element = Settled(w).element
    <3>1. /\ Marked(Settled(w), TRUE).status = Settled(w).status
          /\ Marked(Settled(w), TRUE).element = Settled(w).element
      BY <2>2, MarkedJob
    <3> QED BY <2>1, <3>1
  <2>4. Settled(w).element = copy[w].element
    BY <2>2, EndedJob DEF Settled
  <2>5. PICK j \in Call : at[w] = j
    BY <2>1 DEF SaveEffect
  <2>6. pc'[w] \in {"refail", "redraw"} => at'[w] \in blurred'
    BY <2>1 DEF ClipInv, TypedInv, PlaceOf, BeforeJob, AfterJob, Rendering, Worker
  <2>7. ASSUME j \notin torn', j \notin blurred' PROVE ElementBooks(j)'
    <3>1. /\ w \notin stale /\ torn \subseteq torn' /\ stale \subseteq stale' \cup {w}
          /\ rec'[j].status = Settled(w).status /\ rec'[j].element = Settled(w).element
      BY <2>1, <2>5, <2>7 DEF SaveEffect, TypedInv, Typed
    <3>2. copy[w].element = rec[j].element
      BY <2>1, <2>5, <3>1 DEF Fresh, FreshOf, AfterJob, Rendering, Worker, Pass
    <3>3. ElementBooks(j)
      BY <2>1, <2>7, <3>1 DEF ClipInv
    <3>4. Naming(j)' <=> Naming(j)
      BY <2>1, <3>1, OthersDraw DEF AtWork
    <3>5. pc'[w] = "draw"
      BY <2>1, <2>5, <2>6, <2>7
    <3>6. CASE rec[j].element
      <4>1. Drawing(j)'
        BY <2>1, <2>3, <2>4, <2>5, <3>1, <3>2, <3>5, <3>6 DEF Drawing
      <4> QED BY <2>1, <2>4, <3>1, <3>2, <3>3, <3>4, <3>6, <4>1 DEF ElementBooks
    <3>7. CASE Naming(j)
      <4>1. PICK q \in Place : pc[q] = "name" /\ at[q] = j
        BY <3>7 DEF Naming
      <4>2. q # w /\ q \in Worker
        BY CallAssumption DEF Pass, Worker
      <4>3. pc'[q] = "name" /\ at'[q] = j /\ q \in stale'
        BY <2>1, <2>5, <4>1, <4>2 DEF SaveEffect, Alone, Holds
      <4>4. Replacing(j)'
        BY <4>3 DEF Replacing, Holds
      <4> QED BY <2>1, <3>3, <3>4, <3>7, <4>4 DEF ElementBooks
    <3> QED BY <2>1, <3>3, <3>6, <3>7 DEF ElementBooks
  <2>8. pc[w] # "draw" /\ w \in AtWork
    BY <2>1 DEF AtWork
  <2> QED BY <2>1, <2>5, <2>6, <2>7, <2>8, ClipSaved
<1>25. ASSUME NEW w \in Call \cup Pass, Draw(w) PROVE ClipInv'
  <2>1. /\ pc[w] \in {"draw", "redraw"} /\ LeaveEffect(w)
        /\ clip' = IF copy[w].element /\ clip[at[w]] # None
                     THEN [clip EXCEPT ![at[w]] = Shown(copy[w])] ELSE clip
        /\ UNCHANGED <<rec, purge, stale, torn, blurred>>
    BY <1>25, DrawDoes
  <2>2. Alone(w) /\ pc'[w] \notin {"refail", "redraw"} /\ w \in Worker /\ w \in AtWork
    BY <2>1 DEF LeaveEffect, Worker, AtWork, Pass
  <2>3. PICK j \in Call : at[w] = j
    BY <2>1, <2>2 DEF TypedInv, PlaceOf, Holds
  <2>4. \A p \in Pass : pc'[p] \in {"refail", "redraw"} => at'[p] \in blurred'
    BY <2>1, <2>2 DEF ClipInv, Alone, Worker
  <2>5. \A q \in Place : purge' \in {"marked", "gone"} /\ Holds(q)' => q \in stale'
    BY <2>1, <2>2, CallAssumption DEF ClipInv, Alone, Holds, AtWork, Pass, Worker
  <2>6. /\ \A i \in Call \ {j} : clip'[i] = clip[i]
        /\ clip'[j] = IF copy[w].element /\ clip[j] # None THEN Shown(copy[w]) ELSE clip[j]
    BY <2>1, <2>3 DEF TypedInv, Typed
  <2>7. ASSUME NEW i \in Call, i \notin torn', i \notin blurred', i # j
        PROVE  ElementBooks(i)'
    <3>1. ElementBooks(i) /\ clip'[i] = clip[i] /\ rec' = rec /\ purge' = purge
      BY <2>1, <2>6, <2>7 DEF ClipInv
    <3>2. /\ Naming(i)' <=> Naming(i)
          /\ Replacing(i) => Replacing(i)'
          /\ Drawing(i) => Drawing(i)'
      BY <2>1, <2>2, <2>3, <2>7, OthersDraw
    <3> QED BY <3>1, <3>2 DEF ElementBooks, Terminal, Shown
  <2>8. ASSUME j \notin torn', j \notin blurred' PROVE ElementBooks(j)'
    <3>1. ElementBooks(j)
      BY <2>1, <2>8 DEF ClipInv
    <3>2. pc[w] = "draw"
      BY <2>1, <2>2, <2>3, <2>8 DEF ClipInv, TypedInv, PlaceOf, BeforeJob, AfterJob, Rendering
    <3>3. Terminal(rec[j]) => rec[j].status = copy[w].status
      BY <2>1, <2>2, <2>3, <2>8, <3>2 DEF Books, BooksOf, HolderBooks, WorksOn, OverAt
    <3>4. /\ Naming(j)' <=> Naming(j)
          /\ Replacing(j) => Replacing(j)'
      BY <2>1, <2>2, OthersDraw
    <3>5. CASE copy[w].element /\ clip[j] # None
      BY <2>1, <2>6, <3>1, <3>3, <3>4, <3>5 DEF ElementBooks, Terminal, Shown
    <3>6. CASE clip[j] = None
      BY <2>6, <3>6 DEF ElementBooks
    <3>7. CASE ~copy[w].element
      <4>1. ASSUME Drawing(j) PROVE Drawing(j)'
        <5>1. PICK o \in Call \cup Pass :
                pc[o] = "draw" /\ at[o] = j /\ copy[o].element /\ copy[o].status = rec[j].status
          BY <4>1 DEF Drawing
        <5>2. o # w /\ o \in Worker
          BY <3>7, <5>1 DEF Worker
        <5>3. pc'[o] = pc[o] /\ at'[o] = at[o] /\ copy'[o] = copy[o]
          BY <2>2, <5>2 DEF Alone
        <5> QED BY <2>1, <5>1, <5>3 DEF Drawing
      <4> QED BY <2>1, <2>6, <3>1, <3>4, <3>7, <4>1 DEF ElementBooks, Terminal, Shown
    <3> QED BY <3>5, <3>6, <3>7
  <2> QED BY <2>4, <2>5, <2>7, <2>8 DEF ClipInv
<1>26. ASSUME NEW q \in Place, NEW j \in Call, PlaceRead(q, j) PROVE ClipInv'
  <2>1. /\ Alone(q) /\ pc[q] = "idle" /\ pc'[q] = "place" /\ stale' = stale \ {q}
        /\ purge \notin {"marked", "gone"}
        /\ UNCHANGED <<rec, clip, purge, torn, blurred>>
    BY <1>26, PlaceReadDoes DEF Moves
  <2>2. /\ q \notin Call \cup Pass
        /\ \A o \in Worker \ {q} : pc'[o] = pc[o] /\ at'[o] = at[o] /\ copy'[o] = copy[o]
    BY <2>1, CallAssumption DEF Alone, Pass
  <2>3. \A p \in Pass : pc'[p] \in {"refail", "redraw"} => at'[p] \in blurred'
    BY <2>1, <2>2 DEF ClipInv, Worker
  <2>4. ASSUME NEW i \in Call, i \notin torn', i \notin blurred' PROVE ElementBooks(i)'
    <3>1. ElementBooks(i)
      BY <2>1, <2>4 DEF ClipInv
    <3>2. Naming(i) => Naming(i)'
      BY <2>1, <2>2 DEF Naming, Worker
    <3>3. Replacing(i) => Replacing(i)'
      BY <2>1, <2>2 DEF Replacing, Holds, Worker
    <3>4. Drawing(i) => Drawing(i)'
      BY <2>1, <2>2 DEF Drawing, Worker
    <3> QED BY <2>1, <3>1, <3>2, <3>3, <3>4 DEF ElementBooks, Terminal, Shown
  <2> QED BY <2>1, <2>3, <2>4 DEF ClipInv
<1>27. ASSUME NEW q \in Place, PlaceDraw(q) PROVE ClipInv'
  <2>1. /\ Alone(q) /\ pc[q] = "place" /\ pc'[q] = "name" /\ copy'[q] = copy[q] /\ at' = at
        /\ clip' = [clip EXCEPT ![at[q]] = Shown(copy[q])]
        /\ UNCHANGED <<rec, purge, stale, torn>> /\ blurred \subseteq blurred'
    BY <1>27, PlaceDrawDoes DEF Moves
  <2>2. /\ q \notin Call \cup Pass /\ q \in Worker
        /\ \A o \in Worker \ {q} : pc'[o] = pc[o] /\ at'[o] = at[o] /\ copy'[o] = copy[o]
    BY <2>1, CallAssumption DEF Alone, Pass, Worker
  <2>3. PICK j \in Call : at[q] = j
    BY <2>1, <2>2 DEF TypedInv, PlaceOf, Holds
  <2>4. clip'[j] = Shown(copy[q]) /\ \A i \in Call \ {j} : clip'[i] = clip[i]
    BY <2>1, <2>3 DEF TypedInv, Typed
  <2>5. \A p \in Pass : pc'[p] \in {"refail", "redraw"} => at'[p] \in blurred'
    BY <2>1, <2>2 DEF ClipInv, Worker
  <2>6. \A o \in Place : purge' \in {"marked", "gone"} /\ Holds(o)' => o \in stale'
    BY <2>1, <2>2 DEF ClipInv, Holds, Worker
  <2>7. ASSUME NEW i \in Call, i \notin torn', i \notin blurred', i # j PROVE ElementBooks(i)'
    <3>1. ElementBooks(i) /\ clip'[i] = clip[i]
      BY <2>1, <2>4, <2>7 DEF ClipInv
    <3>2. Naming(i) => Naming(i)'
      BY <2>1, <2>2 DEF Naming, Worker
    <3>3. Replacing(i) => Replacing(i)'
      BY <2>1, <2>2, <2>3, <2>7 DEF Replacing, Holds, Worker
    <3>4. Drawing(i) => Drawing(i)'
      BY <2>1, <2>2 DEF Drawing, Worker
    <3> QED BY <2>1, <3>1, <3>2, <3>3, <3>4 DEF ElementBooks, Terminal, Shown
  <2>8. Naming(j)'
    BY <2>1, <2>3 DEF Naming
  <2>9. CASE q \in stale
    <3>1. Replacing(j)'
      BY <2>1, <2>3, <2>9 DEF Replacing, Holds
    <3> QED BY <2>5, <2>6, <2>7, <2>8, <3>1 DEF ClipInv, ElementBooks
  <2>10. CASE q \notin stale
    <3>1. copy[q].status = rec[j].status
      BY <2>1, <2>2, <2>3, <2>10 DEF Fresh, FreshOf, SameJob
    <3>2. clip'[j] = Shown(rec[j])'
      BY <2>1, <2>4, <3>1 DEF Shown
    <3> QED BY <2>5, <2>6, <2>7, <2>8, <3>2 DEF ClipInv, ElementBooks
  <2> QED BY <2>9, <2>10
<1>28. ASSUME NEW q \in Place, PlaceSave(q), ~LostEffect(q) PROVE ClipInv'
  <2>1. /\ pc[q] = "name" /\ LeaveEffect(q) /\ SaveEffect(q, Named(copy[q]))
        /\ UNCHANGED <<clip, purge, blurred>>
    BY <1>28, PlaceSaveDoes
  <2>2. /\ q \notin Call \cup Pass /\ q \in Worker /\ pc'[q] = "over"
        /\ \A o \in Worker \ {q} : pc'[o] = pc[o] /\ at'[o] = at[o] /\ copy'[o] = copy[o]
    BY <2>1, CallAssumption DEF LeaveEffect, Alone, Pass, Worker
  <2>3. PICK j \in Call : at[q] = j
    BY <2>1 DEF SaveEffect
  <2>4. /\ torn \subseteq torn' /\ \A i \in Call \ {j} : rec'[i] = rec[i]
        /\ \A o \in stale : o # q => o \in stale'
    BY <2>1, <2>3 DEF SaveEffect, TypedInv, Typed
  <2>5. \A p \in Pass : pc'[p] \in {"refail", "redraw"} => at'[p] \in blurred'
    BY <2>1, <2>2 DEF ClipInv, Worker
  <2>6. \A o \in Place : purge' \in {"marked", "gone"} /\ Holds(o)' => o \in stale'
    BY <2>1, <2>2, <2>4 DEF ClipInv, Holds, Worker
  <2>7. ASSUME NEW i \in Call, i \notin torn', i \notin blurred', i # j PROVE ElementBooks(i)'
    <3>1. ElementBooks(i) /\ rec'[i] = rec[i]
      BY <2>1, <2>4, <2>7 DEF ClipInv
    <3>2. Naming(i) => Naming(i)'
      BY <2>2, <2>3, <2>7 DEF Naming, Worker
    <3>3. Replacing(i) => Replacing(i)'
      BY <2>2, <2>3, <2>4, <2>7 DEF Replacing, Holds, Worker
    <3>4. Drawing(i) => Drawing(i)'
      BY <2>2, <3>1 DEF Drawing, Worker
    <3> QED BY <2>1, <3>1, <3>2, <3>3, <3>4 DEF ElementBooks, Terminal, Shown
  <2>8. ASSUME j \notin torn', j \notin blurred' PROVE ElementBooks(j)'
    <3>1. q \notin stale /\ j \notin torn /\ j \notin blurred
      BY <2>1, <2>3, <2>8 DEF SaveEffect
    <3>2. ElementBooks(j) /\ purge \notin {"marked", "gone"}
      BY <2>1, <3>1 DEF ClipInv, Holds
    <3>3. copy[q] \in Record /\ copy[q].status = rec[j].status
      BY <2>1, <2>2, <2>3, <3>1 DEF Fresh, FreshOf, SameJob, TypedInv, Typed
    <3>4. Named(copy[q]).status = copy[q].status /\ Named(copy[q]).element = TRUE
      BY <3>3, NamedJob
    <3>5. rec'[j].status = rec[j].status /\ rec'[j].element
      BY <2>1, <2>3, <3>3, <3>4 DEF SaveEffect
    <3>6. Replacing(j) => Replacing(j)'
      BY <2>2, <2>4, <3>1 DEF Replacing, Holds, Worker
    <3>7. Drawing(j) => Drawing(j)'
      BY <2>2, <3>5 DEF Drawing, Worker
    <3> QED BY <2>1, <3>2, <3>5, <3>6, <3>7 DEF ElementBooks, Terminal, Shown
  <2> QED BY <2>5, <2>6, <2>7, <2>8 DEF ClipInv
<1>29. ASSUME NEW j \in Call, FallDue(j) PROVE ClipInv'
  <2>1. /\ rec[j] \in Record /\ rec' = [rec EXCEPT ![j] = DueNow(rec[j], TRUE)]
        /\ UNCHANGED <<pc, at, copy, clip, purge, stale, torn, blurred>>
    BY <1>29 DEF FallDue, TypedInv, Typed, workVars, historyVars
  <2>2. /\ DueNow(rec[j], TRUE).status = rec[j].status
        /\ DueNow(rec[j], TRUE).element = rec[j].element
    BY <2>1, DueNowJob
  <2>3. \A i \in Call : rec'[i].status = rec[i].status /\ rec'[i].element = rec[i].element
    BY <2>1, <2>2 DEF TypedInv, Typed
  <2> QED BY <2>1, <2>3, ClipWorld
<1>30. ASSUME NEW j \in Call, GrowOld(j) PROVE ClipInv'
  BY <1>30, ClipWorld DEF GrowOld, jobVars, workVars, historyVars
<1>31. CASE PurgeMark
  <2>1. /\ UNCHANGED <<pc, at, copy, torn, blurred>> /\ \A j \in Call : clip'[j] = None
        /\ stale' = stale \cup {w \in Worker : Holds(w)}
    BY <1>31 DEF PurgeMark, workVars
  <2>2. \A q \in Place : Holds(q)' => q \in stale'
    BY <2>1 DEF Holds, Worker
  <2> QED BY <2>1, <2>2 DEF ClipInv, ElementBooks
<1>32. CASE PurgeDrop
  <2>1. /\ UNCHANGED <<pc, at, copy, clip, torn, blurred>> /\ purge = "marked"
        /\ stale' = stale \cup {w \in Worker : Holds(w)} /\ \A j \in Call : rec'[j] = NoRow
    BY <1>32 DEF PurgeDrop, workVars
  <2>2. \A q \in Place : Holds(q)' => q \in stale'
    BY <2>1 DEF Holds, Worker
  <2>3. ASSUME NEW j \in Call \ (torn \cup blurred) PROVE ElementBooks(j)'
    <3>1. clip[j] # None => Naming(j)
      BY <2>1, <2>3 DEF ClipInv, ElementBooks
    <3>2. Naming(j)' <=> Naming(j)
      BY <2>1 DEF Naming
    <3>3. ~Terminal(rec[j])'
      BY <2>1 DEF Terminal, NoRow, Blank
    <3> QED BY <2>1, <3>1, <3>2, <3>3 DEF ElementBooks
  <2> QED BY <2>1, <2>2, <2>3 DEF ClipInv
<1>33. CASE PurgeAgent
  <2> DEFINE live == {j \in Call : rec[j].status = "running"}
  <2>1. /\ UNCHANGED <<pc, at, copy, torn, blurred>> /\ stale \subseteq stale'
        /\ purge' = "agent"
        /\ rec' = [j \in Call |-> IF j \in live THEN Ended(rec[j], "deleted") ELSE rec[j]]
        /\ \A j \in Call : (clip[j] = None => clip'[j] = None)
                            /\ (j \notin live => clip'[j] = clip[j])
    BY <1>33 DEF PurgeAgent, workVars
  <2>2. ASSUME NEW j \in Call \ (torn \cup blurred) PROVE ElementBooks(j)'
    <3>1. ElementBooks(j)
      BY <2>2 DEF ClipInv
    <3>2. /\ Naming(j)' <=> Naming(j)
          /\ Replacing(j) => Replacing(j)'
      BY <2>1 DEF Naming, Replacing, Holds
    <3>3. CASE j \in live
      <4>1. rec[j] \in Record
        BY DEF TypedInv, Typed
      <4>2. Ended(rec[j], "deleted").status = "deleted"
            /\ Ended(rec[j], "deleted").element = rec[j].element
        BY <4>1, EndedJob
      <4>3. rec'[j].status = "deleted" /\ rec'[j].element = rec[j].element
        BY <2>1, <3>3, <4>2
      <4> QED BY <2>1, <3>1, <3>2, <4>3 DEF ElementBooks, Terminal
    <3>4. CASE j \notin live
      <4>1. rec'[j] = rec[j] /\ clip'[j] = clip[j]
        BY <2>1, <3>4
      <4>2. Drawing(j)' <=> Drawing(j)
        BY <2>1, <4>1 DEF Drawing
      <4> QED BY <2>1, <3>1, <3>2, <4>1, <4>2 DEF ElementBooks, Terminal, Shown
    <3> QED BY <3>3, <3>4
  <2>3. \A p \in Pass : pc'[p] \in {"refail", "redraw"} => at'[p] \in blurred'
    BY <2>1 DEF ClipInv
  <2> QED BY <2>1, <2>2, <2>3 DEF ClipInv
<1>34. CASE SwitchOff
  BY <1>34, ClipWorld DEF SwitchOff, jobVars, workVars, historyVars
<1>35. CASE SwitchOn
  BY <1>35, ClipWorld DEF SwitchOn, jobVars, workVars, historyVars
<1>36. CASE Restart
  <2>1. /\ UNCHANGED <<rec, clip, purge, blurred>>
        /\ torn' = torn \cup {at[w] : w \in {o \in Worker : Holds(o)}}
        /\ \A w \in Worker : pc'[w] \in {"idle", "over"}
    BY <1>36 DEF Restart, Active, jobVars
  <2>2. ASSUME NEW j \in Call, j \notin torn', j \notin blurred' PROVE ElementBooks(j)'
    <3>1. ElementBooks(j) /\ \A w \in Worker : Holds(w) => at[w] # j
      BY <2>1, <2>2 DEF ClipInv
    <3>2. ~Naming(j) /\ ~Replacing(j) /\ ~Drawing(j)
      BY <3>1 DEF Naming, Replacing, Drawing, Holds, Worker
    <3> QED BY <2>1, <3>1, <3>2 DEF ElementBooks, Terminal, Shown
  <2>3. \A q \in Place : ~Holds(q)'
    BY <2>1 DEF Holds, Worker
  <2>4. \A p \in Pass : pc'[p] \notin {"refail", "redraw"}
    BY <2>1 DEF Worker, Pass
  <2> QED BY <2>2, <2>3, <2>4 DEF ClipInv
<1>38. ASSUME NEW m \in Model, Disconnect(m) PROVE ClipInv'
  BY <1>38, ClipWorld DEF Disconnect, jobVars, workVars, historyVars
<1>39. ASSUME NEW m \in Model, Connect(m) PROVE ClipInv'
  BY <1>39, ClipWorld DEF Connect, jobVars, workVars, historyVars
<1>37. CASE UNCHANGED vars
  BY <1>37, ClipWorld DEF vars, jobVars, workVars, historyVars
<1> HIDE DEF ClipInv
<1> QED
  BY <1>0, <1>1, <1>2, <1>3, <1>4, <1>5, <1>6, <1>7, <1>8, <1>9, <1>10, <1>11, <1>12,
     <1>13, <1>14, <1>15, <1>16, <1>17, <1>18, <1>19, <1>20, <1>21, <1>22, <1>23,
     <1>24, <1>25, <1>26, <1>27, <1>28, <1>29, <1>30, <1>31, <1>32, <1>33, <1>34,
     <1>35, <1>36, <1>37, <1>38, <1>39 DEF Next, CallStep, PassStep, RenderStep, PlaceStep,
     Reply, ReplyAgain

\* The canvas is right in every state, for any number of calls, passes and places.
THEOREM CanvasInvariant == Spec => []ClipInv
<1>1. Init => ClipInv
  BY ClipInit
<1>2. WorkInv /\ BooksInv /\ ClipInv /\ [Next]_vars => ClipInv'
  BY ClipStep DEF WorkInv, BooksInv
<1> HIDE DEF ClipInv
<1> QED BY <1>1, <1>2, WorkInvariant, BooksInvariant, PTL DEF Spec

\* The element of a job that is over and that nobody holds shows how it ended,
\* whether place put it on the canvas before the end, meanwhile or after it.
THEOREM ElementShowsOutcome == Spec => []ClipShowsOutcome
<1>1. ClipInv => ClipShowsOutcome
  <2> SUFFICES ASSUME ClipInv, NEW j \in Call \ (torn \cup blurred), Terminal(rec[j]),
                      clip[j] # None, \A w \in Worker : Holds(w) => at[w] # j
               PROVE  clip[j] = IF rec[j].status = "succeeded" THEN "ready" ELSE "failed"
    BY DEF ClipShowsOutcome
  <2>1. ElementBooks(j)
    BY DEF ClipInv
  <2>2. ~Replacing(j) /\ ~Drawing(j)
    BY DEF Replacing, Drawing, Holds, Worker
  <2>3. clip[j] = Shown(rec[j])
    BY <2>1, <2>2 DEF ElementBooks
  <2> QED BY <2>3 DEF Shown, Terminal
<1> QED BY <1>1, CanvasInvariant, PTL
=============================================================================
