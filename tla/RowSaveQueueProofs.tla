------------------------- MODULE RowSaveQueueProofs -------------------------
(***************************************************************************)
(* Proofs about RowSaveQueue for any set of rows, values and edits: no     *)
(* change of the review page is forgotten, a row marked SAVED is stored,   *)
(* and the page does not conflict with its own saves.                      *)
(*                                                                         *)
(* A row's changes are kept in four places, the entry's queued and unsaved *)
(* changes, the patch of the save on its way and, in the history, what the *)
(* user typed.  The invariant says how the four agree: Loose while the row *)
(* has no save, Taken while it has one.  Each of Merge, Restored and       *)
(* StillUnsaved is shown to lead from one to the other.                    *)
(***************************************************************************)
EXTENDS RowSaveQueue, SequenceTheorems, TLAPS

-----------------------------------------------------------------------------
(* The inductive invariant *)

\* The tasks belong to different rows, those that are saving, and only the
\* first one has been sent.
TasksFit ==
  /\ \A i, j \in 1..Len(tasks) : tasks[i].row = tasks[j].row => i = j
  /\ \A i \in 1..Len(tasks) :
       /\ entry[tasks[i].row].phase = "saving"
       /\ i > 1 => tasks[i].phase = "waiting"
       /\ tasks[i].phase = "saved" => tasks[i].saved \in Nat
  /\ \A r \in Row :
       /\ entry[r].phase = "saving" => \E i \in 1..Len(tasks) : tasks[i].row = r
       /\ entry[r].phase # "idle" => label[r] = "SAVING"

\* Without a save on its way all that is unsaved is queued.
Loose(queued, unsaved, entered) ==
  \A f \in Field :
    /\ queued[f] # Unset => queued[f] = entered[f]
    /\ unsaved[f] # Unset => unsaved[f] = queued[f]

\* What was queued while a save was on its way is newer than the save, and the
\* rest of what is unsaved is in it; a queued category has its subcategory.
Taken(queued, unsaved, patch, entered) ==
  /\ queued["category"] # Unset => queued["subcategory"] # Unset
  /\ \A f \in Field :
       /\ queued[f] # Unset => unsaved[f] # Unset /\ queued[f] = entered[f]
       /\ queued[f] = Unset /\ patch[f] # Unset => patch[f] = entered[f]
       /\ unsaved[f] # Unset =>
            unsaved[f] = IF queued[f] # Unset THEN queued[f] ELSE patch[f]

ChangesFit ==
  /\ \A r \in Row : entry[r].phase # "saving" =>
       Loose(entry[r].queued, entry[r].unsaved, typed[r])
  /\ \A i \in 1..Len(tasks) :
       LET r == tasks[i].row
       IN Taken(entry[r].queued, entry[r].unsaved, tasks[i].patch, typed[r])

\* While no other tab writes, what is not unsaved is stored.
Kept(fields, unsaved, entered) ==
  \A f \in Field : unsaved[f] = Unset =>
    fields[f] = IF entered[f] # Unset THEN entered[f] ELSE None

ValuesFit ==
  foreign = 0 =>
    /\ \A r \in Row : Kept(value[r], entry[r].unsaved, typed[r])
    /\ \A i \in 1..Len(tasks) : tasks[i].phase = "saved" =>
         \A f \in Field : tasks[i].patch[f] # Unset =>
           value[tasks[i].row][f] = tasks[i].patch[f]

SavedIsClean ==
  \A r \in Row : label[r] = "SAVED" =>
    /\ entry[r].queued = NoChange
    /\ entry[r].unsaved = NoChange

\* The revisions that the page holds are the stored ones, or come with the
\* answer that is on its way.
RevisionsFit ==
  ~disturbed /\ open =>
    /\ \A r \in Row : label[r] # "CONFLICT" /\ entry[r].phase # "reloading"
    /\ \A r \in Row :
         shown[r] # rowRevision[r] =>
           /\ tasks # << >> /\ Head(tasks).phase = "saved" /\ Head(tasks).row = r
    /\ tasks = << >> \/ Head(tasks).phase # "saved" => ref = batchRevision
    /\ \A i \in 1..Len(tasks) :
         /\ tasks[i].phase = "sent" => tasks[i].batch = batchRevision
         /\ tasks[i].phase = "saved" => tasks[i].saved = rowRevision[tasks[i].row]
         /\ tasks[i].phase # "saved" => tasks[i].expected = rowRevision[tasks[i].row]

IInv == TypeOK /\ TasksFit /\ ChangesFit /\ ValuesFit /\ SavedIsClean /\ RevisionsFit

-----------------------------------------------------------------------------
(* Changes: how the four of a row move when it is edited and saved *)

LEMMA MergeIs ==
  ASSUME NEW current \in Change, NEW next \in Change
  PROVE  /\ Merge(current, next) \in Change
         /\ \A f \in Field :
              /\ next[f] # Unset => Merge(current, next)[f] = next[f]
              /\ next[f] = Unset /\ f = "subcategory" /\ next["category"] # Unset =>
                   Merge(current, next)[f] = None
              /\ next[f] = Unset /\ ~(f = "subcategory" /\ next["category"] # Unset) =>
                   Merge(current, next)[f] = current[f]
  BY DEF Merge, Change, Field

\* Two changes that are merged with a third agree on a field, or both keep it.
LEMMA MergeAgrees ==
  ASSUME NEW x \in Change, NEW y \in Change, NEW c \in Change, NEW f \in Field
  PROVE  \/ Merge(x, c)[f] = Merge(y, c)[f]
         \/ Merge(x, c)[f] = x[f] /\ Merge(y, c)[f] = y[f]
  BY DEF Merge

LEMMA NoChangeIs == NoChange \in Change /\ \A f \in Field : NoChange[f] = Unset
  BY DEF NoChange, Change

LEMMA ChangesAreEqual ==
  ASSUME NEW c \in Change, NEW d \in Change, \A f \in Field : c[f] = d[f]
  PROVE  c = d
  BY DEF Change

\* An edit of a row that waits is taken by a save at once.
LEMMA EditOfIdle ==
  ASSUME NEW q \in Change, NEW u \in Change, NEW t \in Change, NEW c \in Change,
         Loose(q, u, t)
  PROVE  Taken(NoChange, Merge(u, c), Merge(q, c), Merge(t, c))
<1>1. \A f \in Field : Merge(q, c)[f] # Unset => Merge(q, c)[f] = Merge(t, c)[f]
  BY MergeAgrees DEF Loose
<1>2. \A f \in Field : Merge(u, c)[f] # Unset => Merge(u, c)[f] = Merge(q, c)[f]
  BY MergeAgrees DEF Loose
<1>3. "category" \in Field /\ "subcategory" \in Field
  BY DEF Field
<1>4. QED
  BY <1>1, <1>2, <1>3, NoChangeIs DEF Taken

LEMMA EditOfReloading ==
  ASSUME NEW q \in Change, NEW u \in Change, NEW t \in Change, NEW c \in Change,
         Loose(q, u, t)
  PROVE  Loose(Merge(q, c), Merge(u, c), Merge(t, c))
<1>1. \A f \in Field : Merge(q, c)[f] # Unset => Merge(q, c)[f] = Merge(t, c)[f]
  BY MergeAgrees DEF Loose
<1>2. \A f \in Field : Merge(u, c)[f] # Unset => Merge(u, c)[f] = Merge(q, c)[f]
  BY MergeAgrees DEF Loose
<1>3. QED
  BY <1>1, <1>2 DEF Loose

LEMMA EditOfSaving ==
  ASSUME NEW q \in Change, NEW u \in Change, NEW t \in Change, NEW c \in Change,
         NEW p \in Change, Taken(q, u, p, t)
  PROVE  Taken(Merge(q, c), Merge(u, c), p, Merge(t, c))
<1>1. "category" \in Field /\ "subcategory" \in Field /\ None # Unset
  BY UnsetAssumption DEF Field
<1>2. Merge(q, c)["category"] # Unset => Merge(q, c)["subcategory"] # Unset
  BY <1>1 DEF Merge, Taken
<1>3. ASSUME NEW f \in Field
      PROVE  /\ Merge(q, c)[f] # Unset =>
                  Merge(u, c)[f] # Unset /\ Merge(q, c)[f] = Merge(t, c)[f]
             /\ Merge(q, c)[f] = Unset /\ p[f] # Unset => p[f] = Merge(t, c)[f]
             /\ Merge(u, c)[f] # Unset =>
                  Merge(u, c)[f] = IF Merge(q, c)[f] # Unset THEN Merge(q, c)[f] ELSE p[f]
  <2>1. CASE c[f] # Unset
    BY <2>1 DEF Merge
  <2>2. CASE c[f] = Unset /\ f = "subcategory" /\ c["category"] # Unset
    BY <1>1, <2>2 DEF Merge
  <2>3. CASE c[f] = Unset /\ ~(f = "subcategory" /\ c["category"] # Unset)
    <3>1. Merge(q, c)[f] = q[f] /\ Merge(u, c)[f] = u[f] /\ Merge(t, c)[f] = t[f]
      BY <2>3, MergeIs
    <3>2. QED
      BY <3>1 DEF Taken
  <2>4. QED
    BY <2>1, <2>2, <2>3
<1>4. QED
  BY <1>2, <1>3 DEF Taken

LEMMA RetryOfAll ==
  ASSUME NEW q \in Change, NEW u \in Change, NEW t \in Change, Loose(q, u, t)
  PROVE  Taken(NoChange, u, u, t)
  BY NoChangeIs DEF Loose, Taken, Field

LEMMA SaveFailed ==
  ASSUME NEW q \in Change, NEW u \in Change, NEW t \in Change, NEW p \in Change,
         Taken(q, u, p, t)
  PROVE  Loose(Restored(p, q), u, t)
<1>1. q["category"] # Unset => q["subcategory"] # Unset
  BY DEF Taken
<1>2. ASSUME NEW f \in Field
      PROVE  \/ q[f] # Unset /\ Merge(p, q)[f] = q[f]
             \/ q[f] = Unset /\ Merge(p, q)[f] = p[f]
  BY <1>1 DEF Merge
<1>3. ASSUME NEW f \in Field
      PROVE  /\ q[f] # Unset => u[f] # Unset /\ q[f] = t[f]
             /\ q[f] = Unset /\ p[f] # Unset => p[f] = t[f]
             /\ u[f] # Unset => u[f] = IF q[f] # Unset THEN q[f] ELSE p[f]
  BY DEF Taken
<1>4. ASSUME NEW f \in Field
      PROVE  /\ Merge(p, q)[f] # Unset => Merge(p, q)[f] = t[f]
             /\ u[f] # Unset => u[f] = Merge(p, q)[f]
  BY <1>2, <1>3
<1>5. QED
  BY <1>4 DEF Loose, Restored

LEMMA StillUnsavedIs ==
  ASSUME NEW u \in Change, NEW p \in Change
  PROVE  /\ StillUnsaved(u, p) \in Change
         /\ \A f \in Field : StillUnsaved(u, p)[f] =
              IF p[f] # Unset /\ u[f] = p[f] THEN Unset ELSE u[f]
  BY DEF StillUnsaved, Change

\* After a save what is unsaved is what was queued meanwhile.
LEMMA SaveDone ==
  ASSUME NEW q \in Change, NEW u \in Change, NEW t \in Change, NEW p \in Change,
         Taken(q, u, p, t)
  PROVE  /\ Taken(NoChange, StillUnsaved(u, p), q, t)
         /\ Loose(q, StillUnsaved(u, p), t)
         /\ q = NoChange => StillUnsaved(u, p) = NoChange
<1>1. ASSUME NEW f \in Field, StillUnsaved(u, p)[f] # Unset
      PROVE  q[f] # Unset /\ StillUnsaved(u, p)[f] = q[f]
  BY <1>1, StillUnsavedIs DEF Taken
<1>2. \A f \in Field : q[f] # Unset => q[f] = t[f]
  BY DEF Taken
<1>3. Loose(q, StillUnsaved(u, p), t)
  BY <1>1, <1>2 DEF Loose
<1>4. Taken(NoChange, StillUnsaved(u, p), q, t)
  BY <1>1, <1>2, NoChangeIs DEF Taken, Field
<1>5. q = NoChange => StillUnsaved(u, p) = NoChange
  BY <1>1, NoChangeIs, StillUnsavedIs, ChangesAreEqual
<1>6. QED
  BY <1>3, <1>4, <1>5

\* An edit forgets no change, and where it makes none the field is as it was.
LEMMA EditKeeps ==
  ASSUME NEW fields, NEW u \in Change, NEW t \in Change, NEW c \in Change,
         Kept(fields, u, t)
  PROVE  Kept(fields, Merge(u, c), Merge(t, c))
<1> SUFFICES ASSUME NEW f \in Field, Merge(u, c)[f] = Unset
             PROVE  fields[f] = IF Merge(t, c)[f] # Unset THEN Merge(t, c)[f] ELSE None
  BY DEF Kept
<1>1. c[f] = Unset /\ ~(f = "subcategory" /\ c["category"] # Unset)
  <2>1. c[f] # Unset => Merge(u, c)[f] = c[f]
    BY MergeIs
  <2>2. c[f] = Unset /\ f = "subcategory" /\ c["category"] # Unset => Merge(u, c)[f] = None
    BY MergeIs
  <2>3. None # Unset
    BY UnsetAssumption
  <2>4. QED
    BY <2>1, <2>2, <2>3
<1>2. u[f] = Unset /\ Merge(t, c)[f] = t[f]
  <2>1. Merge(u, c)[f] = u[f]
    BY <1>1, MergeIs
  <2>2. Merge(t, c)[f] = t[f]
    BY <1>1, MergeIs
  <2>3. QED
    BY <2>1, <2>2
<1>3. QED
  BY <1>2 DEF Kept

LEMMA StoredIs ==
  ASSUME NEW fields \in [Field -> Value \cup {None}], NEW p \in Change
  PROVE  /\ Stored(fields, p) \in [Field -> Value \cup {None}]
         /\ \A f \in Field : Stored(fields, p)[f] = IF p[f] # Unset THEN p[f] ELSE fields[f]
  BY DEF Stored, Change

LEMMA StoreKeeps ==
  ASSUME NEW fields \in [Field -> Value \cup {None}], NEW q \in Change, NEW u \in Change,
         NEW t \in Change, NEW p \in Change, Taken(q, u, p, t), Kept(fields, u, t)
  PROVE  Kept(Stored(fields, p), u, t)
  BY StoredIs DEF Kept, Taken

LEMMA DoneKeeps ==
  ASSUME NEW fields, NEW q \in Change, NEW u \in Change, NEW t \in Change, NEW p \in Change,
         Taken(q, u, p, t), Kept(fields, u, t),
         \A f \in Field : p[f] # Unset => fields[f] = p[f]
  PROVE  Kept(fields, StillUnsaved(u, p), t)
<1> SUFFICES ASSUME NEW f \in Field, StillUnsaved(u, p)[f] = Unset
             PROVE  fields[f] = IF t[f] # Unset THEN t[f] ELSE None
  BY DEF Kept
<1>1. CASE u[f] = Unset
  BY <1>1 DEF Kept
<1>2. CASE u[f] # Unset
  <2>1. p[f] # Unset /\ u[f] = p[f] /\ fields[f] = p[f]
    BY <1>2, StillUnsavedIs
  <2>2. u[f] = t[f]
    BY <1>2, <2>1 DEF Taken
  <2>3. QED
    BY <2>1, <2>2, <1>2
<1>3. QED
  BY <1>1, <1>2

-----------------------------------------------------------------------------
(* The queue: what it holds after a save was added, and after the first ended *)

\* The first of the saves is sent with the batch revision of the moment.
SentAt(task, base) == [task EXCEPT !.phase = "sent", !.batch = base]

LEMMA StartedIs ==
  ASSUME NEW queue \in Seq(Task), NEW base \in Nat,
         queue # << >> => queue[1].phase = "waiting"
  PROVE  /\ Started(queue, base) \in Seq(Task)
         /\ Len(Started(queue, base)) = Len(queue)
         /\ \A i \in 1..Len(queue) :
              Started(queue, base)[i] = IF i = 1 THEN SentAt(queue[1], base) ELSE queue[i]
<1>1. CASE queue = << >>
  BY <1>1 DEF Started
<1>2. CASE queue # << >>
  <2>1. queue[1] \in Task /\ Head(queue) = queue[1] /\ Len(queue) \in Nat \ {0}
    BY <1>2
  <2>2. SentAt(queue[1], base) \in Task
    BY <2>1 DEF SentAt, Task
  <2>3. /\ Tail(queue) \in Seq(Task)
        /\ Len(Tail(queue)) = Len(queue) - 1
        /\ \A i \in 1..Len(Tail(queue)) : Tail(queue)[i] = queue[i + 1]
    BY <1>2, HeadTailProperties
  <2>4. Started(queue, base) = <<SentAt(queue[1], base)>> \o Tail(queue)
    BY <1>2, <2>1 DEF Started, SentAt
  <2> DEFINE first == <<SentAt(queue[1], base)>>
  <2>5. first \in Seq(Task) /\ Len(first) = 1 /\ first[1] = SentAt(queue[1], base)
    BY <2>2
  <2>6. /\ first \o Tail(queue) \in Seq(Task)
        /\ Len(first \o Tail(queue)) = Len(queue)
        /\ \A i \in 1..Len(queue) : (first \o Tail(queue))[i] =
              IF i = 1 THEN SentAt(queue[1], base) ELSE queue[i]
    <3> HIDE DEF first
    <3>1. \A s1, s2 \in Seq(Task) :
            /\ s1 \o s2 \in Seq(Task)
            /\ Len(s1 \o s2) = Len(s1) + Len(s2)
            /\ \A i \in 1..Len(s1) + Len(s2) :
                 (s1 \o s2)[i] = IF i <= Len(s1) THEN s1[i] ELSE s2[i - Len(s1)]
      BY ConcatProperties
    <3>2. \A i \in 1..Len(queue) : i # 1 => i - 1 \in 1..Len(Tail(queue)) /\ (i - 1) + 1 = i
      BY <2>1, <2>3
    <3> DEFINE rest == Tail(queue)
    <3>3. rest \in Seq(Task) /\ Len(rest) = Len(queue) - 1
      BY <2>3
    <3>4. \A i \in 1..Len(queue) : i # 1 => rest[i - 1] = queue[i]
      BY <2>3, <3>2
    <3> HIDE DEF rest
    <3>5. /\ first \o rest \in Seq(Task)
          /\ Len(first \o rest) = Len(queue)
          /\ \A i \in 1..Len(queue) : (first \o rest)[i] = IF i = 1 THEN first[1] ELSE rest[i - 1]
      <4>1. /\ first \o rest \in Seq(Task)
            /\ Len(first \o rest) = Len(first) + Len(rest)
            /\ \A i \in 1..Len(first) + Len(rest) :
                 (first \o rest)[i] = IF i <= Len(first) THEN first[i] ELSE rest[i - Len(first)]
        BY <2>5, <3>1, <3>3, Zenon
      <4>2. Len(first) + Len(rest) = Len(queue) /\ \A i \in 1..Len(queue) : i <= 1 => i = 1
        BY <2>1, <2>5, <3>3
      <4>3. QED
        BY <2>5, <4>1, <4>2
    <3>6. QED
      BY <2>5, <3>4, <3>5 DEF rest
  <2>7. QED
    BY <2>4, <2>6
<1>3. QED
  BY <1>1, <1>2

LEMMA AppendedIs ==
  ASSUME NEW queue \in Seq(Task), NEW task \in Task, NEW base \in Nat,
         queue # << >> => queue[1].phase # "waiting", task.phase = "waiting"
  PROVE  LET new == Started(Append(queue, task), base) IN
           /\ new \in Seq(Task)
           /\ Len(new) = Len(queue) + 1
           /\ \A i \in 1..Len(queue) : new[i] = queue[i]
           /\ new[Len(queue) + 1] = IF queue = << >> THEN SentAt(task, base) ELSE task
<1> DEFINE long == Append(queue, task)
<1>1. /\ long \in Seq(Task)
      /\ Len(long) = Len(queue) + 1
      /\ \A i \in 1..Len(queue) : long[i] = queue[i]
      /\ long[Len(queue) + 1] = task
  BY AppendProperties
<1>2. CASE queue = << >>
  <2>1. long[1] = task /\ Len(long) = 1 /\ Len(queue) = 0
    BY <1>1, <1>2
  <2>2. long # << >> => long[1].phase = "waiting"
    BY <2>1
  <2> HIDE DEF long
  <2>3. /\ Started(long, base) \in Seq(Task)
        /\ Len(Started(long, base)) = Len(long)
        /\ \A i \in 1..Len(long) :
             Started(long, base)[i] = IF i = 1 THEN SentAt(long[1], base) ELSE long[i]
    BY <1>1, <2>2, StartedIs
  <2>4. QED
    BY <1>2, <2>1, <2>3 DEF long
<1>3. CASE queue # << >>
  <2>1. long # << >> /\ Head(long) = queue[1]
    BY <1>1, <1>3
  <2>2. Started(long, base) = long
    BY <1>3, <2>1 DEF Started
  <2>3. QED
    BY <1>1, <1>3, <2>2
<1>4. QED
  BY <1>2, <1>3

LEMMA DroppedIs ==
  ASSUME NEW queue \in Seq(Task), NEW base \in Nat, queue # << >>,
         \A i \in 2..Len(queue) : queue[i].phase = "waiting"
  PROVE  LET new == Started(Tail(queue), base) IN
           /\ new \in Seq(Task)
           /\ Len(new) = Len(queue) - 1
           /\ \A i \in 1..Len(queue) - 1 :
                new[i] = IF i = 1 THEN SentAt(queue[2], base) ELSE queue[i + 1]
<1>1. /\ Tail(queue) \in Seq(Task)
      /\ Len(Tail(queue)) = Len(queue) - 1
      /\ \A i \in 1..Len(queue) - 1 : Tail(queue)[i] = queue[i + 1]
  BY HeadTailProperties
<1> DEFINE rest == Tail(queue)
<1>2. rest # << >> => 1 \in 1..Len(queue) - 1 /\ rest[1] = queue[2]
  BY <1>1
<1>3. rest # << >> => rest[1].phase = "waiting"
  BY <1>1, <1>2
<1>4. rest \in Seq(Task) /\ Len(rest) = Len(queue) - 1
  BY <1>1
<1> HIDE DEF rest
<1>5. /\ Started(rest, base) \in Seq(Task)
      /\ Len(Started(rest, base)) = Len(rest)
      /\ \A i \in 1..Len(rest) :
           Started(rest, base)[i] = IF i = 1 THEN SentAt(rest[1], base) ELSE rest[i]
  BY <1>3, <1>4, StartedIs
<1>6. Len(queue) - 1 = Len(rest) /\ \A i \in 1..Len(rest) : rest[i] = queue[i + 1]
  BY <1>1, <1>4 DEF rest
<1>7. QED
  BY <1>2, <1>5, <1>6 DEF rest

\* The queue whose first task is done, with a new task behind the others
Rotated(new, queue, task, base) ==
  /\ new \in Seq(Task)
  /\ Len(new) = Len(queue)
  /\ \A i \in 1..Len(queue) :
       new[i] = IF i = 1 THEN SentAt(IF Len(queue) = 1 THEN task ELSE queue[2], base)
                ELSE IF i = Len(queue) THEN task ELSE queue[i + 1]

LEMMA RotatedIs ==
  ASSUME NEW queue \in Seq(Task), NEW task \in Task, NEW base \in Nat, queue # << >>,
         \A i \in 2..Len(queue) : queue[i].phase = "waiting", task.phase = "waiting",
         NEW new, new = Started(Append(Tail(queue), task), base)
  PROVE  Rotated(new, queue, task, base)
<1> DEFINE turned == Append(Tail(queue), task)
<1>1. /\ Tail(queue) \in Seq(Task)
      /\ Len(Tail(queue)) = Len(queue) - 1
      /\ \A i \in 1..Len(queue) - 1 : Tail(queue)[i] = queue[i + 1]
  BY HeadTailProperties
<1>2. /\ turned \in Seq(Task)
      /\ Len(turned) = Len(queue)
      /\ \A i \in 1..Len(queue) - 1 : turned[i] = queue[i + 1]
      /\ turned[Len(queue)] = task
  BY <1>1, AppendProperties
<1> HIDE DEF turned
<1>3. turned # << >> /\ turned[1] = IF Len(queue) = 1 THEN task ELSE queue[2]
  BY <1>2
<1>4. Len(queue) # 1 => 2 \in 2..Len(queue)
  BY <1>1, LenProperties
<1>5. turned # << >> => turned[1].phase = "waiting"
  BY <1>3, <1>4
<1>6. /\ Started(turned, base) \in Seq(Task)
      /\ Len(Started(turned, base)) = Len(turned)
      /\ \A i \in 1..Len(turned) :
           Started(turned, base)[i] = IF i = 1 THEN SentAt(turned[1], base) ELSE turned[i]
  BY <1>2, <1>5, StartedIs
<1>7. \A i \in 1..Len(queue) : i # Len(queue) => i \in 1..Len(queue) - 1
  BY LenProperties
<1>8. QED
  BY <1>2, <1>3, <1>6, <1>7 DEF turned, Rotated

-----------------------------------------------------------------------------
(* A save that begins, an edit's or a retry's *)

LEMMA FieldsOfTask ==
  ASSUME NEW task \in Task, NEW base \in Nat
  PROVE  LET sent == SentAt(task, base) IN
           /\ sent \in Task
           /\ sent.row = task.row /\ sent.expected = task.expected
           /\ sent.patch = task.patch /\ sent.saved = task.saved
           /\ sent.phase = "sent" /\ sent.batch = base
  BY DEF SentAt, Task

LEMMA SaveOfIs ==
  ASSUME NEW r \in Row, NEW e \in Entry
  PROVE  LET task == SaveOf(r, e) IN
           /\ task \in Task
           /\ task.row = r /\ task.expected = e.revision /\ task.patch = e.queued
           /\ task.batch = None /\ task.phase = "waiting" /\ task.saved = None
  BY DEF SaveOf, Task, Entry

LEMMA DrainingIs ==
  ASSUME NEW e \in Entry
  PROVE  /\ Draining(e) \in Entry
         /\ Draining(e).revision = e.revision /\ Draining(e).queued = NoChange
         /\ Draining(e).unsaved = e.unsaved /\ Draining(e).phase = "saving"
  BY NoChangeIs DEF Draining, Entry

LEMMA TasksAre ==
  ASSUME TypeOK
  PROVE  /\ tasks \in Seq(Task)
         /\ Len(tasks) \in Nat
         /\ \A i \in 1..Len(tasks) :
              tasks[i] \in Task /\ tasks[i].row \in Row /\ tasks[i].patch \in Change
<1>1. tasks \in Seq(Task)
  BY DEF TypeOK
<1>2. Len(tasks) \in Nat
  BY <1>1, LenProperties
<1>3. ASSUME NEW i \in 1..Len(tasks)
      PROVE  tasks[i] \in Task
  BY <1>1
<1>4. QED
  BY <1>1, <1>2, <1>3 DEF Task

\* What a save that is added to the queue brings.
Begins(r, e) ==
  /\ entry' = [entry EXCEPT ![r] = Draining(e)]
  /\ tasks' = Started(Append(tasks, SaveOf(r, e)), ref)
  /\ label' = [label EXCEPT ![r] = "SAVING"]
  /\ UNCHANGED <<stored, ref, shown, reads, seen, mounted, disturbed, foreign>>

LEMMA BeginningQueue ==
  ASSUME TypeOK, NEW r \in Row, NEW e \in Entry, Begins(r, e)
  PROVE  /\ tasks' \in Seq(Task)
         /\ Len(tasks) \in Nat
         /\ Len(tasks') = Len(tasks) + 1
         /\ \A i \in 1..Len(tasks) : tasks'[i] = tasks[i]
         /\ LET last == tasks'[Len(tasks) + 1] IN
              /\ last.row = r /\ last.expected = e.revision /\ last.patch = e.queued
              /\ last.saved = None
              /\ last.phase = IF tasks = << >> THEN "sent" ELSE "waiting"
              /\ last.batch = IF tasks = << >> THEN ref ELSE None
<1>1. tasks \in Seq(Task) /\ ref \in Nat /\ (tasks # << >> => tasks[1].phase # "waiting")
  BY DEF TypeOK
<1>2. SaveOf(r, e) \in Task /\ SaveOf(r, e).phase = "waiting"
  BY SaveOfIs
<1>3. LET new == Started(Append(tasks, SaveOf(r, e)), ref) IN
        /\ new \in Seq(Task)
        /\ Len(new) = Len(tasks) + 1
        /\ \A i \in 1..Len(tasks) : new[i] = tasks[i]
        /\ new[Len(tasks) + 1] = IF tasks = << >> THEN SentAt(SaveOf(r, e), ref) ELSE SaveOf(r, e)
  BY <1>1, <1>2, AppendedIs
<1>4. tasks' = Started(Append(tasks, SaveOf(r, e)), ref)
  BY DEF Begins
<1>5. Len(tasks) \in Nat
  BY <1>1, LenProperties
<1>6. LET task == SaveOf(r, e)
          last == IF tasks = << >> THEN SentAt(task, ref) ELSE task
      IN /\ last.row = r /\ last.expected = e.revision /\ last.patch = e.queued
         /\ last.saved = None
         /\ last.phase = IF tasks = << >> THEN "sent" ELSE "waiting"
         /\ last.batch = IF tasks = << >> THEN ref ELSE None
  <2>1. PICK task : task = SaveOf(r, e)
    OBVIOUS
  <2>2. /\ task \in Task
        /\ task.row = r /\ task.expected = e.revision /\ task.patch = e.queued
        /\ task.batch = None /\ task.phase = "waiting" /\ task.saved = None
    BY <2>1, SaveOfIs
  <2>3. /\ SentAt(task, ref).row = r /\ SentAt(task, ref).expected = e.revision
        /\ SentAt(task, ref).patch = e.queued /\ SentAt(task, ref).saved = None
        /\ SentAt(task, ref).phase = "sent" /\ SentAt(task, ref).batch = ref
    BY <1>1, <2>2, FieldsOfTask
  <2>4. CASE tasks = << >>
    BY <2>1, <2>3, <2>4
  <2>5. CASE tasks # << >>
    BY <2>1, <2>2, <2>5
  <2>6. QED
    BY <2>4, <2>5
<1>7. QED
  BY <1>3, <1>4, <1>5, <1>6

LEMMA BeginningKeeps ==
  ASSUME IInv, NEW r \in Row, NEW e \in Entry, Begins(r, e),
         entry[r].phase = "idle",
         typed' \in [Row -> Change], \A s \in Row : s # r => typed'[s] = typed[s],
         edits' \in Nat,
         e.revision = shown[r],
         Taken(NoChange, e.unsaved, e.queued, typed'[r]),
         foreign = 0 => Kept(value[r], e.unsaved, typed'[r])
  PROVE  IInv'
<1> USE DEF IInv
<1>1. /\ tasks' \in Seq(Task)
      /\ Len(tasks) \in Nat
      /\ Len(tasks') = Len(tasks) + 1
      /\ \A i \in 1..Len(tasks) : tasks'[i] = tasks[i]
      /\ LET last == tasks'[Len(tasks) + 1] IN
           /\ last.row = r /\ last.expected = e.revision /\ last.patch = e.queued
           /\ last.saved = None
           /\ last.phase = IF tasks = << >> THEN "sent" ELSE "waiting"
           /\ last.batch = IF tasks = << >> THEN ref ELSE None
  BY BeginningQueue
<1>2. /\ entry' \in [Row -> Entry] /\ entry'[r] = Draining(e)
      /\ \A s \in Row : s # r => entry'[s] = entry[s]
      /\ label' \in [Row -> Label] /\ label'[r] = "SAVING"
      /\ \A s \in Row : s # r => label'[s] = label[s]
  BY DrainingIs DEF TypeOK, Begins, Label
<1>3. /\ Draining(e).revision = e.revision /\ Draining(e).queued = NoChange
      /\ Draining(e).unsaved = e.unsaved /\ Draining(e).phase = "saving"
  BY DrainingIs
<1>4. \A i \in 1..Len(tasks) : tasks[i] \in Task /\ tasks[i].row \in Row /\ tasks[i].row # r
  <2>1. \A i \in 1..Len(tasks) : tasks[i] \in Task /\ tasks[i].row \in Row
    BY TasksAre
  <2>2. QED
    BY <2>1 DEF TasksFit
<1>5. \A i \in 1..Len(tasks') : i \in 1..Len(tasks) \/ i = Len(tasks) + 1
  BY <1>1
<1>6. /\ tasks' # << >> /\ Head(tasks') = tasks'[1]
      /\ tasks = << >> => Len(tasks) = 0
      /\ tasks # << >> => 1 \in 1..Len(tasks) /\ Head(tasks) = tasks[1]
  BY <1>1 DEF TypeOK
<1>7. UNCHANGED <<open, batchRevision, rowRevision, value, ref, shown, reads, seen, mounted,
                  disturbed, foreign>>
  BY DEF Begins, stored
<1>8. TypeOK'
  <2>1. Head(tasks').phase # "waiting" /\ Head(tasks').batch \in Nat
    <3>1. CASE tasks = << >>
      BY <1>1, <1>6, <3>1 DEF TypeOK
    <3>2. CASE tasks # << >>
      <4>1. Head(tasks') = Head(tasks)
        BY <1>1, <1>6, <3>2
      <4>2. QED
        BY <3>2, <4>1 DEF TypeOK
    <3>3. QED
      BY <3>1, <3>2
  <2>2. QED
    BY <1>1, <1>2, <1>7, <2>1 DEF TypeOK
<1>9. TasksFit'
  <2>1. \A i, j \in 1..Len(tasks') : tasks'[i].row = tasks'[j].row => i = j
    BY <1>1, <1>4, <1>5 DEF TasksFit
  <2>2. ASSUME NEW i \in 1..Len(tasks')
        PROVE  /\ entry'[tasks'[i].row].phase = "saving"
               /\ i > 1 => tasks'[i].phase = "waiting"
               /\ tasks'[i].phase = "saved" => tasks'[i].saved \in Nat
    BY <1>1, <1>2, <1>3, <1>4, <1>5, <1>6 DEF TasksFit
  <2>3. ASSUME NEW s \in Row
        PROVE  /\ entry'[s].phase = "saving" => \E i \in 1..Len(tasks') : tasks'[i].row = s
               /\ entry'[s].phase # "idle" => label'[s] = "SAVING"
    <3>1. CASE s = r
      BY <1>1, <1>2, <3>1
    <3>2. CASE s # r
      BY <1>1, <1>2, <3>2 DEF TasksFit
    <3>3. QED
      BY <3>1, <3>2
  <2>4. QED
    BY <2>1, <2>2, <2>3 DEF TasksFit
<1>10. ChangesFit'
  <2>1. ASSUME NEW s \in Row, entry'[s].phase # "saving"
        PROVE  Loose(entry'[s].queued, entry'[s].unsaved, typed'[s])
    BY <1>2, <1>3, <2>1 DEF ChangesFit
  <2>2. ASSUME NEW i \in 1..Len(tasks')
        PROVE  LET s == tasks'[i].row
               IN Taken(entry'[s].queued, entry'[s].unsaved, tasks'[i].patch, typed'[s])
    <3>1. CASE i \in 1..Len(tasks)
      BY <1>1, <1>2, <1>4, <3>1 DEF ChangesFit
    <3>2. CASE i = Len(tasks) + 1
      BY <1>1, <1>2, <1>3, <3>2
    <3>3. QED
      BY <1>5, <3>1, <3>2
  <2>3. QED
    BY <2>1, <2>2 DEF ChangesFit
<1>11. ValuesFit'
  <2> SUFFICES ASSUME foreign = 0
               PROVE  /\ \A s \in Row : Kept(value[s], entry'[s].unsaved, typed'[s])
                      /\ \A i \in 1..Len(tasks') : tasks'[i].phase = "saved" =>
                           \A f \in Field : tasks'[i].patch[f] # Unset =>
                             value[tasks'[i].row][f] = tasks'[i].patch[f]
    BY <1>7 DEF ValuesFit, Kept
  <2>1. \A s \in Row : Kept(value[s], entry'[s].unsaved, typed'[s])
    BY <1>2, <1>3 DEF ValuesFit
  <2>2. \A i \in 1..Len(tasks') : tasks'[i].phase = "saved" =>
          i \in 1..Len(tasks) /\ tasks'[i] = tasks[i]
    BY <1>1, <1>5
  <2>3. QED
    BY <2>1, <2>2 DEF ValuesFit
<1>12. SavedIsClean'
  BY <1>2 DEF SavedIsClean
<1>13. RevisionsFit'
  <2> SUFFICES ASSUME ~disturbed, open
               PROVE  /\ \A s \in Row : label'[s] # "CONFLICT" /\ entry'[s].phase # "reloading"
                      /\ \A s \in Row : shown[s] # rowRevision[s] =>
                           tasks' # << >> /\ Head(tasks').phase = "saved" /\ Head(tasks').row = s
                      /\ tasks' = << >> \/ Head(tasks').phase # "saved" => ref = batchRevision
                      /\ \A i \in 1..Len(tasks') :
                           /\ tasks'[i].phase = "sent" => tasks'[i].batch = batchRevision
                           /\ tasks'[i].phase = "saved" =>
                                tasks'[i].saved = rowRevision[tasks'[i].row]
                           /\ tasks'[i].phase # "saved" =>
                                tasks'[i].expected = rowRevision[tasks'[i].row]
    BY <1>7 DEF RevisionsFit
  <2>1. \A s \in Row : label'[s] # "CONFLICT" /\ entry'[s].phase # "reloading"
    BY <1>2, <1>3 DEF RevisionsFit
  <2>2. tasks # << >> => Head(tasks') = Head(tasks)
    BY <1>1, <1>6
  <2>3. tasks = << >> => Head(tasks').phase = "sent" /\ Head(tasks').batch = ref
    BY <1>1, <1>6
  <2>4. tasks' = << >> \/ Head(tasks').phase # "saved" => ref = batchRevision
    BY <2>2, <2>3, <1>6 DEF RevisionsFit
  <2>5. \A s \in Row : shown[s] # rowRevision[s] =>
          tasks # << >> /\ Head(tasks).phase = "saved" /\ Head(tasks).row = s
    BY DEF RevisionsFit
  <2>6. shown[r] = rowRevision[r]
    BY <1>4, <1>6, <2>5
  <2>7. ASSUME NEW i \in 1..Len(tasks')
        PROVE  /\ tasks'[i].phase = "sent" => tasks'[i].batch = batchRevision
               /\ tasks'[i].phase = "saved" => tasks'[i].saved = rowRevision[tasks'[i].row]
               /\ tasks'[i].phase # "saved" => tasks'[i].expected = rowRevision[tasks'[i].row]
    <3>1. CASE i \in 1..Len(tasks)
      BY <1>1, <3>1 DEF RevisionsFit
    <3>2. CASE i = Len(tasks) + 1
      BY <1>1, <1>6, <2>3, <2>4, <2>6, <3>2
    <3>3. QED
      BY <1>5, <3>1, <3>2
  <2>8. QED
    BY <1>6, <2>1, <2>2, <2>4, <2>5, <2>7
<1>14. QED
  BY <1>8, <1>9, <1>10, <1>11, <1>12, <1>13

-----------------------------------------------------------------------------
(* A save that ends with an error *)

LEMMA FirstTask ==
  ASSUME TypeOK, TasksFit, tasks # << >>
  PROVE  /\ 1 \in 1..Len(tasks) /\ Head(tasks) = tasks[1]
         /\ tasks[1] \in Task /\ tasks[1].row \in Row /\ tasks[1].patch \in Change
         /\ tasks[1].phase \in {"sent", "saved"}
         /\ entry[tasks[1].row].phase = "saving" /\ label[tasks[1].row] = "SAVING"
         /\ \A i \in 2..Len(tasks) : i \in 1..Len(tasks) /\ tasks[i].phase = "waiting"
<1>1. 1 \in 1..Len(tasks) /\ Head(tasks) = tasks[1]
  BY TasksAre
<1>2. tasks[1] \in Task /\ tasks[1].row \in Row /\ tasks[1].patch \in Change
  BY <1>1, TasksAre
<1>3. tasks[1].phase \in {"sent", "saved"}
  BY <1>1, <1>2 DEF TypeOK, Task
<1>4. \A i \in 2..Len(tasks) : i \in 1..Len(tasks) /\ i > 1
  BY TasksAre
<1>5. QED
  BY <1>1, <1>2, <1>3, <1>4 DEF TasksFit

\* Each of the others moves up by one, and the next one is sent.
MovedUp(base) ==
  \A i \in 1..Len(tasks) - 1 :
    /\ i + 1 \in 1..Len(tasks) /\ i + 1 > 1
    /\ tasks'[i].row = tasks[i + 1].row
    /\ tasks'[i].expected = tasks[i + 1].expected
    /\ tasks'[i].patch = tasks[i + 1].patch
    /\ tasks'[i].phase = IF i = 1 THEN "sent" ELSE "waiting"
    /\ i = 1 => tasks'[i].batch = base

LEMMA DroppedMovesUp ==
  ASSUME TypeOK, TasksFit, tasks # << >>, NEW base \in Nat,
         tasks' = Started(Tail(tasks), base)
  PROVE  /\ tasks' \in Seq(Task)
         /\ Len(tasks') = Len(tasks) - 1
         /\ MovedUp(base)
<1>1. /\ tasks' \in Seq(Task)
      /\ Len(tasks') = Len(tasks) - 1
      /\ \A i \in 1..Len(tasks) - 1 :
           tasks'[i] = IF i = 1 THEN SentAt(tasks[2], base) ELSE tasks[i + 1]
  BY FirstTask, TasksAre, DroppedIs
<1>2. \A i \in 1..Len(tasks) - 1 : i + 1 \in 2..Len(tasks) /\ i + 1 \in 1..Len(tasks) /\ i + 1 > 1
  BY TasksAre
<1>3. \A i \in 1..Len(tasks) - 1 : tasks[i + 1] \in Task /\ tasks[i + 1].phase = "waiting"
  BY <1>2, TasksAre, FirstTask
<1>4. ASSUME NEW i \in 1..Len(tasks) - 1
      PROVE  /\ tasks'[i].row = tasks[i + 1].row
             /\ tasks'[i].expected = tasks[i + 1].expected
             /\ tasks'[i].patch = tasks[i + 1].patch
             /\ tasks'[i].phase = IF i = 1 THEN "sent" ELSE "waiting"
             /\ i = 1 => tasks'[i].batch = base
  <2>1. CASE i = 1
    <3>1. tasks'[i] = SentAt(tasks[i + 1], base)
      BY <1>1, <2>1
    <3>2. tasks[i + 1] \in Task
      BY <1>3
    <3> DEFINE next == tasks[i + 1]
    <3> HIDE DEF next
    <3>3. LET sent == SentAt(next, base)
          IN sent.row = next.row /\ sent.expected = next.expected /\ sent.patch = next.patch
             /\ sent.phase = "sent" /\ sent.batch = base
      BY <3>2, FieldsOfTask DEF next
    <3>4. QED
      BY <2>1, <3>1, <3>3 DEF next
  <2>2. CASE i # 1
    BY <1>1, <1>3, <2>2
  <2>3. QED
    BY <2>1, <2>2
<1>5. QED
  BY <1>1, <1>2, <1>4 DEF MovedUp

\* The entry of the row that fails takes its changes back.
LEMMA FailingEntry ==
  ASSUME TypeOK, TasksFit, tasks # << >>, NEW phase \in {"idle", "reloading"}, TaskFails(phase)
  PROVE  LET r == tasks[1].row IN
           /\ entry' \in [Row -> Entry]
           /\ \A s \in Row : s # r => entry'[s] = entry[s]
           /\ entry'[r].queued = Restored(tasks[1].patch, entry[r].queued)
           /\ entry'[r].unsaved = entry[r].unsaved
           /\ entry'[r].phase = phase
           /\ label' \in [Row -> Label]
           /\ \A s \in Row : s # r => label'[s] = label[s]
           /\ label'[r] = IF phase = "idle" THEN "ERROR" ELSE "SAVING"
<1>1. /\ Head(tasks) = tasks[1] /\ tasks[1].row \in Row /\ tasks[1].patch \in Change
      /\ label[tasks[1].row] = "SAVING"
  BY FirstTask
<1>2. entry \in [Row -> Entry] /\ label \in [Row -> Label]
  BY DEF TypeOK
<1>3. Restored(tasks[1].patch, entry[tasks[1].row].queued) \in Change
  BY <1>1, <1>2, MergeIs DEF Restored, Entry
<1>4. /\ entry' = [entry EXCEPT ![tasks[1].row].queued = Restored(tasks[1].patch, @),
                                 ![tasks[1].row].phase = phase]
      /\ label' = IF phase = "idle" THEN [label EXCEPT ![tasks[1].row] = "ERROR"] ELSE label
  BY <1>1 DEF TaskFails
<1> DEFINE r == tasks[1].row
           e == [entry[r] EXCEPT !.queued = Restored(tasks[1].patch, entry[r].queued),
                                 !.phase = phase]
<1>5. entry[r] \in Entry
  BY <1>1, <1>2
<1>6. /\ e \in Entry /\ e.queued = Restored(tasks[1].patch, entry[r].queued)
      /\ e.unsaved = entry[r].unsaved /\ e.phase = phase
  BY <1>3, <1>5 DEF Entry
<1>7. entry' = [entry EXCEPT ![r] = e]
  BY <1>1, <1>2, <1>4
<1>8. r \in Row
  BY <1>1
<1> HIDE DEF e, r
<1>9. /\ entry' \in [Row -> Entry] /\ entry'[r] = e
      /\ \A s \in Row : s # r => entry'[s] = entry[s]
  BY <1>2, <1>6, <1>7, <1>8
<1>10. /\ label' \in [Row -> Label]
       /\ \A s \in Row : s # r => label'[s] = label[s]
       /\ label'[r] = IF phase = "idle" THEN "ERROR" ELSE "SAVING"
  BY <1>1, <1>2, <1>4 DEF Label, r
<1>11. QED
  BY <1>6, <1>9, <1>10 DEF r

LEMMA FailingKeeps ==
  ASSUME IInv, tasks # << >>, NEW phase \in {"idle", "reloading"}, TaskFails(phase),
         open' \in BOOLEAN, disturbed' \in BOOLEAN, disturbed' \/ ~open',
         batchRevision' \in Nat, rowRevision' \in [Row -> Nat],
         value' \in [Row -> [Field -> Value \cup {None}]],
         foreign = 0 => \A s \in Row : Kept(value'[s], entry[s].unsaved, typed[s])
  PROVE  IInv'
<1> USE DEF IInv
<1> DEFINE r == tasks[1].row
<1>1. /\ 1 \in 1..Len(tasks) /\ Head(tasks) = tasks[1]
      /\ tasks[1] \in Task /\ r \in Row /\ tasks[1].patch \in Change
  BY FirstTask
<1>2. UNCHANGED <<ref, shown, reads, seen, mounted, typed, edits, foreign>> /\ ref \in Nat
  BY DEF TaskFails, TypeOK
<1>3. /\ tasks' \in Seq(Task)
      /\ Len(tasks) \in Nat
      /\ Len(tasks') = Len(tasks) - 1
      /\ MovedUp(ref)
  <2>1. tasks' = Started(Tail(tasks), ref)
    BY DEF TaskFails
  <2>2. QED
    BY <1>2, <2>1, DroppedMovesUp, TasksAre
<1>4. /\ entry' \in [Row -> Entry]
      /\ \A s \in Row : s # r => entry'[s] = entry[s]
      /\ entry'[r].queued = Restored(tasks[1].patch, entry[r].queued)
      /\ entry'[r].unsaved = entry[r].unsaved
      /\ entry'[r].phase = phase
      /\ label' \in [Row -> Label]
      /\ \A s \in Row : s # r => label'[s] = label[s]
      /\ label'[r] = IF phase = "idle" THEN "ERROR" ELSE "SAVING"
  BY FailingEntry
<1>5. /\ \A i \in 1..Len(tasks) : tasks[i].row \in Row
      /\ \A i \in 1..Len(tasks) : i # 1 => tasks[i].row # r
  BY <1>1, TasksAre DEF TasksFit
<1>6. \A i \in 1..Len(tasks') :
        /\ i \in 1..Len(tasks) - 1 /\ i + 1 \in 1..Len(tasks) /\ i + 1 # 1
        /\ tasks'[i].row = tasks[i + 1].row /\ tasks'[i].row \in Row /\ tasks'[i].row # r
        /\ tasks'[i].patch = tasks[i + 1].patch
        /\ tasks'[i].phase = IF i = 1 THEN "sent" ELSE "waiting"
        /\ i = 1 => tasks'[i].batch = ref
  BY <1>3, <1>5 DEF MovedUp
<1> HIDE DEF r
<1>7. TypeOK'
  <2>1. tasks' # << >> => Head(tasks').phase # "waiting" /\ Head(tasks').batch \in Nat
    <3>1. tasks' # << >> => 1 \in 1..Len(tasks') /\ Head(tasks') = tasks'[1]
      BY <1>3
    <3>2. QED
      BY <1>2, <1>6, <3>1
  <2>2. QED
    BY <1>2, <1>3, <1>4, <2>1 DEF TypeOK
<1>8. TasksFit'
  <2>1. ASSUME NEW i \in 1..Len(tasks'), NEW j \in 1..Len(tasks'), tasks'[i].row = tasks'[j].row
        PROVE  i = j
    <3>1. /\ i + 1 \in 1..Len(tasks) /\ j + 1 \in 1..Len(tasks)
          /\ tasks[i + 1].row = tasks[j + 1].row
      BY <1>6, <2>1
    <3>2. i + 1 = j + 1
      BY <3>1, Zenon DEF TasksFit
    <3>3. i \in Nat /\ j \in Nat
      BY <1>3
    <3>4. QED
      BY <3>2, <3>3
  <2>2. ASSUME NEW i \in 1..Len(tasks')
        PROVE  /\ entry'[tasks'[i].row].phase = "saving"
               /\ i > 1 => tasks'[i].phase = "waiting"
               /\ tasks'[i].phase = "saved" => tasks'[i].saved \in Nat
    BY <1>4, <1>6 DEF TasksFit
  <2>3. ASSUME NEW s \in Row
        PROVE  /\ entry'[s].phase = "saving" => \E i \in 1..Len(tasks') : tasks'[i].row = s
               /\ entry'[s].phase # "idle" => label'[s] = "SAVING"
    <3>1. CASE s = r
      BY <1>4, <3>1
    <3>2. CASE s # r
      <4>1. ASSUME entry[s].phase = "saving"
            PROVE  \E i \in 1..Len(tasks') : tasks'[i].row = s
        <5>1. PICK j \in 1..Len(tasks) : tasks[j].row = s
          BY <4>1 DEF TasksFit
        <5>2. j # 1
          BY <3>2, <5>1 DEF r
        <5>3. j - 1 \in 1..Len(tasks') /\ (j - 1) + 1 = j
          BY <1>3, <5>2
        <5>4. tasks'[j - 1].row = tasks[j].row
          BY <1>6, <5>3
        <5>5. QED
          BY <5>1, <5>3, <5>4
      <4>2. QED
        BY <1>4, <3>2, <4>1 DEF TasksFit
    <3>3. QED
      BY <3>1, <3>2
  <2>4. QED
    BY <2>1, <2>2, <2>3 DEF TasksFit
<1>9. Taken(entry[r].queued, entry[r].unsaved, tasks[1].patch, typed[r])
  BY <1>1 DEF ChangesFit, r
<1>10. ChangesFit'
  <2>1. /\ typed \in [Row -> Change]
        /\ entry[r].queued \in Change /\ entry[r].unsaved \in Change /\ typed[r] \in Change
    BY <1>1 DEF TypeOK, Entry, r
  <2>2. Loose(Restored(tasks[1].patch, entry[r].queued), entry[r].unsaved, typed[r])
    BY <1>1, <1>9, <2>1, SaveFailed
  <2>3. ASSUME NEW s \in Row, entry'[s].phase # "saving"
        PROVE  Loose(entry'[s].queued, entry'[s].unsaved, typed[s])
    <3>1. CASE s = r
      BY <1>4, <2>2, <3>1
    <3>2. CASE s # r
      BY <1>4, <2>3, <3>2 DEF ChangesFit
    <3>3. QED
      BY <3>1, <3>2
  <2>4. ASSUME NEW i \in 1..Len(tasks')
        PROVE  Taken(entry'[tasks'[i].row].queued, entry'[tasks'[i].row].unsaved,
                     tasks'[i].patch, typed[tasks'[i].row])
    <3>1. PICK j \in 1..Len(tasks) :
            /\ tasks'[i].row = tasks[j].row /\ tasks[j].row \in Row /\ tasks[j].row # r
            /\ tasks'[i].patch = tasks[j].patch
      BY <1>6
    <3>2. entry'[tasks[j].row] = entry[tasks[j].row]
      BY <1>4, <3>1
    <3>3. Taken(entry[tasks[j].row].queued, entry[tasks[j].row].unsaved,
                tasks[j].patch, typed[tasks[j].row])
      BY <3>1, Zenon DEF ChangesFit
    <3>4. QED
      BY <3>1, <3>2, <3>3
  <2>5. QED
    BY <1>2, <2>3, <2>4 DEF ChangesFit
<1>11. ValuesFit'
  <2> SUFFICES ASSUME foreign = 0
               PROVE  /\ \A s \in Row : Kept(value'[s], entry'[s].unsaved, typed[s])
                      /\ \A i \in 1..Len(tasks') : tasks'[i].phase # "saved"
    BY <1>2 DEF ValuesFit, Kept
  <2>1. ASSUME NEW s \in Row
        PROVE  entry'[s].unsaved = entry[s].unsaved
    BY <1>4
  <2>2. QED
    BY <1>6, <2>1
<1>12. SavedIsClean'
  BY <1>4 DEF SavedIsClean
<1>13. RevisionsFit'
  BY DEF RevisionsFit
<1>14. QED
  BY <1>7, <1>8, <1>10, <1>11, <1>12, <1>13

-----------------------------------------------------------------------------
(* The user's actions *)

LEMMA RowIs ==
  ASSUME TypeOK, NEW r \in Row
  PROVE  /\ entry[r] \in Entry
         /\ entry[r].queued \in Change /\ entry[r].unsaved \in Change
         /\ typed[r] \in Change
         /\ shown[r] \in Nat /\ rowRevision[r] \in Nat
         /\ value[r] \in [Field -> Value \cup {None}]
  BY DEF TypeOK, Entry

LEMMA EnqueuedIs ==
  ASSUME TypeOK, NEW r \in Row, NEW change \in Change
  PROVE  LET e == Enqueued(r, change) IN
           /\ e \in Entry
           /\ e.queued = Merge(entry[r].queued, change)
           /\ e.unsaved = Merge(entry[r].unsaved, change)
           /\ e.phase = entry[r].phase
           /\ entry[r].phase = "idle" => e.revision = shown[r]
<1>1. /\ entry[r] \in Entry /\ shown[r] \in Nat
      /\ Merge(entry[r].queued, change) \in Change /\ Merge(entry[r].unsaved, change) \in Change
  BY RowIs, MergeIs
<1>2. QED
  BY <1>1 DEF Enqueued, Entry

LEMMA EditRowKeeps ==
  ASSUME IInv, NEW r \in Row, NEW change \in Edit, EditRow(r, change)
  PROVE  IInv'
<1> USE DEF IInv
<1> DEFINE e == Enqueued(r, change)
<1>1. change \in Change
  BY EditAssumption
<1>2. /\ entry[r] \in Entry /\ entry[r].queued \in Change /\ entry[r].unsaved \in Change
      /\ typed[r] \in Change
  BY RowIs
<1>3. /\ e \in Entry
      /\ e.queued = Merge(entry[r].queued, change)
      /\ e.unsaved = Merge(entry[r].unsaved, change)
      /\ e.phase = entry[r].phase
      /\ entry[r].phase = "idle" => e.revision = shown[r]
  BY <1>1, EnqueuedIs
<1>4. /\ typed' \in [Row -> Change] /\ typed'[r] = Merge(typed[r], change)
      /\ \A s \in Row : s # r => typed'[s] = typed[s]
  <2>1. Merge(typed[r], change) \in Change
    BY <1>1, <1>2, MergeIs
  <2>2. typed' = [typed EXCEPT ![r] = Merge(typed[r], change)] /\ typed \in [Row -> Change]
    BY DEF EditRow, TypeOK
  <2>3. QED
    BY <2>1, <2>2
<1>5. foreign = 0 => Kept(value[r], Merge(entry[r].unsaved, change), Merge(typed[r], change))
  BY <1>1, <1>2, EditKeeps DEF ValuesFit
<1>6. edits' \in Nat
  BY DEF EditRow, TypeOK
<1>7. CASE entry[r].phase = "idle"
  <2>1. Begins(r, e)
    BY <1>7 DEF EditRow, Begins
  <2>2. Taken(NoChange, e.unsaved, e.queued, typed'[r])
    <3>1. Loose(entry[r].queued, entry[r].unsaved, typed[r])
      BY <1>7 DEF ChangesFit
    <3>2. QED
      BY <1>1, <1>2, <1>3, <1>4, <3>1, EditOfIdle
  <2> HIDE DEF e
  <2>3. QED
    BY <1>3, <1>4, <1>5, <1>6, <1>7, <2>1, <2>2, BeginningKeeps
<1>8. CASE entry[r].phase # "idle"
  <2>1. entry' = [entry EXCEPT ![r] = e] /\ UNCHANGED tasks
    BY <1>8 DEF EditRow
  <2>2. label' = [label EXCEPT ![r] = "SAVING"]
    BY DEF EditRow
  <2>3. UNCHANGED <<open, batchRevision, rowRevision, value, ref, shown, reads, seen, mounted,
                    disturbed, foreign>>
    BY DEF EditRow, stored
  <2> HIDE DEF e
  <2>4. /\ entry' \in [Row -> Entry] /\ entry'[r] = e
        /\ \A s \in Row : s # r => entry'[s] = entry[s]
        /\ label' \in [Row -> Label] /\ label'[r] = "SAVING"
        /\ \A s \in Row : s # r => label'[s] = label[s]
    BY <1>3, <2>1, <2>2 DEF TypeOK, Label
  <2>5. \A s \in Row : entry'[s].phase = entry[s].phase
    BY <1>3, <2>4
  <2>6. TypeOK'
    BY <1>4, <1>6, <2>1, <2>3, <2>4 DEF TypeOK
  <2>7. \A i \in 1..Len(tasks) : tasks[i].row \in Row /\ tasks[i].patch \in Change
    BY TasksAre
  <2>8. TasksFit'
    BY <2>1, <2>4, <2>5, <2>7 DEF TasksFit
  <2>9. ASSUME NEW s \in Row, entry'[s].phase # "saving"
        PROVE  Loose(entry'[s].queued, entry'[s].unsaved, typed'[s])
    <3>1. CASE s = r
      <4>1. Loose(entry[r].queued, entry[r].unsaved, typed[r])
        BY <2>5, <2>9, <3>1 DEF ChangesFit
      <4>2. QED
        BY <1>1, <1>2, <1>3, <1>4, <2>4, <3>1, <4>1, EditOfReloading
    <3>2. CASE s # r
      BY <1>4, <2>4, <2>9, <3>2 DEF ChangesFit
    <3>3. QED
      BY <3>1, <3>2
  <2>10. ASSUME NEW i \in 1..Len(tasks)
         PROVE  Taken(entry'[tasks[i].row].queued, entry'[tasks[i].row].unsaved,
                      tasks[i].patch, typed'[tasks[i].row])
    <3>1. CASE tasks[i].row = r
      <4>1. Taken(entry[r].queued, entry[r].unsaved, tasks[i].patch, typed[r])
        BY <3>1 DEF ChangesFit
      <4>2. QED
        BY <1>1, <1>2, <1>3, <1>4, <2>4, <2>7, <3>1, <4>1, EditOfSaving
    <3>2. CASE tasks[i].row # r
      BY <1>4, <2>4, <2>7, <3>2 DEF ChangesFit
    <3>3. QED
      BY <3>1, <3>2
  <2>11. ChangesFit'
    BY <2>1, <2>9, <2>10 DEF ChangesFit
  <2>12. ValuesFit'
    <3>1. foreign = 0 => \A s \in Row : Kept(value[s], entry'[s].unsaved, typed'[s])
      BY <1>3, <1>4, <1>5, <2>4 DEF ValuesFit
    <3>2. QED
      BY <2>1, <2>3, <3>1 DEF ValuesFit, Kept
  <2>13. SavedIsClean'
    BY <2>4 DEF SavedIsClean
  <2>14. RevisionsFit'
    BY <2>1, <2>3, <2>4, <2>5 DEF RevisionsFit
  <2>15. QED
    BY <2>6, <2>8, <2>11, <2>12, <2>13, <2>14
<1>9. QED
  BY <1>7, <1>8

LEMMA RetryKeeps ==
  ASSUME IInv, NEW r \in Row, Retry(r)
  PROVE  IInv'
<1> USE DEF IInv
<1> DEFINE e == [entry[r] EXCEPT !.revision = shown[r], !.queued = entry[r].unsaved]
<1>1. /\ entry[r] \in Entry /\ entry[r].queued \in Change /\ entry[r].unsaved \in Change
      /\ typed[r] \in Change /\ shown[r] \in Nat
  BY RowIs
<1>2. /\ e \in Entry /\ e.revision = shown[r]
      /\ e.queued = entry[r].unsaved /\ e.unsaved = entry[r].unsaved
  BY <1>1 DEF Entry
<1>3. Begins(r, e) /\ entry[r].phase = "idle"
  BY DEF Retry, Begins
<1>4. Taken(NoChange, entry[r].unsaved, entry[r].unsaved, typed[r])
  <2>1. Loose(entry[r].queued, entry[r].unsaved, typed[r])
    BY <1>3 DEF ChangesFit
  <2>2. QED
    BY <1>1, <2>1, RetryOfAll
<1>5. foreign = 0 => Kept(value[r], entry[r].unsaved, typed[r])
  BY DEF ValuesFit
<1>6. typed' = typed /\ typed' \in [Row -> Change] /\ edits' \in Nat
  BY DEF Retry, TypeOK
<1> HIDE DEF e
<1>7. QED
  BY <1>2, <1>3, <1>4, <1>5, <1>6, BeginningKeeps

-----------------------------------------------------------------------------
(* The answers to the first save *)

\* What the server has after the patch is stored.
LEMMA StoreIs ==
  ASSUME TypeOK, TasksFit, tasks # << >>, Store
  PROVE  LET r == tasks[1].row IN
           /\ value' \in [Row -> [Field -> Value \cup {None}]]
           /\ value'[r] = Stored(value[r], tasks[1].patch)
           /\ \A s \in Row : s # r => value'[s] = value[s]
           /\ rowRevision' \in [Row -> Nat]
           /\ rowRevision'[r] = rowRevision[r] + 1
           /\ \A s \in Row : s # r => rowRevision'[s] = rowRevision[s]
           /\ batchRevision' \in Nat
<1> DEFINE r == tasks[1].row
           fields == Stored(value[r], tasks[1].patch)
<1>1. Head(tasks) = tasks[1] /\ r \in Row /\ tasks[1].patch \in Change
  BY FirstTask
<1>2. fields \in [Field -> Value \cup {None}] /\ rowRevision[r] + 1 \in Nat
  BY <1>1, RowIs, StoredIs
<1>3. /\ value' = [value EXCEPT ![r] = fields]
      /\ rowRevision' = [rowRevision EXCEPT ![r] = rowRevision[r] + 1]
      /\ batchRevision' = batchRevision + 1
  BY <1>1 DEF Store
<1>4. /\ value \in [Row -> [Field -> Value \cup {None}]]
      /\ rowRevision \in [Row -> Nat] /\ batchRevision \in Nat
  BY DEF TypeOK
<1> HIDE DEF fields, r
<1>5. QED
  BY <1>1, <1>2, <1>3, <1>4 DEF fields, r

LEMMA StoringKeeps ==
  ASSUME TypeOK, TasksFit, ChangesFit, ValuesFit, tasks # << >>, Store, foreign = 0
  PROVE  \A s \in Row : Kept(value'[s], entry[s].unsaved, typed[s])
<1> DEFINE r == tasks[1].row
<1>1. 1 \in 1..Len(tasks) /\ r \in Row /\ tasks[1].patch \in Change
  BY FirstTask
<1>2. Taken(entry[r].queued, entry[r].unsaved, tasks[1].patch, typed[r])
  BY <1>1 DEF ChangesFit
<1>3. \A s \in Row : Kept(value[s], entry[s].unsaved, typed[s])
  BY DEF ValuesFit
<1>4. Kept(Stored(value[r], tasks[1].patch), entry[r].unsaved, typed[r])
  BY <1>1, <1>2, <1>3, RowIs, StoreKeeps
<1>5. value'[r] = Stored(value[r], tasks[1].patch) /\ \A s \in Row : s # r => value'[s] = value[s]
  BY StoreIs
<1>6. QED
  BY <1>3, <1>4, <1>5

LEMMA PatchSavedKeeps ==
  ASSUME IInv, PatchSaved
  PROVE  IInv'
<1> USE DEF IInv
<1> DEFINE r == tasks[1].row
<1>1. tasks # << >> /\ Head(tasks).phase = "sent"
  BY DEF PatchSaved, Sent
<1>2. /\ 1 \in 1..Len(tasks) /\ Head(tasks) = tasks[1]
      /\ tasks[1] \in Task /\ r \in Row /\ tasks[1].patch \in Change
  BY <1>1, FirstTask
<1>3. Store /\ UNCHANGED <<open, ref, shown, entry, label, reads, seen, mounted,
                           typed, disturbed, edits, foreign>>
  BY DEF PatchSaved, history
<1>4. /\ value' \in [Row -> [Field -> Value \cup {None}]]
      /\ value'[r] = Stored(value[r], tasks[1].patch)
      /\ \A s \in Row : s # r => value'[s] = value[s]
      /\ rowRevision' \in [Row -> Nat]
      /\ rowRevision'[r] = rowRevision[r] + 1
      /\ \A s \in Row : s # r => rowRevision'[s] = rowRevision[s]
      /\ batchRevision' \in Nat
  BY <1>1, <1>3, StoreIs
<1>5. rowRevision[r] + 1 \in Nat
  BY <1>2, RowIs
<1>6. /\ tasks' \in Seq(Task) /\ Len(tasks') = Len(tasks) /\ Len(tasks) \in Nat
      /\ \A i \in 1..Len(tasks) : i # 1 => tasks'[i] = tasks[i]
      /\ tasks'[1].row = r /\ tasks'[1].patch = tasks[1].patch
      /\ tasks'[1].phase = "saved" /\ tasks'[1].saved = rowRevision[r] + 1
      /\ tasks'[1].batch = tasks[1].batch
  <2> DEFINE saved == [tasks[1] EXCEPT !.phase = "saved", !.saved = rowRevision[r] + 1]
  <2>1. /\ saved \in Task /\ saved.row = r /\ saved.patch = tasks[1].patch
        /\ saved.phase = "saved" /\ saved.saved = rowRevision[r] + 1
        /\ saved.batch = tasks[1].batch
    BY <1>2, <1>5 DEF Task
  <2>2. tasks' = [tasks EXCEPT ![1] = saved]
    BY <1>2 DEF PatchSaved
  <2> HIDE DEF saved
  <2>3. /\ tasks' \in Seq(Task) /\ Len(tasks') = Len(tasks)
        /\ tasks'[1] = saved
        /\ \A i \in 1..Len(tasks) : i # 1 => tasks'[i] = tasks[i]
    BY <1>2, <2>1, <2>2, TasksAre, ExceptSeq
  <2>4. QED
    BY <2>1, <2>3, TasksAre
<1>7. /\ \A i \in 1..Len(tasks) : tasks[i].row \in Row
      /\ \A i \in 1..Len(tasks) : i # 1 => i > 1 /\ tasks[i].row # r /\ tasks[i].phase = "waiting"
  BY <1>2, TasksAre DEF TasksFit
<1>8. tasks' # << >> /\ Head(tasks') = tasks'[1]
  BY <1>2, <1>6
<1>9. TypeOK'
  BY <1>1, <1>2, <1>3, <1>4, <1>6, <1>8 DEF TypeOK
<1> HIDE DEF r
<1>10. \A i \in 1..Len(tasks) : tasks'[i].row = tasks[i].row /\ tasks'[i].patch = tasks[i].patch
  BY <1>6 DEF r
<1>11. TasksFit'
  <2>1. ASSUME NEW i \in 1..Len(tasks)
        PROVE  /\ i > 1 => tasks'[i].phase = "waiting"
               /\ tasks'[i].phase = "saved" => tasks'[i].saved \in Nat
    BY <1>5, <1>6, <1>7
  <2>2. QED
    BY <1>3, <1>6, <1>10, <2>1 DEF TasksFit
<1>12. ChangesFit'
  <2>1. ASSUME NEW i \in 1..Len(tasks)
        PROVE  Taken(entry[tasks'[i].row].queued, entry[tasks'[i].row].unsaved,
                     tasks'[i].patch, typed[tasks'[i].row])
    <3>1. Taken(entry[tasks[i].row].queued, entry[tasks[i].row].unsaved,
                tasks[i].patch, typed[tasks[i].row])
      BY Zenon DEF ChangesFit
    <3>2. QED
      BY <1>10, <3>1, Zenon
  <2>2. 1..Len(tasks') = 1..Len(tasks) /\ entry' = entry /\ typed' = typed
    BY <1>3, <1>6
  <2>3. ASSUME NEW s \in Row, entry[s].phase # "saving"
        PROVE  Loose(entry[s].queued, entry[s].unsaved, typed[s])
    BY <2>3, Zenon DEF ChangesFit
  <2>4. QED
    BY <2>1, <2>2, <2>3 DEF ChangesFit
<1>13. ValuesFit'
  <2> SUFFICES ASSUME foreign = 0
               PROVE  /\ \A s \in Row : Kept(value'[s], entry[s].unsaved, typed[s])
                      /\ \A i \in 1..Len(tasks') : tasks'[i].phase = "saved" =>
                           \A f \in Field : tasks'[i].patch[f] # Unset =>
                             value'[tasks'[i].row][f] = tasks'[i].patch[f]
    BY <1>3 DEF ValuesFit, Kept
  <2>1. \A s \in Row : Kept(value'[s], entry[s].unsaved, typed[s])
    BY <1>1, <1>3, StoringKeeps
  <2>2. \A i \in 1..Len(tasks') : tasks'[i].phase = "saved" => i = 1
    BY <1>6, <1>7
  <2>3. \A f \in Field : tasks[1].patch[f] # Unset => value'[r][f] = tasks[1].patch[f]
    <3>1. value[r] \in [Field -> Value \cup {None}] /\ tasks[1].patch \in Change
      BY <1>2, RowIs DEF r
    <3>2. value'[r] = Stored(value[r], tasks[1].patch)
      BY <1>4 DEF r
    <3>3. QED
      BY <3>1, <3>2, StoredIs
  <2>4. QED
    BY <1>6, <2>1, <2>2, <2>3
<1>14. SavedIsClean'
  BY <1>3 DEF SavedIsClean
<1>15. RevisionsFit'
  <2> SUFFICES ASSUME ~disturbed, open
               PROVE  /\ \A s \in Row : label[s] # "CONFLICT" /\ entry[s].phase # "reloading"
                      /\ \A s \in Row : shown[s] # rowRevision'[s] => s = r
                      /\ \A i \in 1..Len(tasks) :
                           /\ tasks'[i].phase # "sent"
                           /\ tasks'[i].phase = "saved" =>
                                tasks'[i].saved = rowRevision'[tasks'[i].row]
                           /\ tasks'[i].phase # "saved" =>
                                tasks'[i].expected = rowRevision'[tasks'[i].row]
    BY <1>3, <1>6, <1>8 DEF RevisionsFit
  <2>1. \A s \in Row : label[s] # "CONFLICT" /\ entry[s].phase # "reloading"
    BY DEF RevisionsFit
  <2>2. \A s \in Row : shown[s] = rowRevision[s]
    BY <1>1 DEF RevisionsFit
  <2>3. \A i \in 1..Len(tasks) : tasks[i].phase # "saved" =>
          tasks[i].expected = rowRevision[tasks[i].row]
    BY DEF RevisionsFit
  <2>4. ASSUME NEW i \in 1..Len(tasks)
        PROVE  /\ tasks'[i].phase # "sent"
               /\ tasks'[i].phase = "saved" => tasks'[i].saved = rowRevision'[tasks'[i].row]
               /\ tasks'[i].phase # "saved" => tasks'[i].expected = rowRevision'[tasks'[i].row]
    <3>1. CASE i = 1
      BY <1>4, <1>6, <3>1 DEF r
    <3>2. CASE i # 1
      BY <1>4, <1>6, <1>7, <2>3, <3>2 DEF r
    <3>3. QED
      BY <3>1, <3>2
  <2>5. QED
    BY <1>4, <2>1, <2>2, <2>4 DEF r
<1>16. QED
  BY <1>9, <1>11, <1>12, <1>13, <1>14, <1>15

\* A page that nothing disturbs sends the revisions that are stored.
LEMMA UndisturbedIsAccepted ==
  ASSUME IInv, Sent, ~disturbed, open
  PROVE  Accepted
<1>1. tasks # << >> /\ Head(tasks).phase = "sent"
  BY DEF Sent
<1>2. 1 \in 1..Len(tasks) /\ Head(tasks) = tasks[1]
  BY <1>1, FirstTask DEF IInv
<1>3. QED
  BY <1>1, <1>2 DEF IInv, RevisionsFit, Accepted

LEMMA PatchConflictsKeeps ==
  ASSUME IInv, PatchConflicts
  PROVE  IInv'
<1>1. tasks # << >> /\ TaskFails("reloading")
  BY DEF PatchConflicts, Sent
<1>2. UNCHANGED <<open, batchRevision, rowRevision, value, disturbed>>
  BY DEF PatchConflicts, stored
<1>3. disturbed \/ ~open
  BY UndisturbedIsAccepted DEF PatchConflicts
<1>4. foreign = 0 => \A s \in Row : Kept(value[s], entry[s].unsaved, typed[s])
  BY DEF IInv, ValuesFit
<1>5. /\ open \in BOOLEAN /\ disturbed \in BOOLEAN
      /\ batchRevision \in Nat /\ rowRevision \in [Row -> Nat]
      /\ value \in [Row -> [Field -> Value \cup {None}]]
  BY DEF IInv, TypeOK
<1>6. QED
  BY <1>1, <1>2, <1>3, <1>4, <1>5, FailingKeeps

LEMMA LostKeeps ==
  ASSUME IInv, PatchLost \/ BatchLost
  PROVE  IInv'
<1> USE DEF IInv
<1>1. tasks # << >> /\ TaskFails("idle") /\ disturbed' = TRUE
  BY DEF PatchLost, BatchLost, Sent
<1>2. UNCHANGED open /\ (Store \/ UNCHANGED <<batchRevision, rowRevision, value>>)
  BY DEF PatchLost, BatchLost, stored
<1>3. /\ open \in BOOLEAN /\ batchRevision \in Nat /\ rowRevision \in [Row -> Nat]
      /\ value \in [Row -> [Field -> Value \cup {None}]]
  BY DEF TypeOK
<1>4. /\ batchRevision' \in Nat /\ rowRevision' \in [Row -> Nat]
      /\ value' \in [Row -> [Field -> Value \cup {None}]]
  BY <1>1, <1>2, <1>3, StoreIs
<1>5. foreign = 0 => \A s \in Row : Kept(value'[s], entry[s].unsaved, typed[s])
  <2>1. CASE Store
    BY <1>1, <2>1, StoringKeeps
  <2>2. CASE UNCHANGED <<batchRevision, rowRevision, value>>
    BY <2>2 DEF ValuesFit
  <2>3. QED
    BY <1>2, <2>1, <2>2
<1>6. open' \in BOOLEAN /\ disturbed' \in BOOLEAN /\ disturbed'
  BY <1>1, <1>2, <1>3
<1>7. QED
  BY <1>1, <1>4, <1>5, <1>6, FailingKeeps
\* Changes made during a save are the next save, at the end of the queue.
LEMMA RotatedMovesUp ==
  ASSUME TypeOK, TasksFit, tasks # << >>, NEW base \in Nat, NEW task \in Task,
         task.phase = "waiting", tasks' = Started(Append(Tail(tasks), task), base)
  PROVE  /\ tasks' \in Seq(Task)
         /\ Len(tasks') = Len(tasks)
         /\ MovedUp(base)
         /\ LET last == tasks'[Len(tasks)] IN
              /\ last.row = task.row /\ last.expected = task.expected
              /\ last.patch = task.patch
              /\ last.phase = IF Len(tasks) = 1 THEN "sent" ELSE "waiting"
              /\ Len(tasks) = 1 => last.batch = base
<1> DEFINE next == IF Len(tasks) = 1 THEN task ELSE tasks[2]
<1>1. /\ tasks' \in Seq(Task)
      /\ Len(tasks') = Len(tasks)
      /\ \A i \in 1..Len(tasks) :
           tasks'[i] = IF i = 1 THEN SentAt(next, base)
                       ELSE IF i = Len(tasks) THEN task ELSE tasks[i + 1]
  <2>1. tasks \in Seq(Task) /\ \A i \in 2..Len(tasks) : tasks[i].phase = "waiting"
    BY FirstTask, TasksAre
  <2>2. Rotated(tasks', tasks, task, base)
    BY <2>1, RotatedIs
  <2>3. QED
    BY <2>2 DEF Rotated
<1>2. \A i \in 1..Len(tasks) - 1 :
        /\ i + 1 \in 2..Len(tasks) /\ i + 1 \in 1..Len(tasks) /\ i + 1 > 1
        /\ i \in 1..Len(tasks) /\ i # Len(tasks)
  BY TasksAre
<1>3. \A i \in 1..Len(tasks) - 1 : tasks[i + 1] \in Task /\ tasks[i + 1].phase = "waiting"
  BY <1>2, TasksAre, FirstTask
<1>4. 1 \in 1..Len(tasks) /\ Len(tasks) \in 1..Len(tasks) /\ Len(tasks) \in Nat
  BY FirstTask, TasksAre
<1>5. next \in Task /\ (Len(tasks) # 1 => next = tasks[2])
  <2>1. Len(tasks) # 1 => 1 \in 1..Len(tasks) - 1
    <3>1. \A n \in Nat : 1 \in 1..n /\ n # 1 => 1 \in 1..n - 1
      OBVIOUS
    <3>2. QED
      BY <1>4, <3>1
  <2>2. 1 + 1 = 2
    OBVIOUS
  <2>3. QED
    BY <1>3, <2>1, <2>2
<1> HIDE DEF next
<1>6. LET sent == SentAt(next, base) IN
        /\ sent.row = next.row /\ sent.expected = next.expected /\ sent.patch = next.patch
        /\ sent.phase = "sent" /\ sent.batch = base
  BY <1>5, FieldsOfTask
<1>7. tasks'[1] = SentAt(next, base)
  BY <1>1, <1>4
<1>8. ASSUME NEW i \in 1..Len(tasks) - 1
      PROVE  /\ tasks'[i].row = tasks[i + 1].row
             /\ tasks'[i].expected = tasks[i + 1].expected
             /\ tasks'[i].patch = tasks[i + 1].patch
             /\ tasks'[i].phase = IF i = 1 THEN "sent" ELSE "waiting"
             /\ i = 1 => tasks'[i].batch = base
  <2>1. CASE i = 1
    <3>1. Len(tasks) # 1
      <4>1. \A n \in Nat : 1 \in 1..n - 1 => n # 1
        OBVIOUS
      <4>2. 1 \in 1..Len(tasks) - 1
        BY <2>1
      <4>3. QED
        BY <1>4, <4>1, <4>2
    <3>2. i + 1 = 2
      BY <2>1
    <3>3. QED
      BY <1>5, <1>6, <1>7, <2>1, <3>1, <3>2
  <2>2. CASE i # 1
    BY <1>1, <1>2, <1>3, <2>2
  <2>3. QED
    BY <2>1, <2>2
<1>9. MovedUp(base)
  BY <1>2, <1>8 DEF MovedUp
<1>10. LET last == tasks'[Len(tasks)] IN
         /\ last.row = task.row /\ last.expected = task.expected /\ last.patch = task.patch
         /\ last.phase = IF Len(tasks) = 1 THEN "sent" ELSE "waiting"
         /\ Len(tasks) = 1 => last.batch = base
  <2>1. CASE Len(tasks) = 1
    <3>1. next = task
      BY <2>1 DEF next
    <3>2. QED
      BY <1>6, <1>7, <2>1, <3>1
  <2>2. CASE Len(tasks) # 1
    BY <1>1, <1>4, <2>2
  <2>3. QED
    BY <2>1, <2>2
<1>11. QED
  BY <1>1, <1>9, <1>10

\* The batch as the server answers it, and what the page makes of one
LEMMA StoredBatchIs ==
  ASSUME TypeOK
  PROVE  StoredBatch \in Batch /\ StoredBatch.revision = batchRevision
<1>1. (open /\ Ready) \in BOOLEAN
  BY DEF Ready
<1>2. batchRevision \in Nat
  BY DEF TypeOK
<1>3. QED
  BY <1>1, <1>2 DEF StoredBatch, Batch

LEMMA RefreshIs ==
  ASSUME NEW batch \in Batch, mounted \in BOOLEAN, Refresh(batch)
  PROVE  /\ ref' = batch.revision /\ ref' \in Nat
         /\ seen' \in Batch /\ mounted' \in BOOLEAN
  BY DEF Refresh, Batch

LEMMA BatchArrivesKeeps ==
  ASSUME IInv, BatchArrives
  PROVE  IInv'
<1> USE DEF IInv
<1> DEFINE r == tasks[1].row
           p == tasks[1].patch
           n == tasks[1].saved
           e == [entry[r] EXCEPT !.revision = n, !.unsaved = StillUnsaved(entry[r].unsaved, p)]
<1>1. tasks # << >> /\ Head(tasks).phase = "saved"
  BY DEF BatchArrives
<1>2. /\ 1 \in 1..Len(tasks) /\ Head(tasks) = tasks[1]
      /\ r \in Row /\ p \in Change /\ n \in Nat
      /\ tasks[1].phase = "saved"
  BY <1>1, FirstTask DEF TasksFit
<1>3. UNCHANGED <<open, batchRevision, rowRevision, value, reads, typed, disturbed, edits,
                  foreign>>
  BY DEF BatchArrives, stored, history
<1>4. /\ e \in Entry /\ e.revision = n /\ e.queued = entry[r].queued
      /\ e.unsaved = StillUnsaved(entry[r].unsaved, p)
  <2>1. entry[r] \in Entry /\ StillUnsaved(entry[r].unsaved, p) \in Change
    BY <1>2, RowIs, StillUnsavedIs
  <2>2. QED
    BY <1>2, <2>1 DEF Entry
<1>5. /\ ref' = batchRevision /\ ref' \in Nat /\ mounted' \in BOOLEAN
      /\ seen' \in Batch
  <2>1. Refresh(StoredBatch) /\ StoredBatch.revision = batchRevision
    BY DEF BatchArrives, StoredBatch
  <2>2. StoredBatch \in Batch /\ mounted \in BOOLEAN
    BY StoredBatchIs DEF TypeOK
  <2>3. QED
    BY <2>1, <2>2, RefreshIs
<1>6. shown' = [shown EXCEPT ![r] = n] /\ shown' \in [Row -> Nat]
  BY <1>2 DEF BatchArrives, TypeOK
<1>7. /\ entry[r].queued \in Change /\ entry[r].unsaved \in Change /\ typed[r] \in Change
      /\ Taken(entry[r].queued, entry[r].unsaved, p, typed[r])
  BY <1>2, RowIs DEF ChangesFit
<1>8. /\ Taken(NoChange, e.unsaved, entry[r].queued, typed[r])
      /\ Loose(entry[r].queued, e.unsaved, typed[r])
      /\ entry[r].queued = NoChange => e.unsaved = NoChange
  BY <1>2, <1>4, <1>7, SaveDone
<1>9. foreign = 0 => Kept(value[r], e.unsaved, typed[r])
  <2>1. ASSUME foreign = 0
        PROVE  /\ Kept(value[r], entry[r].unsaved, typed[r])
               /\ \A f \in Field : p[f] # Unset => value[r][f] = p[f]
    BY <1>2, <2>1 DEF ValuesFit
  <2> HIDE DEF r, p, e
  <2>2. foreign = 0 => Kept(value[r], StillUnsaved(entry[r].unsaved, p), typed[r])
    BY <1>2, <1>7, <2>1, DoneKeeps
  <2>3. QED
    BY <1>4, <2>2
<1>10. /\ Len(tasks) \in Nat
       /\ \A i \in 1..Len(tasks) : tasks[i].row \in Row
       /\ \A i \in 1..Len(tasks) : i # 1 => tasks[i].row # r
  BY <1>2, TasksAre DEF TasksFit
<1>11. ~disturbed /\ open =>
         /\ n = rowRevision[r]
         /\ \A s \in Row : s # r => shown[s] = rowRevision[s]
         /\ \A i \in 1..Len(tasks) : i > 1 => tasks[i].expected = rowRevision[tasks[i].row]
         /\ \A s \in Row : label[s] # "CONFLICT" /\ entry[s].phase # "reloading"
  <2>1. \A i \in 1..Len(tasks) : i > 1 => tasks[i].phase # "saved"
    BY DEF TasksFit
  <2>2. QED
    BY <1>1, <1>2, <2>1 DEF RevisionsFit
<1>12. CASE entry[r].queued # NoChange
  <2> DEFINE d == Draining(e)
  <2>1. /\ entry' = [entry EXCEPT ![r] = d]
        /\ tasks' = Started(Append(Tail(tasks), SaveOf(r, e)), ref')
        /\ label' = label
    BY <1>2, <1>4, <1>12 DEF BatchArrives
  <2> HIDE DEF e
  <2>2. /\ d \in Entry /\ d.queued = NoChange /\ d.unsaved = e.unsaved /\ d.phase = "saving"
    BY <1>4, DrainingIs
  <2>3. /\ SaveOf(r, e) \in Task
        /\ SaveOf(r, e).row = r /\ SaveOf(r, e).expected = n
        /\ SaveOf(r, e).patch = entry[r].queued /\ SaveOf(r, e).phase = "waiting"
    BY <1>2, <1>4, SaveOfIs
  <2>4. /\ tasks' \in Seq(Task)
        /\ Len(tasks') = Len(tasks)
        /\ MovedUp(ref')
        /\ LET last == tasks'[Len(tasks)] IN
             /\ last.row = r /\ last.expected = n /\ last.patch = entry[r].queued
             /\ last.phase = IF Len(tasks) = 1 THEN "sent" ELSE "waiting"
             /\ Len(tasks) = 1 => last.batch = ref'
    <3>1. /\ tasks' \in Seq(Task)
          /\ Len(tasks') = Len(tasks)
          /\ MovedUp(ref')
          /\ LET last == tasks'[Len(tasks)] IN
               /\ last.row = SaveOf(r, e).row /\ last.expected = SaveOf(r, e).expected
               /\ last.patch = SaveOf(r, e).patch
               /\ last.phase = IF Len(tasks) = 1 THEN "sent" ELSE "waiting"
               /\ Len(tasks) = 1 => last.batch = ref'
      BY <1>1, <1>5, <2>1, <2>3, RotatedMovesUp
    <3>2. QED
      BY <2>3, <3>1
  <2> HIDE DEF d
  <2>5. /\ entry' \in [Row -> Entry] /\ entry'[r] = d
        /\ \A s \in Row : s # r => entry'[s] = entry[s]
    BY <1>2, <2>1, <2>2 DEF TypeOK
  <2>6. UNCHANGED label
    BY <2>1
  <2>7. \A i \in 1..Len(tasks') :
          \/ /\ i # Len(tasks) /\ i \in 1..Len(tasks) - 1
             /\ i + 1 \in 1..Len(tasks) /\ i + 1 # 1
             /\ tasks'[i].row = tasks[i + 1].row /\ tasks'[i].row \in Row /\ tasks'[i].row # r
             /\ tasks'[i].patch = tasks[i + 1].patch
             /\ tasks'[i].expected = tasks[i + 1].expected
             /\ tasks'[i].phase = IF i = 1 THEN "sent" ELSE "waiting"
             /\ i = 1 => tasks'[i].batch = ref'
          \/ /\ i = Len(tasks) /\ tasks'[i].row = r
             /\ tasks'[i].patch = entry[r].queued /\ tasks'[i].expected = n
             /\ tasks'[i].phase = IF i = 1 THEN "sent" ELSE "waiting"
             /\ i = 1 => tasks'[i].batch = ref'
    BY <1>10, <2>4 DEF MovedUp
  <2>8. tasks' # << >> /\ Head(tasks') = tasks'[1] /\ 1 \in 1..Len(tasks')
    BY <1>2, <2>4
  <2>9. Head(tasks').phase = "sent" /\ Head(tasks').batch = ref'
    BY <2>7, <2>8
  <2> HIDE DEF r, p, n
  <2>10. TypeOK'
    BY <1>3, <1>5, <1>6, <2>4, <2>5, <2>6, <2>9 DEF TypeOK
  <2>11. TasksFit'
    <3>1. ASSUME NEW i \in 1..Len(tasks'), NEW j \in 1..Len(tasks'), tasks'[i].row = tasks'[j].row
          PROVE  i = j
      <4>1. CASE i = Len(tasks) \/ j = Len(tasks)
        BY <2>7, <3>1, <4>1
      <4>2. CASE i # Len(tasks) /\ j # Len(tasks)
        <5>1. \A k \in 1..Len(tasks') : k # Len(tasks) =>
                k + 1 \in 1..Len(tasks) /\ tasks'[k].row = tasks[k + 1].row
          BY <2>7
        <5>2. /\ i + 1 \in 1..Len(tasks) /\ j + 1 \in 1..Len(tasks)
              /\ tasks[i + 1].row = tasks[j + 1].row
          BY <3>1, <4>2, <5>1, Zenon
        <5>3. i + 1 = j + 1
          BY <5>2, Zenon DEF TasksFit
        <5>4. i \in Nat /\ j \in Nat
          BY <2>4
        <5>5. QED
          BY <5>3, <5>4
      <4>3. QED
        BY <4>1, <4>2
    <3>2. ASSUME NEW i \in 1..Len(tasks')
          PROVE  /\ entry'[tasks'[i].row].phase = "saving"
                 /\ i > 1 => tasks'[i].phase = "waiting"
                 /\ tasks'[i].phase = "saved" => tasks'[i].saved \in Nat
      <4>1. tasks'[i].phase = IF i = 1 THEN "sent" ELSE "waiting"
        BY <2>7
      <4>2. \/ tasks'[i].row = r
            \/ \E j \in 1..Len(tasks) :
                 /\ tasks'[i].row = tasks[j].row /\ tasks[j].row \in Row
                 /\ tasks[j].row # r
        BY <2>7
      <4>3. entry'[tasks'[i].row].phase = "saving"
        BY <2>2, <2>5, <4>2 DEF TasksFit
      <4>4. QED
        BY <2>4, <4>1, <4>3
    <3>3. ASSUME NEW s \in Row
          PROVE  /\ entry'[s].phase = "saving" => \E i \in 1..Len(tasks') : tasks'[i].row = s
                 /\ entry'[s].phase # "idle" => label'[s] = "SAVING"
      <4>1. CASE s = r
        <5>1. Len(tasks) \in 1..Len(tasks') /\ tasks'[Len(tasks)].row = r
          BY <1>2, <2>4
        <5>2. label[r] = "SAVING"
          BY <1>1, FirstTask DEF r
        <5>3. QED
          BY <2>6, <4>1, <5>1, <5>2
      <4>2. CASE s # r
        <5>1. ASSUME entry[s].phase = "saving"
              PROVE  \E i \in 1..Len(tasks') : tasks'[i].row = s
          <6>1. PICK j \in 1..Len(tasks) : tasks[j].row = s
            BY <5>1 DEF TasksFit
          <6>2. j # 1
            BY <4>2, <6>1 DEF r
          <6>3. j - 1 \in 1..Len(tasks) - 1 /\ j - 1 \in 1..Len(tasks') /\ (j - 1) + 1 = j
            BY <1>10, <2>4, <6>2
          <6>4. tasks'[j - 1].row = tasks[j].row
            BY <2>4, <6>3 DEF MovedUp
          <6>5. QED
            BY <6>1, <6>3, <6>4
        <5>2. QED
          BY <2>5, <2>6, <4>2, <5>1 DEF TasksFit
      <4>3. QED
        BY <4>1, <4>2
    <3>4. QED
      BY <3>1, <3>2, <3>3 DEF TasksFit
  <2>12. ChangesFit'
    <3>1. ASSUME NEW s \in Row, entry'[s].phase # "saving"
          PROVE  Loose(entry'[s].queued, entry'[s].unsaved, typed[s])
      BY <2>2, <2>5, <3>1 DEF ChangesFit
    <3>2. ASSUME NEW i \in 1..Len(tasks')
          PROVE  Taken(entry'[tasks'[i].row].queued, entry'[tasks'[i].row].unsaved,
                       tasks'[i].patch, typed[tasks'[i].row])
      <4>1. CASE i = Len(tasks)
        BY <1>8, <2>2, <2>5, <2>7, <4>1
      <4>2. CASE i # Len(tasks)
        BY <2>5, <2>7, <4>2 DEF ChangesFit
      <4>3. QED
        BY <4>1, <4>2
    <3>3. QED
      BY <1>3, <3>1, <3>2 DEF ChangesFit
  <2>13. ValuesFit'
    <3> SUFFICES ASSUME foreign = 0
                 PROVE  /\ \A s \in Row : Kept(value[s], entry'[s].unsaved, typed[s])
                        /\ \A i \in 1..Len(tasks') : tasks'[i].phase # "saved"
      BY <1>3 DEF ValuesFit, Kept
    <3>1. \A s \in Row : Kept(value[s], entry'[s].unsaved, typed[s])
      BY <1>9, <2>2, <2>5 DEF ValuesFit
    <3>2. QED
      BY <2>7, <3>1
  <2>14. SavedIsClean'
    <3>1. label[r] = "SAVING"
      BY <1>1, FirstTask DEF r
    <3>2. QED
      BY <2>5, <2>6, <3>1 DEF SavedIsClean
  <2>15. RevisionsFit'
    <3> SUFFICES ASSUME ~disturbed, open
                 PROVE  /\ \A s \in Row : label[s] # "CONFLICT" /\ entry'[s].phase # "reloading"
                        /\ \A s \in Row : shown'[s] = rowRevision[s]
                        /\ \A i \in 1..Len(tasks') :
                             /\ tasks'[i].phase = "sent" => tasks'[i].batch = batchRevision
                             /\ tasks'[i].phase # "saved"
                             /\ tasks'[i].expected = rowRevision[tasks'[i].row]
      BY <1>3, <1>5, <2>6 DEF RevisionsFit
    <3>1. \A s \in Row : label[s] # "CONFLICT" /\ entry'[s].phase # "reloading"
      BY <1>11, <2>2, <2>5
    <3>2. shown \in [Row -> Nat]
      BY DEF TypeOK
    <3>3. \A s \in Row : shown'[s] = rowRevision[s]
      BY <1>2, <1>6, <1>11, <3>2
    <3>4. ASSUME NEW i \in 1..Len(tasks')
          PROVE  /\ tasks'[i].phase = "sent" => tasks'[i].batch = batchRevision
                 /\ tasks'[i].phase # "saved"
                 /\ tasks'[i].expected = rowRevision[tasks'[i].row]
      <4>1. CASE i = Len(tasks)
        BY <1>5, <1>11, <2>7, <4>1
      <4>2. CASE i # Len(tasks)
        <5>1. i + 1 > 1
          BY <2>4
        <5>2. QED
          BY <1>5, <1>11, <2>7, <4>2, <5>1
      <4>3. QED
        BY <4>1, <4>2
    <3>5. QED
      BY <3>1, <3>3, <3>4
  <2>16. QED
    BY <2>10, <2>11, <2>12, <2>13, <2>14, <2>15
<1>13. CASE entry[r].queued = NoChange
  <2> DEFINE d == [e EXCEPT !.phase = "idle"]
  <2>1. /\ entry' = [entry EXCEPT ![r] = d]
        /\ tasks' = Started(Tail(tasks), ref')
        /\ label' = [label EXCEPT ![r] = "SAVED"]
    BY <1>2, <1>4, <1>13 DEF BatchArrives
  <2> HIDE DEF e
  <2>2. /\ d \in Entry /\ d.queued = NoChange /\ d.unsaved = NoChange /\ d.phase = "idle"
    BY <1>4, <1>8, <1>13 DEF Entry
  <2>3. /\ tasks' \in Seq(Task)
        /\ Len(tasks') = Len(tasks) - 1
        /\ MovedUp(ref')
    BY <1>1, <1>5, <2>1, DroppedMovesUp
  <2> HIDE DEF d
  <2>4. /\ entry' \in [Row -> Entry] /\ entry'[r] = d
        /\ \A s \in Row : s # r => entry'[s] = entry[s]
        /\ label' \in [Row -> Label] /\ label'[r] = "SAVED"
        /\ \A s \in Row : s # r => label'[s] = label[s]
    BY <1>2, <2>1, <2>2 DEF TypeOK, Label
  <2>5. \A i \in 1..Len(tasks') :
          /\ i \in 1..Len(tasks) - 1 /\ i + 1 \in 1..Len(tasks) /\ i + 1 > 1
          /\ tasks'[i].row = tasks[i + 1].row /\ tasks'[i].row \in Row /\ tasks'[i].row # r
          /\ tasks'[i].patch = tasks[i + 1].patch
          /\ tasks'[i].expected = tasks[i + 1].expected
          /\ tasks'[i].phase = IF i = 1 THEN "sent" ELSE "waiting"
          /\ i = 1 => tasks'[i].batch = ref'
    <3>1. ASSUME NEW i \in 1..Len(tasks')
          PROVE  /\ i \in 1..Len(tasks) - 1 /\ i + 1 \in 1..Len(tasks) /\ i + 1 > 1
                 /\ tasks[i + 1].row \in Row /\ tasks[i + 1].row # r
      BY <1>10, <2>3
    <3> HIDE DEF r
    <3>2. QED
      BY <2>3, <3>1 DEF MovedUp
  <2>6. tasks' # << >> => Head(tasks').phase # "waiting" /\ Head(tasks').batch \in Nat
    <3>1. tasks' # << >> => 1 \in 1..Len(tasks') /\ Head(tasks') = tasks'[1]
      BY <2>3
    <3>2. QED
      BY <1>5, <2>5, <3>1
  <2> HIDE DEF r, p, n
  <2>7. TypeOK'
    BY <1>3, <1>5, <1>6, <2>3, <2>4, <2>6 DEF TypeOK
  <2>8. TasksFit'
    <3>1. ASSUME NEW i \in 1..Len(tasks'), NEW j \in 1..Len(tasks'), tasks'[i].row = tasks'[j].row
          PROVE  i = j
      <4>1. /\ i + 1 \in 1..Len(tasks) /\ j + 1 \in 1..Len(tasks)
            /\ tasks[i + 1].row = tasks[j + 1].row
        BY <2>5, <3>1
      <4>2. i + 1 = j + 1
        BY <4>1, Zenon DEF TasksFit
      <4>3. i \in Nat /\ j \in Nat
        BY <2>3
      <4>4. QED
        BY <4>2, <4>3
    <3>2. ASSUME NEW i \in 1..Len(tasks')
          PROVE  /\ entry'[tasks'[i].row].phase = "saving"
                 /\ i > 1 => tasks'[i].phase = "waiting"
                 /\ tasks'[i].phase = "saved" => tasks'[i].saved \in Nat
      BY <2>4, <2>5 DEF TasksFit
    <3>3. ASSUME NEW s \in Row
          PROVE  /\ entry'[s].phase = "saving" => \E i \in 1..Len(tasks') : tasks'[i].row = s
                 /\ entry'[s].phase # "idle" => label'[s] = "SAVING"
      <4>1. CASE s = r
        BY <2>2, <2>4, <4>1
      <4>2. CASE s # r
        <5>1. ASSUME entry[s].phase = "saving"
              PROVE  \E i \in 1..Len(tasks') : tasks'[i].row = s
          <6>1. PICK j \in 1..Len(tasks) : tasks[j].row = s
            BY <5>1 DEF TasksFit
          <6>2. j # 1
            BY <4>2, <6>1 DEF r
          <6>3. j - 1 \in 1..Len(tasks') /\ (j - 1) + 1 = j
            BY <1>10, <2>3, <6>2
          <6>4. tasks'[j - 1].row = tasks[j].row
            BY <2>5, <6>3
          <6>5. QED
            BY <6>1, <6>3, <6>4
        <5>2. QED
          BY <2>4, <4>2, <5>1 DEF TasksFit
      <4>3. QED
        BY <4>1, <4>2
    <3>4. QED
      BY <3>1, <3>2, <3>3 DEF TasksFit
  <2>9. ChangesFit'
    <3>1. ASSUME NEW s \in Row, entry'[s].phase # "saving"
          PROVE  Loose(entry'[s].queued, entry'[s].unsaved, typed[s])
      <4>1. Loose(d.queued, d.unsaved, typed[r])
        BY <2>2, NoChangeIs DEF Loose
      <4>2. QED
        BY <2>4, <3>1, <4>1 DEF ChangesFit
    <3>2. ASSUME NEW i \in 1..Len(tasks')
          PROVE  Taken(entry'[tasks'[i].row].queued, entry'[tasks'[i].row].unsaved,
                       tasks'[i].patch, typed[tasks'[i].row])
      BY <2>4, <2>5 DEF ChangesFit
    <3>3. QED
      BY <1>3, <3>1, <3>2 DEF ChangesFit
  <2>10. ValuesFit'
    <3> SUFFICES ASSUME foreign = 0
                 PROVE  /\ \A s \in Row : Kept(value[s], entry'[s].unsaved, typed[s])
                        /\ \A i \in 1..Len(tasks') : tasks'[i].phase # "saved"
      BY <1>3 DEF ValuesFit, Kept
    <3>1. Kept(value[r], d.unsaved, typed[r])
      BY <1>8, <1>9, <1>13, <2>2
    <3>2. \A s \in Row : Kept(value[s], entry'[s].unsaved, typed[s])
      BY <2>4, <3>1 DEF ValuesFit
    <3>3. QED
      BY <2>5, <3>2
  <2>11. SavedIsClean'
    BY <2>2, <2>4 DEF SavedIsClean
  <2>12. RevisionsFit'
    <3> SUFFICES ASSUME ~disturbed, open
                 PROVE  /\ \A s \in Row : label'[s] # "CONFLICT" /\ entry'[s].phase # "reloading"
                        /\ \A s \in Row : shown'[s] = rowRevision[s]
                        /\ \A i \in 1..Len(tasks') :
                             /\ tasks'[i].phase = "sent" => tasks'[i].batch = batchRevision
                             /\ tasks'[i].phase # "saved"
                             /\ tasks'[i].expected = rowRevision[tasks'[i].row]
      BY <1>3, <1>5 DEF RevisionsFit
    <3>1. \A s \in Row : label'[s] # "CONFLICT" /\ entry'[s].phase # "reloading"
      BY <1>11, <2>2, <2>4
    <3>2. shown \in [Row -> Nat]
      BY DEF TypeOK
    <3>3. \A s \in Row : shown'[s] = rowRevision[s]
      BY <1>2, <1>6, <1>11, <3>2
    <3>4. ASSUME NEW i \in 1..Len(tasks')
          PROVE  /\ tasks'[i].phase = "sent" => tasks'[i].batch = batchRevision
                 /\ tasks'[i].phase # "saved"
                 /\ tasks'[i].expected = rowRevision[tasks'[i].row]
      BY <1>5, <1>11, <2>5
    <3>5. QED
      BY <3>1, <3>3, <3>4
  <2>13. QED
    BY <2>7, <2>8, <2>9, <2>10, <2>11, <2>12
<1>14. QED
  BY <1>12, <1>13

\* An answer to one of the two requests of a reload
LEMMA ReadKeeps ==
  ASSUME IInv, NEW r \in Row, ReadRows(r) \/ ReadBatch(r)
  PROVE  IInv'
<1> USE DEF IInv
<1>1. UNCHANGED <<open, batchRevision, rowRevision, value, ref, shown, entry, label, tasks,
                  seen, mounted, typed, disturbed, edits, foreign>>
  BY DEF ReadRows, ReadBatch, stored, history
<1>2. reads' \in [Row -> Reload]
  <2>1. rowRevision \in [Row -> Nat] /\ StoredBatch \in Batch /\ reads \in [Row -> Reload]
    BY StoredBatchIs DEF TypeOK
  <2> HIDE DEF IInv
  <2>2. CASE ReadRows(r)
    <3> DEFINE read == [reads[r] EXCEPT !.rows = rowRevision]
    <3>1. reads' = [reads EXCEPT ![r] = read]
      BY <2>1, <2>2 DEF ReadRows
    <3>2. read \in Reload
      BY <2>1 DEF Reload
    <3>3. QED
      BY <2>1, <3>1, <3>2
  <2>3. CASE ReadBatch(r)
    <3> DEFINE read == [reads[r] EXCEPT !.batch = StoredBatch]
    <3>1. reads' = [reads EXCEPT ![r] = read]
      BY <2>1, <2>3 DEF ReadBatch
    <3>2. read \in Reload
      BY <2>1 DEF Reload
    <3>3. QED
      BY <2>1, <3>1, <3>2
  <2>4. QED
    BY <2>2, <2>3
<1>3. TypeOK'
  BY <1>1, <1>2 DEF TypeOK
<1>4. TasksFit' /\ SavedIsClean' /\ RevisionsFit'
  BY <1>1 DEF TasksFit, SavedIsClean, RevisionsFit
<1>5. ChangesFit'
  BY <1>1 DEF ChangesFit
<1>6. ValuesFit'
  BY <1>1, Zenon DEF ValuesFit, Kept
<1>7. QED
  BY <1>3, <1>4, <1>5, <1>6

\* The end of a reload, with the rows or without them: the row offers a retry.
LEMMA ReloadKeeps ==
  ASSUME IInv, NEW r \in Row, ReloadArrives(r) \/ ReloadLost(r)
  PROVE  IInv'
<1> USE DEF IInv
<1>1. entry[r].phase = "reloading" /\ (disturbed \/ ~open)
  BY DEF ReloadArrives, ReloadLost, RevisionsFit
<1>2. UNCHANGED <<open, batchRevision, rowRevision, value, tasks, typed, edits, foreign>>
  BY DEF ReloadArrives, ReloadLost, stored, history
<1>3. /\ ref' \in Nat /\ shown' \in [Row -> Nat] /\ mounted' \in BOOLEAN
      /\ seen' \in Batch
      /\ disturbed' \in BOOLEAN /\ (disturbed => disturbed')
  <2>1. CASE ReloadArrives(r)
    <3>1. /\ Refresh(reads[r].batch) /\ shown' = reads[r].rows /\ disturbed' = disturbed
          /\ reads[r].rows # None /\ reads[r].batch # None
      BY <2>1 DEF ReloadArrives, history
    <3>2. reads[r].batch \in Batch /\ reads[r].rows \in [Row -> Nat] /\ mounted \in BOOLEAN
      BY <3>1 DEF TypeOK, Reload
    <3>3. ref' \in Nat /\ seen' \in Batch /\ mounted' \in BOOLEAN
      BY <3>1, <3>2, RefreshIs
    <3>4. QED
      BY <3>1, <3>2, <3>3 DEF TypeOK
  <2>2. CASE ReloadLost(r)
    BY <2>2 DEF ReloadLost, TypeOK
  <2>3. QED
    BY <2>1, <2>2
<1>4. reads' \in [Row -> Reload]
  <2>1. Unread \in Reload
    BY DEF Unread, Reload
  <2>2. reads' = [reads EXCEPT ![r] = Unread]
    BY DEF ReloadArrives, ReloadLost
  <2>3. QED
    BY <2>1, <2>2 DEF TypeOK
<1>5. PICK d \in Entry :
        /\ entry' = [entry EXCEPT ![r] = d]
        /\ d.queued = entry[r].queued /\ d.unsaved = entry[r].unsaved /\ d.phase = "idle"
  <2>1. entry[r] \in Entry
    BY RowIs
  <2>2. CASE ReloadArrives(r)
    <3> DEFINE n == reads[r].rows[r]
               d == [entry[r] EXCEPT !.revision = n, !.phase = "idle"]
    <3>1. n \in Nat
      BY <2>2 DEF ReloadArrives, TypeOK, Reload
    <3>2. entry' = [entry EXCEPT ![r] = d]
      BY <2>2 DEF ReloadArrives
    <3> HIDE DEF n
    <3>3. d \in Entry
      BY <2>1, <3>1 DEF Entry
    <3>4. d.queued = entry[r].queued /\ d.unsaved = entry[r].unsaved /\ d.phase = "idle"
      BY <2>1 DEF Entry
    <3>5. QED
      BY <3>2, <3>3, <3>4
  <2>3. CASE ReloadLost(r)
    <3> DEFINE d == [entry[r] EXCEPT !.phase = "idle"]
    <3>1. d \in Entry /\ entry' = [entry EXCEPT ![r] = d]
      BY <2>1, <2>3 DEF ReloadLost, Entry, TypeOK
    <3>2. d.queued = entry[r].queued /\ d.unsaved = entry[r].unsaved /\ d.phase = "idle"
      BY <2>1 DEF Entry
    <3>3. QED
      BY <3>1, <3>2
  <2>4. QED
    BY <2>2, <2>3
<1>6. label' = [label EXCEPT ![r] = "CONFLICT"]
  BY DEF ReloadArrives, ReloadLost
<1>7. /\ entry' \in [Row -> Entry] /\ entry'[r] = d
      /\ \A s \in Row : s # r => entry'[s] = entry[s]
      /\ label' \in [Row -> Label] /\ label'[r] = "CONFLICT"
      /\ \A s \in Row : s # r => label'[s] = label[s]
  BY <1>5, <1>6 DEF TypeOK, Label
<1>8. \A s \in Row :
        /\ entry'[s].queued = entry[s].queued /\ entry'[s].unsaved = entry[s].unsaved
        /\ s # r => entry'[s].phase = entry[s].phase
  BY <1>5, <1>7
<1>9. \A i \in 1..Len(tasks) : tasks[i].row \in Row /\ tasks[i].row # r
  BY <1>1, TasksAre DEF TasksFit
<1>10. TypeOK'
  BY <1>2, <1>3, <1>7, <1>4 DEF TypeOK
<1>11. TasksFit'
  BY <1>2, <1>5, <1>7, <1>8, <1>9 DEF TasksFit
<1>12. ChangesFit'
  <2>1. ASSUME NEW s \in Row, entry'[s].phase # "saving"
        PROVE  Loose(entry[s].queued, entry[s].unsaved, typed[s])
    BY <1>1, <1>8, <2>1 DEF ChangesFit
  <2>2. QED
    BY <1>2, <1>8, <1>9, <2>1 DEF ChangesFit
<1>13. ValuesFit'
  BY <1>2, <1>8 DEF ValuesFit, Kept
<1>14. SavedIsClean'
  BY <1>7 DEF SavedIsClean
<1>15. RevisionsFit'
  BY <1>1, <1>2, <1>3 DEF RevisionsFit
<1>16. QED
  BY <1>10, <1>11, <1>12, <1>13, <1>14, <1>15

-----------------------------------------------------------------------------
(* The others, and the whole *)

LEMMA ForeignSaveKeeps ==
  ASSUME IInv, NEW r \in Row, NEW change \in Edit, ForeignSave(r, change)
  PROVE  IInv'
<1> USE DEF IInv
<1>1. UNCHANGED <<open, ref, shown, entry, label, tasks, reads, seen, mounted, typed, edits>>
  BY DEF ForeignSave
<1>2. foreign' \in Nat /\ foreign' # 0 /\ disturbed' = TRUE /\ batchRevision' \in Nat
  BY DEF ForeignSave, TypeOK
<1>3. change \in Change
  BY EditAssumption
<1>4. value' \in [Row -> [Field -> Value \cup {None}]] /\ rowRevision' \in [Row -> Nat]
  <2> DEFINE fields == Stored(value[r], change)
  <2>1. fields \in [Field -> Value \cup {None}] /\ rowRevision[r] + 1 \in Nat
    BY <1>3, RowIs, StoredIs
  <2>2. value' = [value EXCEPT ![r] = fields]
    BY DEF ForeignSave
  <2>3. rowRevision' = [rowRevision EXCEPT ![r] = rowRevision[r] + 1]
    BY DEF ForeignSave
  <2> HIDE DEF fields
  <2>4. QED
    BY <2>1, <2>2, <2>3 DEF TypeOK
<1>5. TypeOK'
  BY <1>1, <1>2, <1>4 DEF TypeOK
<1>6. TasksFit'
  BY <1>1 DEF TasksFit
<1>7. ChangesFit'
  BY <1>1 DEF ChangesFit
<1>8. ValuesFit'
  BY <1>2 DEF ValuesFit
<1>9. SavedIsClean'
  BY <1>1 DEF SavedIsClean
<1>10. RevisionsFit'
  BY <1>2 DEF RevisionsFit
<1>11. QED
  BY <1>5, <1>6, <1>7, <1>8, <1>9, <1>10

LEMMA CommitBatchKeeps ==
  ASSUME IInv, CommitBatch
  PROVE  IInv'
<1> USE DEF IInv
<1>1. /\ UNCHANGED <<rowRevision, value, ref, shown, entry, label, tasks, reads, seen, mounted,
                     typed, disturbed, edits, foreign>>
      /\ open' = FALSE
  BY DEF CommitBatch, history
<1>2. TypeOK'
  <2>1. batchRevision' \in Nat
    BY DEF TypeOK, CommitBatch
  <2>2. QED
    BY <1>1, <2>1 DEF TypeOK
<1>3. TasksFit' /\ SavedIsClean'
  BY <1>1 DEF TasksFit, SavedIsClean
<1>4. ChangesFit'
  BY <1>1 DEF ChangesFit
<1>5. ValuesFit'
  BY <1>1, Zenon DEF ValuesFit, Kept
<1>6. RevisionsFit'
  BY <1>1 DEF RevisionsFit
<1>7. QED
  BY <1>2, <1>3, <1>4, <1>5, <1>6

LEMMA StutterKeeps ==
  ASSUME IInv, UNCHANGED vars
  PROVE  IInv'
<1> USE DEF IInv, vars, stored, history
<1>1. TypeOK' /\ TasksFit' /\ SavedIsClean' /\ RevisionsFit'
  BY DEF TypeOK, TasksFit, SavedIsClean, RevisionsFit
<1>2. ChangesFit'
  BY DEF ChangesFit
<1>3. ValuesFit'
  BY Zenon DEF ValuesFit, Kept
<1>4. QED
  BY <1>1, <1>2, <1>3

LEMMA InitHolds == Init => IInv
<1> SUFFICES ASSUME Init
             PROVE  IInv
  OBVIOUS
<1>1. \A r \in Row :
        /\ entry[r].queued = NoChange /\ entry[r].unsaved = NoChange
        /\ entry[r].phase = "idle" /\ typed[r] = NoChange /\ label[r] = "IDLE"
        /\ shown[r] = 1 /\ rowRevision[r] = 1
        /\ \A f \in Field : value[r][f] = None
  BY DEF Init
<1>2. tasks = << >> /\ Len(tasks) = 0
  BY DEF Init
<1>3. TypeOK
  <2>1. [revision |-> 1, queued |-> NoChange, unsaved |-> NoChange, phase |-> "idle"] \in Entry
    BY NoChangeIs DEF Entry
  <2>2. /\ entry \in [Row -> Entry] /\ label \in [Row -> Label] /\ typed \in [Row -> Change]
        /\ value \in [Row -> [Field -> Value \cup {None}]]
        /\ rowRevision \in [Row -> Nat] /\ shown \in [Row -> Nat]
    BY <2>1, NoChangeIs DEF Init, Label
  <2>3. tasks \in Seq(Task)
    BY <1>2
  <2>4. reads \in [Row -> Reload] /\ seen \in Batch
    BY DEF Init, Unread, Reload, Batch
  <2>5. QED
    BY <1>2, <2>2, <2>3, <2>4 DEF Init, TypeOK
<1>4. TasksFit
  BY <1>1, <1>2 DEF TasksFit
<1>5. ChangesFit
  BY <1>1, <1>2, NoChangeIs DEF ChangesFit, Loose
<1>6. ValuesFit
  BY <1>1, <1>2, NoChangeIs DEF ValuesFit, Kept
<1>7. SavedIsClean
  BY <1>1 DEF SavedIsClean
<1>8. RevisionsFit
  BY <1>1, <1>2 DEF RevisionsFit, Init
<1>9. QED
  BY <1>3, <1>4, <1>5, <1>6, <1>7, <1>8 DEF IInv

LEMMA NextKeeps == IInv /\ [Next]_vars => IInv'
<1> SUFFICES ASSUME IInv, [Next]_vars
             PROVE  IInv'
  OBVIOUS
<1>1. CASE \E r \in Row, change \in Edit : EditRow(r, change)
  BY <1>1, EditRowKeeps
<1>2. CASE \E r \in Row : Retry(r)
  BY <1>2, RetryKeeps
<1>3. CASE PatchSaved
  BY <1>3, PatchSavedKeeps
<1>4. CASE PatchConflicts
  BY <1>4, PatchConflictsKeeps
<1>5. CASE PatchLost \/ BatchLost
  BY <1>5, LostKeeps
<1>6. CASE BatchArrives
  BY <1>6, BatchArrivesKeeps
<1>7. CASE \E r \in Row : ReloadArrives(r) \/ ReloadLost(r)
  BY <1>7, ReloadKeeps
<1>8. CASE \E r \in Row : ReadRows(r) \/ ReadBatch(r)
  BY <1>8, ReadKeeps
<1>9. CASE \E r \in Row, change \in Edit : ForeignSave(r, change)
  BY <1>9, ForeignSaveKeeps
<1>10. CASE CommitBatch
  BY <1>10, CommitBatchKeeps
<1>11. CASE UNCHANGED vars
  BY <1>11, StutterKeeps
<1>12. QED
  BY <1>1, <1>2, <1>3, <1>4, <1>5, <1>6, <1>7, <1>8, <1>9, <1>10, <1>11 DEF Next

\* The inductive invariant holds in every reachable state.
THEOREM Inductive == Spec => []IInv
<1>1. Init => IInv
  BY InitHolds
<1>2. IInv /\ [Next]_vars => IInv'
  BY NextKeeps
<1>3. QED
  BY <1>1, <1>2, PTL DEF Spec

\* The entries, labels and saves of the page have the types they are declared
\* with, and the save at the front of the queue has been sent.
THEOREM TypeCorrect == Spec => []TypeOK
<1>1. IInv => TypeOK
  BY DEF IInv
<1>2. QED
  BY <1>1, Inductive, PTL

\* The queue of useRowSaveQueue forgets no change: whatever fails in whatever
\* order, each unsaved change is in the row's save or queued behind it, with the
\* value entered last.
THEOREM NothingIsForgotten == Spec => []UnsavedIsPending
<1>1. IInv => UnsavedIsPending
  <2> SUFFICES ASSUME IInv, NEW r \in Row, NEW f \in Field, entry[r].unsaved[f] # Unset
               PROVE  /\ entry[r].unsaved[f] = typed[r][f]
                      /\ entry[r].unsaved[f] = Merge(InFlight(r), entry[r].queued)[f]
    BY DEF UnsavedIsPending
  <2> USE DEF IInv
  <2>1. entry[r].queued \in Change /\ entry[r].unsaved \in Change /\ typed[r] \in Change
    BY RowIs
  <2>2. CASE entry[r].phase = "saving"
    <3> DEFINE i == CHOOSE k \in 1..Len(tasks) : tasks[k].row = r
    <3>1. \E k \in 1..Len(tasks) : tasks[k].row = r
      BY <2>2 DEF TasksFit
    <3>2. i \in 1..Len(tasks) /\ tasks[i].row = r
      BY <3>1
    <3>3. InFlight(r) = tasks[i].patch
      BY <3>1 DEF InFlight
    <3> HIDE DEF i
    <3>4. tasks[i].patch \in Change
      BY <3>2, TasksAre
    <3>5. Taken(entry[r].queued, entry[r].unsaved, tasks[i].patch, typed[r])
      BY <3>2 DEF ChangesFit
    <3>6. CASE entry[r].queued[f] # Unset
      <4>1. Merge(InFlight(r), entry[r].queued)[f] = entry[r].queued[f]
        BY <3>6 DEF Merge
      <4>2. QED
        BY <3>5, <3>6, <4>1 DEF Taken
    <3>7. CASE entry[r].queued[f] = Unset
      <4>1. entry[r].unsaved[f] = tasks[i].patch[f] /\ tasks[i].patch[f] = typed[r][f]
        BY <3>5, <3>7 DEF Taken
      <4>2. ~(f = "subcategory" /\ entry[r].queued["category"] # Unset)
        BY <3>5, <3>7 DEF Taken
      <4>3. Merge(InFlight(r), entry[r].queued)[f] = InFlight(r)[f]
        BY <3>7, <4>2 DEF Merge
      <4>4. QED
        BY <3>3, <4>1, <4>3
    <3>8. QED
      BY <3>6, <3>7
  <2>3. CASE entry[r].phase # "saving"
    <3>1. Loose(entry[r].queued, entry[r].unsaved, typed[r])
      BY <2>3 DEF ChangesFit
    <3>2. InFlight(r) = NoChange
      BY <2>3 DEF InFlight, TasksFit
    <3>3. entry[r].unsaved[f] = entry[r].queued[f] /\ entry[r].queued[f] = typed[r][f]
      BY <3>1 DEF Loose
    <3>4. Merge(NoChange, entry[r].queued)[f] = entry[r].queued[f]
      BY <3>3 DEF Merge
    <3>5. QED
      BY <3>2, <3>3, <3>4
  <2>4. QED
    BY <2>2, <2>3
<1>2. QED
  BY <1>1, Inductive, PTL

\* A row marked SAVED has nothing left to save, and the server stores what the
\* user entered last unless another tab has changed the row since.
THEOREM SavedMeansStored == Spec => []SavedIsStored
<1>1. IInv => SavedIsStored
  <2> SUFFICES ASSUME IInv, NEW r \in Row, label[r] = "SAVED"
               PROVE  /\ entry[r].queued = NoChange
                      /\ entry[r].unsaved = NoChange
                      /\ foreign = 0 => value[r] = Stored([f \in Field |-> None], typed[r])
    BY DEF SavedIsStored
  <2> USE DEF IInv
  <2>1. entry[r].queued = NoChange /\ entry[r].unsaved = NoChange
    BY DEF SavedIsClean
  <2>2. ASSUME foreign = 0
        PROVE  value[r] = Stored([f \in Field |-> None], typed[r])
    <3>1. value[r] \in [Field -> Value \cup {None}]
      BY RowIs
    <3>2. Kept(value[r], NoChange, typed[r])
      BY <2>1, <2>2 DEF ValuesFit
    <3>3. \A f \in Field : value[r][f] = IF typed[r][f] # Unset THEN typed[r][f] ELSE None
      BY <3>2, NoChangeIs DEF Kept
    <3>4. QED
      BY <3>1, <3>3 DEF Stored
  <2>3. QED
    BY <2>1, <2>2
<1>2. QED
  BY <1>1, Inductive, PTL

\* The page never conflicts with itself: without other tabs and lost requests
\* no save of a draft is refused, for any number of rows and edits.
THEOREM NoConflictWithItself == Spec => []OwnEditsNeverConflict
<1>1. IInv => OwnEditsNeverConflict
  BY DEF IInv, RevisionsFit, OwnEditsNeverConflict
<1>2. QED
  BY <1>1, Inductive, PTL

=============================================================================
