-------------------------- MODULE LessonProgressProofs --------------------------
(* The properties of LessonProgress for any students, requests, positions and  *)
(* durations.                                                                   *)
EXTENDS LessonProgress, TLAPS

\* A request in flight that decided "completed" did so by a duration the lesson
\* has had: what CompletionIsEarned needs to be inductive.
DecisionIsEarned ==
    /\ duration \in known
    /\ \A p \in Pings :
        ping[p].active /\ ping[p].completed =>
            \E d \in known : Reaches(ping[p].position, d)

\* GREATEST of SQL returns one of its arguments, and neither exceeds it.
LEMMA GreatestBounds ==
    ASSUME NEW a \in Positions, NEW b \in Positions
    PROVE  Greatest(a, b) \in Positions /\ Greatest(a, b) >= a /\ Greatest(a, b) >= b
<1>1. a \in Nat /\ b \in Nat
  BY ProgressAssumption
<1>2. CASE a > b
  <2>1. Greatest(a, b) = a
    BY <1>2 DEF Greatest
  <2> QED
    BY <1>1, <1>2, <2>1
<1>3. CASE ~(a > b)
  <2>1. Greatest(a, b) = b
    BY <1>3 DEF Greatest
  <2> QED
    BY <1>1, <1>3, <2>1
<1> QED
  BY <1>2, <1>3

\* What the upsert does to a row, whatever the row and the request.
LEMMA UpsertedRow ==
    ASSUME NEW row \in Row, NEW request \in Ping, clock \in 0..MaxClock
    PROVE  LET new == Upserted(row, request) IN
           /\ new \in Row
           /\ new.max >= row.max
           /\ new.max >= request.position
           /\ new.last <= new.max
           /\ new.completed <=> row.completed \/ request.completed
<1> DEFINE new == Upserted(row, request)
<1>1. /\ row.max \in Positions /\ request.position \in Positions
      /\ row.completed \in BOOLEAN /\ request.completed \in BOOLEAN
      /\ row.completedAt \in 0..MaxClock \cup {NoTime}
  BY DEF Row, Ping
<1>2. /\ Greatest(row.max, request.position) \in Positions
      /\ Greatest(row.max, request.position) >= row.max
      /\ Greatest(row.max, request.position) >= request.position
  BY <1>1, GreatestBounds
<1>3. /\ new.max = Greatest(row.max, request.position)
      /\ new.last = request.position
      /\ new.completed = (row.completed \/ request.completed)
  BY DEF Upserted
<1>4. (IF row.completedAt # NoTime THEN row.completedAt
       ELSE IF request.completed THEN clock ELSE NoTime) \in 0..MaxClock \cup {NoTime}
  BY <1>1
<1>5. new \in Row
  BY <1>1, <1>2, <1>4 DEF Upserted, Row
<1>6. new.last <= new.max
  BY <1>1, <1>2, <1>3, ProgressAssumption
<1> QED
  BY <1>2, <1>3, <1>5, <1>6

\* completed_at is set with completed, and never overwritten.
LEMMA UpsertedStamp ==
    ASSUME NEW row \in Row, NEW request \in Ping, clock \in 0..MaxClock,
           row.completed <=> row.completedAt # NoTime
    PROVE  LET new == Upserted(row, request) IN
           /\ new.completed <=> new.completedAt # NoTime
           /\ row.completed => new.completedAt = row.completedAt
           /\ ~row.completed /\ new.completed => new.completedAt = clock
<1>1. clock # NoTime
  BY ProgressAssumption
<1> QED
  BY <1>1 DEF Upserted, Row, Ping

LEMMA TypeStep ==
    ASSUME TypeOK, [Next]_vars
    PROVE  TypeOK'
<1> USE DEF TypeOK
<1>1. ASSUME NEW d \in Durations, UpdateLessonDuration(d) PROVE TypeOK'
  BY <1>1 DEF UpdateLessonDuration
<1>2. ASSUME NEW p \in Pings, NEW v \in Viewers, NEW position \in Positions,
             ReadLesson(p, v, position)
      PROVE  TypeOK'
  <2>1. Reaches(position, duration) \in BOOLEAN
    BY DEF Reaches
  <2> QED
    BY <1>2, <2>1 DEF ReadLesson, Ping
<1>3. ASSUME NEW p \in Pings, UpsertProgress(p) PROVE TypeOK'
  <2>1. ping[p] \in Ping /\ ping[p].viewer \in Viewers
    BY DEF Ping
  <2>2. Upserted(progress[ping[p].viewer], ping[p]) \in Row
    BY <2>1, UpsertedRow
  <2> QED
    BY <1>3, <2>1, <2>2 DEF UpsertProgress, Ping
<1>4. ASSUME NEW p \in Pings, DropPing(p) PROVE TypeOK'
  BY <1>4 DEF DropPing, Ping
<1>5. CASE Tick
  BY <1>5, ProgressAssumption DEF Tick
<1>6. CASE UNCHANGED vars
  BY <1>6 DEF vars
<1> QED
  BY <1>1, <1>2, <1>3, <1>4, <1>5, <1>6 DEF Next

LEMMA RowStep ==
    ASSUME TypeOK, RowIsConsistent, [Next]_vars
    PROVE  RowIsConsistent'
<1>1. ASSUME NEW p \in Pings, UpsertProgress(p) PROVE RowIsConsistent'
  <2> DEFINE v == ping[p].viewer
             new == Upserted(progress[v], ping[p])
  <2>1. v \in Viewers /\ ping[p] \in Ping /\ progress[v] \in Row
    BY DEF TypeOK, Ping
  <2>2. /\ clock \in 0..MaxClock
        /\ progress[v].completed <=> progress[v].completedAt # NoTime
        /\ progress[v].completed => progress[v].completedAt <= clock
    BY <2>1 DEF TypeOK, RowIsConsistent
  <2>3. /\ new.completed <=> new.completedAt # NoTime
        /\ progress[v].completed => new.completedAt = progress[v].completedAt
        /\ ~progress[v].completed /\ new.completed => new.completedAt = clock
    BY <2>1, <2>2, UpsertedStamp
  <2>4. new.last <= new.max
    BY <2>1, <2>2, UpsertedRow
  <2>5. /\ new.completed <=> new.completedAt # NoTime
        /\ new.completed => new.completedAt <= clock
        /\ new.last <= new.max
    <3> HIDE DEF new, v
    <3> QED
      BY <2>2, <2>3, <2>4, ProgressAssumption
  <2>6. clock' = clock /\ progress' = [progress EXCEPT ![v] = new]
    BY <1>1 DEF UpsertProgress
  <2> HIDE DEF new, v
  <2> QED
    BY <2>1, <2>5, <2>6 DEF RowIsConsistent, TypeOK
<1>2. CASE Tick
  BY <1>2, ProgressAssumption DEF Tick, RowIsConsistent, TypeOK, Row
<1>3. CASE UNCHANGED <<progress, clock>>
  BY <1>3 DEF RowIsConsistent
<1> QED
  BY <1>1, <1>2, <1>3 DEF Next, vars, UpdateLessonDuration, ReadLesson, DropPing

LEMMA EarnedStep ==
    ASSUME TypeOK, DecisionIsEarned, CompletionIsEarned, [Next]_vars
    PROVE  DecisionIsEarned' /\ CompletionIsEarned'
<1>1. ASSUME NEW d \in Durations, UpdateLessonDuration(d)
      PROVE  DecisionIsEarned' /\ CompletionIsEarned'
  BY <1>1 DEF UpdateLessonDuration, DecisionIsEarned, CompletionIsEarned
<1>2. ASSUME NEW p \in Pings, NEW v \in Viewers, NEW position \in Positions,
             ReadLesson(p, v, position)
      PROVE  DecisionIsEarned' /\ CompletionIsEarned'
  BY <1>2 DEF ReadLesson, DecisionIsEarned, CompletionIsEarned, TypeOK
<1>3. ASSUME NEW p \in Pings, UpsertProgress(p)
      PROVE  DecisionIsEarned' /\ CompletionIsEarned'
  <2> DEFINE v == ping[p].viewer
             new == Upserted(progress[v], ping[p])
  <2>1. v \in Viewers /\ ping[p] \in Ping /\ progress[v] \in Row
    BY DEF TypeOK, Ping
  <2>2. /\ new \in Row
        /\ new.max >= progress[v].max
        /\ new.max >= ping[p].position
        /\ new.completed <=> progress[v].completed \/ ping[p].completed
    BY <2>1, UpsertedRow DEF TypeOK
  <2>3. ASSUME NEW a \in Positions, NEW b \in Positions, NEW d \in Durations,
               b >= a, Reaches(a, d)
        PROVE  Reaches(b, d)
    BY <2>3, ProgressAssumption DEF Reaches
  <2>4. new.completed => \E d \in known : Reaches(new.max, d)
    BY <1>3, <2>1, <2>2, <2>3
       DEF UpsertProgress, DecisionIsEarned, CompletionIsEarned, TypeOK, Row, Ping
  <2>5. /\ known' = known /\ duration' = duration
        /\ progress' = [progress EXCEPT ![v] = new]
        /\ ping' = [ping EXCEPT ![p].active = FALSE]
    BY <1>3 DEF UpsertProgress
  <2> HIDE DEF new, v
  <2>6. CompletionIsEarned'
    BY <2>1, <2>4, <2>5 DEF CompletionIsEarned, TypeOK
  <2>7. DecisionIsEarned'
    BY <2>5 DEF DecisionIsEarned, TypeOK, Ping
  <2> QED
    BY <2>6, <2>7
<1>4. ASSUME NEW p \in Pings, DropPing(p)
      PROVE  DecisionIsEarned' /\ CompletionIsEarned'
  BY <1>4 DEF DropPing, DecisionIsEarned, CompletionIsEarned, TypeOK, Ping
<1>5. CASE UNCHANGED <<duration, progress, ping, known>>
  BY <1>5 DEF DecisionIsEarned, CompletionIsEarned
<1> QED
  BY <1>1, <1>2, <1>3, <1>4, <1>5 DEF Next, Tick, vars

LEMMA ProgressInit ==
    ASSUME Init
    PROVE  TypeOK /\ RowIsConsistent /\ DecisionIsEarned /\ CompletionIsEarned
<1>1. NoRow \in Row /\ NoRow.completed = FALSE /\ NoRow.completedAt = NoTime
          /\ NoRow.last = 0 /\ NoRow.max = 0
  BY ProgressAssumption DEF NoRow, Row
<1>2. ping \in [Pings -> Ping] /\ \A p \in Pings : ~ping[p].active
  BY DEF Init
<1> QED
  BY <1>1, <1>2, ProgressAssumption
     DEF Init, TypeOK, RowIsConsistent, DecisionIsEarned, CompletionIsEarned

\* Every position, duration and moment stored by upsertProgress is one that was
\* reported, stored or shown by the clock.
THEOREM ProgressTypeCorrect == Spec => []TypeOK
<1>1. TypeOK /\ [Next]_vars => TypeOK'
  BY TypeStep
<1> QED
  BY <1>1, ProgressInit, PTL DEF Spec

\* The columns of every progress row agree with each other at all times.
THEOREM RowsConsistent == Spec => []RowIsConsistent
<1>1. TypeOK /\ RowIsConsistent /\ [Next]_vars => TypeOK' /\ RowIsConsistent'
  BY TypeStep, RowStep
<1> QED
  BY <1>1, ProgressInit, PTL DEF Spec

\* Nobody completes a lesson without having reached 90% of a duration it had,
\* even if a replacement changes the duration between the read and the upsert.
THEOREM CompletionEarned == Spec => []CompletionIsEarned
<1>1. TypeOK /\ DecisionIsEarned /\ CompletionIsEarned /\ [Next]_vars
          => TypeOK' /\ DecisionIsEarned' /\ CompletionIsEarned'
  BY TypeStep, EarnedStep
<1> QED
  BY <1>1, ProgressInit, PTL DEF Spec

\* Progress never regresses, in whatever order concurrent pings are written.
THEOREM NeverRegresses == Spec => ProgressNeverRegresses
<1>1. TypeOK /\ RowIsConsistent /\ [Next]_vars => TypeOK' /\ RowIsConsistent'
  BY TypeStep, RowStep
<1>2. ASSUME TypeOK, RowIsConsistent, [Next]_vars, NEW u \in Viewers
      PROVE  /\ progress'[u].max >= progress[u].max
             /\ progress[u].completed =>
                  /\ progress'[u].completed
                  /\ progress'[u].completedAt = progress[u].completedAt
  <2>1. ASSUME NEW p \in Pings, UpsertProgress(p), u = ping[p].viewer
        PROVE  /\ progress'[u].max >= progress[u].max
               /\ progress[u].completed =>
                    /\ progress'[u].completed
                    /\ progress'[u].completedAt = progress[u].completedAt
    <3>1. ping[p] \in Ping /\ progress[u] \in Row
      BY <1>2 DEF TypeOK
    <3>2. progress'[u] = Upserted(progress[u], ping[p])
      BY <1>2, <2>1 DEF UpsertProgress, TypeOK
    <3> QED
      BY <1>2, <3>1, <3>2, UpsertedRow, UpsertedStamp DEF TypeOK, RowIsConsistent
  <2>2. CASE progress'[u] = progress[u]
    <3>1. progress[u].max \in Nat
      BY <1>2, ProgressAssumption DEF TypeOK, Row
    <3> QED
      BY <2>2, <3>1
  <2> QED
    BY <1>2, <2>1, <2>2 DEF Next, vars, UpdateLessonDuration, ReadLesson, UpsertProgress,
                           DropPing, Tick, TypeOK
<1>3. TypeOK /\ RowIsConsistent /\ [Next]_vars =>
        [\A v \in Viewers :
            /\ progress'[v].max >= progress[v].max
            /\ progress[v].completed =>
                 /\ progress'[v].completed
                 /\ progress'[v].completedAt = progress[v].completedAt]_vars
  BY <1>2
<1> QED
  BY <1>1, <1>3, ProgressInit, PTL DEF Spec, ProgressNeverRegresses

================================================================================
