----------------------------- MODULE LspProofs -----------------------------
(***************************************************************************)
(* Answers are not mixed up, however many extractions, languages and       *)
(* daemons there are: a client finds its answer by its number, and on a    *)
(* connection on which no answer was given up there is at most the one     *)
(* that is waited for.                                                     *)
(***************************************************************************)
EXTENDS LspRefinement, SequenceLemmas

\* Of a process that looks for a daemon or a server.
Looking == {"provider", "probe", "unlink", "connect", "ensure", "probe again",
            "unlink again", "spawn", "start"}
Places == {"new", "language", "ask", "reply", "shutdown", "gone"} \cup Looking
Stages == {"open", "definition", "references", "implementations"}

-----------------------------------------------------------------------------
(* The inductive invariant *)

\* The answers on their way are numbered below the next request.
IsClient(c) ==
  /\ c = [next |-> c.next, answers |-> c.answers, opened |-> c.opened, indexed |-> c.indexed]
  /\ c.next \in Nat
  /\ IsSequence(c.answers)
  /\ \A i \in DOMAIN c.answers : c.answers[i].id \in 0..(c.next - 1)

IsConnection(k) ==
  conn[k] = [to |-> conn[k].to, open |-> conn[k].open,
             sent |-> conn[k].sent, answers |-> conn[k].answers]

IsDaemon(d) ==
  /\ daemon[d] = [up |-> daemon[d].up, servers |-> daemon[d].servers,
                  serving |-> daemon[d].serving, backlog |-> daemon[d].backlog]
  /\ daemon[d].servers = [l \in ToSet(Languages) |-> daemon[d].servers[l]]
  /\ \A l \in ToSet(Languages) : IsClient(daemon[d].servers[l])
  /\ daemon[d].serving \in Keys \cup {None}
  /\ daemon[d].backlog \in Seq(Keys)

TypeInv ==
  /\ socket \in Keys \cup {None}
  /\ daemon = [d \in Keys |-> daemon[d]] /\ \A d \in Keys : IsDaemon(d)
  /\ conn = [k \in Keys |-> conn[k]] /\ \A k \in Keys : IsConnection(k)
  /\ pc \in [Procs -> Places] /\ at \in [Procs -> 1..(Len(Languages) + 1)]
  /\ graph = [p \in Procs |-> graph[p]] /\ read = [p \in Procs |-> read[p]]
  /\ calls = [p \in Procs |-> calls[p]]
  /\ pass = [p \in Procs |-> pass[p]] /\ todo = [p \in Procs |-> todo[p]]
  /\ learnt = [p \in Procs |-> learnt[p]] /\ own = [p \in Procs |-> own[p]]
  /\ tardy \in [Procs -> BOOLEAN]

Quiet(k) == conn[k].sent = <<>> /\ conn[k].answers = <<>>

\* What a daemon may write about a question: an error is of a kind of its own.
IsReplyTo(a, question) ==
  a.kind = question.kind /\ a.kind # "open" => a.answer.question = question

\* What the questions of a pass are about.
IsQuestion(p, x) ==
  /\ x.kind = pass[p]
  /\ pass[p] \in {"references", "implementations"} => x.about \in Functions
  /\ pass[p] = "definition" => x.at \in calls[p]

\* Where a process is with its languages, its server and its questions.
PlacePart(p) ==
  /\ IsSequence(graph[p])
  /\ pc[p] \notin {"new", "language", "gone"} => at[p] <= Len(Languages)
  /\ pc[p] \notin {"ask", "shutdown"} => own[p] = None
  /\ pc[p] \in {"ask", "reply"} =>
       /\ pass[p] \in Stages
       /\ IsSequence(todo[p])
       /\ \A j \in DOMAIN todo[p] : IsQuestion(p, todo[p][j])
       /\ \A e \in learnt[p] : IsQuestion(p, e.question)
  /\ pc[p] = "reply" => todo[p] # <<>>

\* A server of its own has the contents that were extracted, once they are opened.
OwnPart(p) ==
  own[p] # None =>
    /\ IsClient(own[p])
    /\ pc[p] = "ask" /\ own[p].opened # read[p] =>
         own[p].opened = NoVersion /\ pass[p] = "open" /\ todo[p] # <<>>

\* A connection before its language, between two questions and after a question.
ConnPart(p) ==
  /\ \A i \in DOMAIN Languages :
       i > at[p] \/ (i = at[p] /\ pc[p] \notin {"ask", "reply", "shutdown"}) =>
         conn[<<p, Languages[i]>>] = Closed
  /\ pc[p] = "ask" /\ ~ tardy[p] => Quiet(Key(p)) \/ conn[Key(p)].to = None
  /\ pc[p] = "reply" /\ ~ tardy[p] =>
       \/ conn[Key(p)].sent \in {<<>>, <<Request(p)>>} /\ conn[Key(p)].answers = <<>>
       \/ /\ conn[Key(p)].sent = <<>>
          /\ \E a : conn[Key(p)].answers = <<a>> /\ IsReplyTo(a, Asked(p))

LearntPart(p) ==
  tardy[p] \/ \A e \in learnt[p] :
    /\ e.answer.question = e.question
    /\ own[p] # None => e.answer.version = read[p]

ProcInv(p) == PlacePart(p) /\ OwnPart(p) /\ ConnPart(p) /\ LearntPart(p)

Inv == TypeInv /\ \A p \in Procs : ProcInv(p)

-----------------------------------------------------------------------------
(* What is chosen of a sequence *)

LEMMA ChosenIs ==
  ASSUME NEW s, IsSequence(s), NEW I
  PROVE  /\ IsSequence(Chosen(s, I)) /\ ToSet(Chosen(s, I)) = {s[i] : i \in I \cap DOMAIN s}
         /\ \A n \in DOMAIN s : 1..n \subseteq I =>
              n \in DOMAIN Chosen(s, I) /\ Chosen(s, I)[n] = s[n]
  <1> DEFINE N == Len(s)
             step(f, n) == IF n = 0 THEN <<>>
                           ELSE IF n \in I THEN Append(f[n - 1], s[n]) ELSE f[n - 1]
             Is(f, k) == f = [n \in 0..k |-> step(f, n)]
             before[n \in 0..N] ==
               IF n = 0 THEN <<>>
               ELSE IF n \in I THEN Append(before[n - 1], s[n]) ELSE before[n - 1]
             T == {k \in Nat : \E f : Is(f, k)}
             W == {k \in Nat : k <= N =>
                     /\ IsSequence(before[k]) /\ Len(before[k]) \in 0..k
                     /\ ToSet(before[k]) = {s[i] : i \in I \cap (1..k)}
                     /\ \A n \in 1..k : 1..n \subseteq I => n <= Len(before[k]) /\ before[k][n] = s[n]}
  <1>1. N \in Nat /\ DOMAIN s = 1..N
    BY DEF IsSequence
  <1>2. Nat \subseteq T
    <2>1. 0 \in T
      <3>1. Is([n \in 0..0 |-> <<>>], 0)
        OBVIOUS
      <3> QED BY <3>1
    <2>2. ASSUME NEW k \in Nat, k \in T PROVE k + 1 \in T
      <3>1. PICK r : Is(r, k)
        BY <2>2
      <3> DEFINE h == [n \in 0..(k + 1) |-> IF n <= k THEN r[n] ELSE step(r, k + 1)]
      <3>2. ASSUME NEW n \in 0..(k + 1) PROVE h[n] = step(h, n)
        <4>1. CASE n <= k
          <5>1. h[n] = step(r, n)
            <6>1. h[n] = r[n] /\ n \in 0..k
              BY <4>1
            <6> HIDE DEF step, h
            <6>2. r[n] = step(r, n)
              BY <3>1, <6>1
            <6> QED BY <6>1, <6>2
          <5>2. n # 0 => h[n - 1] = r[n - 1]
            BY <4>1
          <5> HIDE DEF h
          <5> QED BY <5>1, <5>2
        <4>2. CASE n = k + 1
          <5>1. h[n] = step(r, n) /\ n # 0
            BY <4>2
          <5>2. h[n - 1] = r[n - 1]
            BY <4>2
          <5> HIDE DEF h
          <5> QED BY <5>1, <5>2
        <4> QED BY <4>1, <4>2
      <3>3. h = [n \in 0..(k + 1) |-> h[n]]
        OBVIOUS
      <3>4. Is(h, k + 1)
        <4> HIDE DEF h
        <4>1. [n \in 0..(k + 1) |-> h[n]] = [n \in 0..(k + 1) |-> step(h, n)]
          <5> HIDE DEF step
          <5> QED BY <3>2
        <4> QED BY <3>3, <4>1, Zenon
      <3> HIDE DEF h
      <3>5. \E f : Is(f, k + 1)
        BY <3>4
      <3> QED BY <3>5
    <2> HIDE DEF T
    <2> QED BY <2>1, <2>2, NatSetInduction
  <1>3. Is(before, N)
    <2>1. \E f : Is(f, N)
      BY <1>1, <1>2
    <2>2. before = CHOOSE f : Is(f, N)
      OBVIOUS
    <2> QED BY <2>1, <2>2
  <1>4. Chosen(s, I) = before[N]
    BY DEF Chosen
  <1> HIDE DEF before
  <1>5. Nat \subseteq W
    <2>1. 0 \in W
      BY <1>1, <1>3, EmptySequence DEF ToSet
    <2>2. ASSUME NEW k \in Nat, k \in W PROVE k + 1 \in W
      <3> SUFFICES ASSUME k + 1 <= N
                   PROVE  /\ IsSequence(before[k + 1]) /\ Len(before[k + 1]) \in 0..(k + 1)
                          /\ ToSet(before[k + 1]) = {s[i] : i \in I \cap (1..(k + 1))}
                          /\ \A n \in 1..(k + 1) : 1..n \subseteq I =>
                               n <= Len(before[k + 1]) /\ before[k + 1][n] = s[n]
        OBVIOUS
      <3>1. /\ IsSequence(before[k]) /\ Len(before[k]) \in 0..k
            /\ ToSet(before[k]) = {s[i] : i \in I \cap (1..k)}
            /\ \A n \in 1..k : 1..n \subseteq I => n <= Len(before[k]) /\ before[k][n] = s[n]
        BY <1>1, <2>2
      <3>2. before[k + 1] = IF k + 1 \in I THEN Append(before[k], s[k + 1]) ELSE before[k]
        <4>1. k + 1 \in 0..N /\ k + 1 # 0 /\ k + 1 - 1 = k
          BY <1>1
        <4>2. before[k + 1] = step(before, k + 1)
          <5> HIDE DEF step
          <5> QED BY <1>3, <4>1
        <4> QED BY <4>1, <4>2
      <3>3. CASE k + 1 \in I
        <4>1. ToSet(Append(before[k], s[k + 1])) = ToSet(before[k]) \cup {s[k + 1]}
          <5> DEFINE b == before[k]
          <5>1. IsSequence(b)
            BY <3>1
          <5> HIDE DEF b
          <5>2. ToSet(Append(b, s[k + 1])) = ToSet(b) \cup {s[k + 1]}
            BY <5>1, SequenceAppend DEF ToSet
          <5> QED BY <5>2 DEF b
        <4>2. {s[i] : i \in I \cap (1..(k + 1))} = {s[i] : i \in I \cap (1..k)} \cup {s[k + 1]}
          BY <3>3
        <4>3. /\ IsSequence(before[k + 1]) /\ Len(before[k + 1]) = Len(before[k]) + 1
              /\ before[k + 1][Len(before[k]) + 1] = s[k + 1]
              /\ \A i \in 1..Len(before[k]) : before[k + 1][i] = before[k][i]
          <5> DEFINE b == before[k]
          <5>1. IsSequence(b) /\ before[k + 1] = Append(b, s[k + 1])
            BY <3>1, <3>2, <3>3
          <5> HIDE DEF b
          <5>2. /\ IsSequence(before[k + 1]) /\ Len(before[k + 1]) = Len(b) + 1
                /\ before[k + 1][Len(b) + 1] = s[k + 1]
                /\ \A i \in 1..Len(b) : before[k + 1][i] = b[i]
            BY <5>1, SequenceAppend
          <5> QED BY <5>2 DEF b
        <4>4. ASSUME NEW n \in 1..(k + 1), 1..n \subseteq I
              PROVE  n <= Len(before[k + 1]) /\ before[k + 1][n] = s[n]
          <5>1. CASE n <= k
            BY <3>1, <4>3, <4>4, <5>1
          <5>2. CASE n = k + 1
            <6>1. k = Len(before[k])
              <7>1. CASE k = 0
                BY <3>1, <7>1
              <7>2. CASE k # 0
                <8>1. k \in 1..k /\ 1..k \subseteq I
                  BY <4>4, <5>2, <7>2
                <8> QED BY <3>1, <8>1
              <7> QED BY <7>1, <7>2
            <6> QED BY <4>3, <5>2, <6>1
          <5> QED BY <5>1, <5>2
        <4>5. ToSet(before[k + 1]) = {s[i] : i \in I \cap (1..(k + 1))}
          BY <3>1, <3>2, <3>3, <4>1, <4>2
        <4> QED BY <3>1, <4>3, <4>4, <4>5
      <3>4. CASE k + 1 \notin I
        <4>1. I \cap (1..(k + 1)) = I \cap (1..k)
          BY <3>4
        <4>2. \A n \in 1..(k + 1) : 1..n \subseteq I => n \in 1..k
          BY <3>4
        <4> QED BY <3>1, <3>2, <3>4, <4>1, <4>2
      <3> QED BY <3>3, <3>4
    <2> HIDE DEF W
    <2> QED BY <2>1, <2>2, NatSetInduction
  <1>6. /\ IsSequence(before[N]) /\ ToSet(before[N]) = {s[i] : i \in I \cap (1..N)}
        /\ \A n \in 1..N : 1..n \subseteq I => n <= Len(before[N]) /\ before[N][n] = s[n]
    <2>1. N \in W
      BY <1>1, <1>5
    <2> QED BY <2>1
  <1>7. DOMAIN before[N] = 1..Len(before[N])
    BY <1>6, SequenceAppend
  <1> HIDE DEF N, before
  <1> QED BY <1>1, <1>4, <1>6, <1>7

-----------------------------------------------------------------------------
(* The client of a server *)

LEMMA NewClientIsClient ==
  IsClient(NewClient) /\ NewClient.opened = NoVersion /\ IsClient(NoServer)
  <1>1. IsClient(NewClient) /\ NewClient.opened = NoVersion
    BY EmptySequence DEF NewClient, IsClient
  <1>2. NoServer = [next |-> 0, answers |-> <<>>, opened |-> NoVersion, indexed |-> FALSE]
    <2>1. NewClient \in [next : {1}, answers : {<<>>}, opened : {NoVersion}, indexed : {FALSE}]
      BY DEF NewClient
    <2>2. NoServer \in [next : {0}, answers : {<<>>}, opened : {NoVersion}, indexed : {FALSE}]
      BY <2>1 DEF NoServer
    <2> QED BY <2>2
  <1>3. IsClient(NoServer)
    BY <1>2, EmptySequence DEF IsClient
  <1> QED BY <1>1, <1>3

LEMMA ClientFields ==
  ASSUME NEW n, NEW s, NEW v, NEW b, NEW n2, NEW s2,
         NEW c, c = [next |-> n, answers |-> s, opened |-> v, indexed |-> b]
  PROVE  /\ [c EXCEPT !.next = n2, !.answers = s2]
              = [next |-> n2, answers |-> s2, opened |-> v, indexed |-> b]
         /\ [c EXCEPT !.answers = s2] = [next |-> n, answers |-> s2, opened |-> v, indexed |-> b]
  <1>1. c \in [next : {n}, answers : {s}, opened : {v}, indexed : {b}]
    OBVIOUS
  <1> DEFINE d == [c EXCEPT !.next = n2, !.answers = s2]
             d2 == [c EXCEPT !.answers = s2]
  <1>2. d \in [next : {n2}, answers : {s2}, opened : {v}, indexed : {b}]
    BY <1>1
  <1>3. d2 \in [next : {n}, answers : {s2}, opened : {v}, indexed : {b}]
    BY <1>1
  <1> HIDE DEF d, d2
  <1>4. d = [next |-> n2, answers |-> s2, opened |-> v, indexed |-> b]
    BY <1>2
  <1>5. d2 = [next |-> n, answers |-> s2, opened |-> v, indexed |-> b]
    BY <1>3
  <1> QED BY <1>4, <1>5 DEF d, d2

LEMMA OpenFileIsClient ==
  ASSUME NEW c, IsClient(c), NEW v
  PROVE  IsClient(OpenFile(c, v)) /\ OpenFile(c, v).opened = IF c.opened = NoVersion THEN v ELSE c.opened
  BY DEF OpenFile, IsClient

LEMMA ProgressedIsClient ==
  ASSUME NEW c, IsClient(c), NEW c2 \in Progressed(c)
  PROVE  IsClient(c2) /\ c2.opened = c.opened
  BY DEF Progressed, IsClient

\* The answer that is read is the one to the last request: the others have
\* smaller numbers.
LEMMA RequestedIsAnswered ==
  ASSUME NEW c, IsClient(c), NEW question
  PROVE  LET r == Requested(c, question)
         IN /\ Answer(r).question = question /\ Answer(r).version = c.opened
            /\ IsClient(r) /\ r.opened = c.opened
            /\ IsClient(Answered(r)) /\ Answered(r).opened = c.opened
  <1> DEFINE r == Requested(c, question)
             n == Len(c.answers)
             reply == Reply(c, question)
  <1>1. reply.id = c.next /\ reply.question = question /\ reply.version = c.opened
    BY DEF Reply
  <1> HIDE DEF reply
  <1>2. r = [next |-> c.next + 1, answers |-> Append(c.answers, reply),
             opened |-> c.opened, indexed |-> c.indexed]
    <2>1. r = [c EXCEPT !.next = c.next + 1, !.answers = Append(c.answers, reply)]
      BY DEF Requested, reply
    <2>2. c = [next |-> c.next, answers |-> c.answers, opened |-> c.opened, indexed |-> c.indexed]
      BY DEF IsClient
    <2> HIDE DEF r
    <2> QED BY <2>1, <2>2, ClientFields
  <1>3. c.next \in Nat /\ IsSequence(c.answers) /\ \A i \in DOMAIN c.answers : c.answers[i].id \in 0..(c.next - 1)
    BY DEF IsClient
  <1> HIDE DEF r
  <1>4. /\ IsSequence(r.answers) /\ n \in Nat /\ DOMAIN r.answers = 1..(n + 1)
        /\ r.answers[n + 1] = reply /\ Len(r.answers) = n + 1
        /\ \A i \in 1..n : r.answers[i].id \in 0..(c.next - 1)
    BY <1>2, <1>3, SequenceAppend
  <1>5. \A i \in DOMAIN r.answers : r.answers[i].id = r.next - 1 <=> i = n + 1
    BY <1>1, <1>2, <1>3, <1>4
  <1>6. Position(r) = n + 1
    BY <1>4, <1>5 DEF Position
  <1>7. Answer(r) = reply
    BY <1>4, <1>6 DEF Answer
  <1>8. IsClient(r) /\ r.opened = c.opened
    <2>1. \A i \in DOMAIN r.answers : r.answers[i].id \in 0..(r.next - 1)
      BY <1>1, <1>2, <1>3, <1>4
    <2>2. r.next \in Nat /\ r = [next |-> r.next, answers |-> r.answers, opened |-> r.opened, indexed |-> r.indexed]
      BY <1>2, <1>3
    <2> QED BY <1>2, <1>4, <2>1, <2>2 DEF IsClient
  <1>9. Answered(r) = [r EXCEPT !.answers = <<>>]
    <2>1. SubSeq(r.answers, n + 2, n + 1) = <<>>
      BY <1>4 DEF IsSequence
    <2>2. n + 1 + 1 = n + 2
      BY <1>4
    <2> QED BY <1>4, <1>6, <2>1, <2>2 DEF Answered
  <1>10. IsClient(Answered(r)) /\ Answered(r).opened = c.opened
    BY <1>8, <1>9, EmptySequence DEF IsClient
  <1> QED BY <1>1, <1>7, <1>8, <1>10 DEF r

-----------------------------------------------------------------------------
(* The questions of a pass, and the graph it leaves *)

LEMMA QuestionsAre ==
  ASSUME NEW p, NEW g, IsSequence(g), NEW stage \in Stages
  PROVE  /\ IsSequence(Questions(p, stage, g))
         /\ \A j \in DOMAIN Questions(p, stage, g) :
              LET x == Questions(p, stage, g)[j]
              IN /\ x.kind = stage
                 /\ stage \in {"references", "implementations"} => x.about \in Functions
                 /\ stage = "definition" => x.at \in calls[p]
  <1> DEFINE here == {f \in Functions : FileOf[f] = Language(p)}
             fit(s) == /\ IsSequence(s)
                       /\ \A j \in DOMAIN s :
                            /\ s[j].kind = stage
                            /\ stage \in {"references", "implementations"} => s[j].about \in Functions
                            /\ stage = "definition" => s[j].at \in calls[p]
  <1>1. CASE stage = "open"
    <2>1. Questions(p, stage, g) = <<Question("open", Language(p), 0)>>
      BY <1>1 DEF Questions
    <2>2. Question("open", Language(p), 0).kind = "open"
      BY DEF Question
    <2> DEFINE x == Question("open", Language(p), 0)
    <2> HIDE DEF x
    <2>3. <<x>> \in Seq({x}) /\ DOMAIN <<x>> = {1} /\ <<x>>[1] = x
      OBVIOUS
    <2>4. fit(<<x>>)
      BY <1>1, <2>2, <2>3, SeqIsSequence DEF x
    <2> QED BY <2>1, <2>4 DEF x
  <1>2. CASE stage = "definition"
    <2> DEFINE numbers == [i \in DOMAIN g |-> i]
               I == Unsure(g, Mine(p, g))
               indices == Chosen(numbers, I)
    <2>1. IsSequence(numbers) /\ DOMAIN numbers = DOMAIN g
      <3>1. Len(g) \in Nat /\ DOMAIN g = 1..Len(g)
        BY DEF IsSequence
      <3>2. numbers \in Seq(Nat)
        BY <3>1
      <3> QED BY <3>2, SeqIsSequence
    <2>2. I \subseteq calls[p]
      BY DEF Unsure, Mine
    <2> HIDE DEF I
    <2>3. IsSequence(indices) /\ ToSet(indices) \subseteq I
      BY <2>1, ChosenIs
    <2> HIDE DEF numbers, indices
    <2>4. Len(indices) \in Nat /\ DOMAIN indices = 1..Len(indices) /\ \A j \in DOMAIN indices : indices[j] \in calls[p]
      BY <2>2, <2>3 DEF IsSequence, ToSet
    <2> DEFINE asked == [j \in DOMAIN indices |-> Question(stage, g[indices[j]].site, indices[j])]
    <2>5. Questions(p, stage, g) = asked
      BY <1>2 DEF Questions, indices, numbers, I
    <2>6. \A j \in DOMAIN asked : asked[j].kind = stage /\ asked[j].at \in calls[p]
      BY <2>4 DEF Question
    <2>7. IsSequence(asked)
      BY <2>4 DEF IsSequence, ToSet
    <2> HIDE DEF asked
    <2> QED BY <1>2, <2>5, <2>6, <2>7
  <1>3. ASSUME NEW F, F \subseteq Functions, stage \in {"references", "implementations"},
               Questions(p, stage, g)
                 = [j \in DOMAIN SetToSeq(F) |-> Question(stage, SetToSeq(F)[j], 0)]
        PROVE  fit(Questions(p, stage, g))
    <2>1. IsFiniteSet(F)
      BY <1>3, LspAssumption, FS_Subset DEF LspAssumption
    <2> DEFINE order == SetToSeq(F)
               asked == [j \in DOMAIN order |-> Question(stage, order[j], 0)]
    <2>2. IsSequence(order) /\ ToSet(order) \subseteq F
      BY <2>1, SetToSeqIs
    <2>3. Questions(p, stage, g) = asked
      BY <1>3
    <2> HIDE DEF order
    <2>4. Len(order) \in Nat /\ DOMAIN order = 1..Len(order) /\ \A j \in DOMAIN order : order[j] \in Functions
      BY <1>3, <2>2 DEF IsSequence, ToSet
    <2>5. \A j \in DOMAIN asked : asked[j].kind = stage /\ asked[j].about \in Functions
      BY <2>4 DEF Question
    <2>6. IsSequence(asked)
      BY <2>4 DEF IsSequence, ToSet
    <2> HIDE DEF asked
    <2> QED BY <1>3, <2>3, <2>5, <2>6
  <1>4. CASE stage = "references"
    BY <1>3, <1>4 DEF Questions
  <1>5. CASE stage = "implementations"
    <2>1. here \cap TraitMethods(g) \subseteq Functions
      OBVIOUS
    <2> QED BY <1>3, <1>5, <2>1 DEF Questions
  <1> QED BY <1>1, <1>2, <1>4, <1>5 DEF Stages

LEMMA ConcatStart ==
  ASSUME NEW s, IsSequence(s), NEW t, IsSequence(t), NEW i \in DOMAIN s
  PROVE  i \in DOMAIN (s \o t) /\ (s \o t)[i] = s[i]
  <1> DEFINE S == ToSet(s) \cup ToSet(t)
  <1>1. s \in Seq(S) /\ t \in Seq(S)
    BY DEF IsSequence
  <1> HIDE DEF S
  <1> QED BY <1>1

\* A pass changes or removes the edges it asked about, and adds others at the end.
\* Those in front of all that it removes stay where they are.
LEMMA AppliedIs ==
  ASSUME NEW p, IsSequence(graph[p]), pass[p] \in Stages,
         \A e \in learnt[p] : IsQuestion(p, e.question), NEW g \in Applied(p)
  PROVE  /\ IsSequence(g)
         /\ pass[p] = "open" => g = graph[p]
         /\ \A i \in DOMAIN graph[p] :
              graph[p][i] \in ToSet(g) \/ (pass[p] = "definition" /\ i \in calls[p])
         /\ \A i \in DOMAIN graph[p] :
              \/ i \in DOMAIN g /\ g[i] = graph[p][i]
              \/ pass[p] = "definition" /\ (i \in calls[p] \/ \E j \in Nowhere(p) : j < i)
  <1> DEFINE old == graph[p]
  <1>1. CASE pass[p] = "open"
    BY <1>1 DEF Applied, ToSet
  <1>2. CASE pass[p] = "definition"
    <2>1. PICK pick \in Picks(Found(p)) : g = Redefined(p, old, pick)
      BY <1>2 DEF Applied
    <2> DEFINE leads(i) == {l \in Found(p) : \E e \in learnt[p] :
                              e.question.at = i /\ l \in e.answer.found /\ pick[l] # None}
               none == Nowhere(p)
               updated == [i \in DOMAIN old |->
                  IF leads(i) = {} THEN old[i]
                  ELSE [old[i] EXCEPT !.to = pick[CHOOSE l \in leads(i) : TRUE], !.sure = TRUE]]
    <2>2. g = Chosen(updated, DOMAIN updated \ none)
      BY <2>1 DEF Redefined, Removed
    <2>3. \A i \in DOMAIN old : i \notin calls[p] => leads(i) = {} /\ i \notin none
      BY <1>2 DEF IsQuestion, Nowhere
    <2>4. \A i \in DOMAIN old : i \notin calls[p] => updated[i] = old[i]
      BY <2>3
    <2>5. IsSequence(updated) /\ DOMAIN updated = DOMAIN old
      <3>1. DOMAIN updated = 1..Len(old) /\ Len(old) \in Nat
        BY DEF IsSequence
      <3>2. updated = [i \in 1..Len(old) |-> updated[i]]
        BY <3>1
      <3> HIDE DEF updated
      <3> DEFINE U == {updated[i] : i \in 1..Len(old)}
      <3>3. updated \in Seq(U)
        BY <3>1, <3>2
      <3> HIDE DEF U
      <3>4. IsSequence(updated)
        BY <3>3, SeqIsSequence
      <3>5. DOMAIN old = 1..Len(old)
        BY DEF IsSequence
      <3> QED BY <3>1, <3>4, <3>5
    <2> HIDE DEF updated, none
    <2>6. IsSequence(g) /\ ToSet(g) = {updated[i] : i \in (DOMAIN updated \ none) \cap DOMAIN updated}
      BY <2>2, <2>5, ChosenIs
    <2>7. \A i \in DOMAIN old : i \notin calls[p] => old[i] \in ToSet(g)
      BY <2>3, <2>4, <2>5, <2>6
    <2>8. ASSUME NEW i \in DOMAIN old, i \notin calls[p], \A j \in none : ~ j < i
          PROVE  i \in DOMAIN g /\ g[i] = old[i]
      <3>1. DOMAIN updated = 1..Len(updated) /\ Len(updated) \in Nat
        BY <2>5 DEF IsSequence
      <3>2. i \in DOMAIN updated /\ i \in 1..Len(updated)
        BY <2>5, <3>1
      <3>3. 1..i \subseteq DOMAIN updated \ none
        BY <2>3, <2>8, <3>1, <3>2
      <3>4. i \in DOMAIN g /\ g[i] = updated[i]
        BY <2>2, <2>5, <3>2, <3>3, ChosenIs
      <3> QED BY <2>4, <2>8, <3>4
    <2> QED BY <1>2, <2>6, <2>7, <2>8 DEF none
  <1>3. ASSUME pass[p] \in {"references", "implementations"},
               NEW pick, NEW relation, NEW eligible, IsFiniteSet(eligible),
               g = Enriched(p, old, pick, relation, eligible)
        PROVE  IsSequence(g) /\ \A i \in DOMAIN old :
                 old[i] \in ToSet(g) /\ i \in DOMAIN g /\ g[i] = old[i]
    <2> DEFINE others(e) == {l \in e.answer.found : pick[l] \in eligible \ {e.question.about}}
               pairs == UNION {{<<pick[l], e.question.about>> : l \in others(e)} : e \in learnt[p]}
               new == {r \in pairs : ~ \E i \in DOMAIN old :
                         old[i].relation = relation /\ old[i].from = r[1] /\ old[i].to = r[2]}
               added == {Edge(r[1], r[2], relation) : r \in new}
    <2>1. g = old \o SetToSeq(added)
      BY <1>3 DEF Enriched
    <2>2. new \subseteq eligible \X Functions
      BY <1>3 DEF IsQuestion
    <2>3. IsFiniteSet(new)
      BY <1>3, <2>2, FS_Product, FS_Subset, LspAssumption DEF LspAssumption
    <2> HIDE DEF new
    <2>4. IsFiniteSet(added)
      <3> DEFINE f == [r \in new |-> Edge(r[1], r[2], relation)]
      <3>1. f \in Surjection(new, added)
        BY DEF Surjection
      <3> HIDE DEF f, added
      <3> QED BY <2>3, <3>1, FS_Surjection
    <2> HIDE DEF added
    <2> QED BY <2>1, <2>4, SetToSeqIs, SequenceConcat, ConcatStart
  <1>4. CASE pass[p] = "references"
    <2>1. IsFiniteSet(Functions)
      BY LspAssumption, FS_Subset DEF LspAssumption
    <2>2. \E pick : g = Enriched(p, old, pick, "calls", Functions)
      BY <1>4 DEF Applied
    <2> QED BY <1>3, <1>4, <2>1, <2>2
  <1>5. CASE pass[p] = "implementations"
    <2>1. IsFiniteSet(Nodes)
      BY LspAssumption DEF LspAssumption
    <2>2. \E pick : g = Enriched(p, old, pick, "implements", Nodes)
      BY <1>5 DEF Applied
    <2> QED BY <1>3, <1>5, <2>1, <2>2
  <1> QED BY <1>1, <1>2, <1>4, <1>5 DEF Stages

-----------------------------------------------------------------------------
(* The others: a step of one process changes nothing of another but that its *)
(* daemon may be gone                                                        *)

Severs(k) == conn'[k] = conn[k] \/ conn'[k] = [conn[k] EXCEPT !.to = None]

LeftAlone(q) ==
  /\ pc'[q] = pc[q] /\ at'[q] = at[q] /\ graph'[q] = graph[q] /\ read'[q] = read[q]
  /\ calls'[q] = calls[q] /\ pass'[q] = pass[q] /\ todo'[q] = todo[q]
  /\ learnt'[q] = learnt[q] /\ own'[q] = own[q] /\ tardy'[q] = tardy[q]

LEMMA KeysOf ==
  ASSUME NEW p \in Procs
  PROVE  /\ \A i \in DOMAIN Languages : Languages[i] \in ToSet(Languages) /\ <<p, Languages[i]>> \in Keys
         /\ DOMAIN Languages = 1..Len(Languages) /\ Len(Languages) \in Nat
         /\ None \notin Keys
  BY LspAssumption DEF LspAssumption, Keys, Procs, ToSet

LEMMA KeyIn ==
  ASSUME TypeInv, NEW p \in Procs, at[p] <= Len(Languages)
  PROVE  Key(p) \in Keys /\ Language(p) \in ToSet(Languages) /\ at[p] \in DOMAIN Languages
  BY KeysOf DEF Key, Language, TypeInv

LEMMA SeveredFields ==
  ASSUME NEW k, IsConnection(k), Severs(k)
  PROVE  /\ conn'[k].sent = conn[k].sent /\ conn'[k].answers = conn[k].answers
         /\ conn'[k].to \in {conn[k].to, None} /\ conn'[k].open = conn[k].open
         /\ conn[k] = Closed => conn'[k] = Closed
         /\ IsConnection(k)'
  <1>1. CASE conn'[k] = conn[k]
    BY <1>1 DEF IsConnection
  <1>2. CASE conn'[k] = [conn[k] EXCEPT !.to = None]
    <2>1. conn'[k] = [to |-> None, open |-> conn[k].open, sent |-> conn[k].sent, answers |-> conn[k].answers]
      BY <1>2 DEF IsConnection
    <2>2. IsConnection(k)'
      BY <2>1 DEF IsConnection
    <2> QED BY <2>1, <2>2 DEF Closed
  <1> QED BY <1>1, <1>2 DEF Severs

LEMMA Frame ==
  ASSUME TypeInv, NEW q \in Procs, ProcInv(q), LeftAlone(q),
         \A i \in DOMAIN Languages : Severs(<<q, Languages[i]>>)
  PROVE  ProcInv(q)'
  <1>1. PlacePart(q)'
    BY DEF LeftAlone, ProcInv, PlacePart, IsQuestion
  <1>2. OwnPart(q)'
    BY DEF LeftAlone, ProcInv, OwnPart
  <1>3. LearntPart(q)'
    BY DEF LeftAlone, ProcInv, LearntPart
  <1>4. \A i \in DOMAIN Languages : IsConnection(<<q, Languages[i]>>)
    BY KeysOf DEF TypeInv
  <1>5. ConnPart(q)'
    <2>1. ASSUME NEW i \in DOMAIN Languages,
                 i > at[q] \/ (i = at[q] /\ pc[q] \notin {"ask", "reply", "shutdown"})
          PROVE  conn'[<<q, Languages[i]>>] = Closed
      BY <1>4, <2>1, SeveredFields DEF ProcInv, ConnPart
    <2>2. ASSUME pc[q] \in {"ask", "reply"}
          PROVE  /\ conn'[Key(q)].sent = conn[Key(q)].sent
                 /\ conn'[Key(q)].answers = conn[Key(q)].answers
                 /\ conn'[Key(q)].to \in {conn[Key(q)].to, None}
      <3>1. at[q] <= Len(Languages)
        BY <2>2 DEF ProcInv, PlacePart
      <3>2. Severs(Key(q)) /\ IsConnection(Key(q))
        BY <1>4, <3>1, KeyIn DEF Key, Language
      <3> QED BY <3>2, SeveredFields
    <2>3. Key(q)' = Key(q) /\ Request(q)' = Request(q) /\ Asked(q)' = Asked(q)
      BY DEF LeftAlone, Key, Language, Request, Asked
    <2>4. (pc[q] = "ask" /\ ~ tardy[q] => Quiet(Key(q)) \/ conn[Key(q)].to = None)'
      BY <2>2, <2>3 DEF LeftAlone, ProcInv, ConnPart, Quiet
    <2>5. ASSUME pc[q] = "reply", ~ tardy[q]
          PROVE  \/ conn'[Key(q)].sent \in {<<>>, <<Request(q)>>} /\ conn'[Key(q)].answers = <<>>
                 \/ /\ conn'[Key(q)].sent = <<>>
                    /\ \E a : conn'[Key(q)].answers = <<a>> /\ IsReplyTo(a, Asked(q))
      BY <2>2, <2>5 DEF ProcInv, ConnPart
    <2> QED BY <2>1, <2>3, <2>4, <2>5 DEF LeftAlone, ConnPart, IsReplyTo
  <1> QED BY <1>1, <1>2, <1>3, <1>5 DEF ProcInv

-----------------------------------------------------------------------------
(* Each step keeps the invariant *)

LEMMA InitInv == Init => Inv
  <1> SUFFICES ASSUME Init PROVE Inv
    OBVIOUS
  <1> USE DEF Init
  <1>1. TypeInv
    <2>1. /\ conn = [k \in Keys |-> conn[k]] /\ \A k \in Keys : IsConnection(k)
      BY DEF IsConnection, Closed
    <2>2. ASSUME NEW d \in Keys PROVE IsDaemon(d)
      <3>1. daemon[d] = Off
        OBVIOUS
      <3>2. /\ Off.servers = [l \in ToSet(Languages) |-> NoServer] /\ Off.serving = None
            /\ Off.backlog = <<>>
            /\ Off = [up |-> Off.up, servers |-> Off.servers,
                      serving |-> Off.serving, backlog |-> Off.backlog]
        BY DEF Off
      <3>3. \A l \in ToSet(Languages) : IsClient(Off.servers[l]) /\ Off.servers[l] = NoServer
        BY <3>2, NewClientIsClient
      <3>4. Off.servers = [l \in ToSet(Languages) |-> Off.servers[l]]
        BY <3>2
      <3>5. <<>> \in Seq(Keys)
        OBVIOUS
      <3> QED BY <3>1, <3>2, <3>3, <3>4, <3>5 DEF IsDaemon
    <2>3. Len(Languages) \in Nat
      BY LspAssumption DEF LspAssumption
    <2> QED BY <2>1, <2>2, <2>3 DEF TypeInv, Places, Looking
  <1>2. ASSUME NEW p \in Procs PROVE ProcInv(p)
    <2>1. IsSequence(FirstGraph)
      BY LspAssumption DEF LspAssumption, IsSequence
    <2>2. \A i \in DOMAIN Languages : conn[<<p, Languages[i]>>] = Closed
      BY KeysOf
    <2> QED BY <2>1, <2>2 DEF ProcInv, PlacePart, OwnPart, ConnPart, LearntPart
  <1> QED BY <1>1, <1>2 DEF Inv

\* What a step of one process has to show.
LEMMA OneProcess ==
  ASSUME Inv, NEW p \in Procs, TypeInv', ProcInv(p)',
         \A q \in Procs \ {p} : LeftAlone(q),
         \A q \in Procs \ {p} : \A i \in DOMAIN Languages : Severs(<<q, Languages[i]>>)
  PROVE  Inv'
  BY Frame DEF Inv

LEMMA ExtractInv == ASSUME Inv, NEW p \in Procs, Extract(p) PROVE Inv'
  <1> USE DEF Extract, daemons, bounds, Goto
  <1>1. TypeInv'
    BY DEF Inv, TypeInv, IsDaemon, IsConnection, Places, Looking
  <1>2. ProcInv(p)'
    <2>1. ProcInv(p) /\ pc'[p] = "language" /\ at'[p] = at[p] /\ tardy'[p] = tardy[p]
      BY DEF Inv, TypeInv
    <2> QED BY <2>1 DEF ProcInv, PlacePart, OwnPart, ConnPart, LearntPart
  <1>3. \A q \in Procs \ {p} : LeftAlone(q)
    BY DEF Inv, TypeInv, LeftAlone
  <1>4. \A q \in Procs \ {p} : \A i \in DOMAIN Languages : Severs(<<q, Languages[i]>>)
    BY DEF Severs
  <1> QED BY <1>1, <1>2, <1>3, <1>4, OneProcess

LEMMA TryLanguageInv == ASSUME Inv, NEW p \in Procs, TryLanguage(p) PROVE Inv'
  <1> USE DEF TryLanguage, daemons, files, work, bounds, Goto, NextLanguage
  <1>0. Len(Languages) \in Nat
    BY LspAssumption DEF LspAssumption
  <1>1. TypeInv'
    <2>1. at' \in [Procs -> 1..(Len(Languages) + 1)]
      <3>1. at[p] + 1 \in 1..(Len(Languages) + 1)
        BY <1>0 DEF Inv, TypeInv
      <3>2. at' = at \/ at' = [at EXCEPT ![p] = at[p] + 1]
        OBVIOUS
      <3> QED BY <3>1, <3>2 DEF Inv, TypeInv
    <2>3. pc' \in [Procs -> Places]
      <3>1. \E label \in {"language", "provider"} : pc' = [pc EXCEPT ![p] = label]
        OBVIOUS
      <3>2. {"language", "provider"} \subseteq Places
        BY DEF Places, Looking
      <3> QED BY <3>1, <3>2 DEF Inv, TypeInv
    <2>2. TypeInv
      BY DEF Inv
    <2> QED BY <2>1, <2>2, <2>3 DEF TypeInv, IsDaemon, IsConnection
  <1>2. ProcInv(p)'
    <2>1. /\ ProcInv(p) /\ pc'[p] \in {"language", "provider"}
          /\ at'[p] \in {at[p], at[p] + 1} /\ at[p] \in Nat /\ at[p] <= Len(Languages)
          /\ (pc'[p] = "provider" => at'[p] = at[p])
      BY DEF Inv, TypeInv
    <2>2. ConnPart(p)'
      BY <2>1, KeysOf DEF ProcInv, ConnPart
    <2> QED BY <2>1, <2>2 DEF ProcInv, PlacePart, OwnPart, LearntPart
  <1>3. \A q \in Procs \ {p} : LeftAlone(q)
    BY DEF Inv, TypeInv, LeftAlone
  <1>4. \A q \in Procs \ {p} : \A i \in DOMAIN Languages : Severs(<<q, Languages[i]>>)
    BY DEF Severs
  <1> QED BY <1>1, <1>2, <1>3, <1>4, OneProcess

LEMMA FindDaemonInv == ASSUME Inv, NEW p \in Procs, FindDaemon(p) \/ LookAgain(p) PROVE Inv'
  <1> USE DEF FindDaemon, LookAgain, daemons, work, bounds, Goto, IsDaemonRunning
  <1>0. \E label \in Looking : pc' = [pc EXCEPT ![p] = label]
    BY DEF Looking
  <1>1. TypeInv'
    <2>1. TypeInv
      BY DEF Inv
    <2>2. pc' \in [Procs -> Places]
      BY <1>0, <2>1 DEF TypeInv, Places
    <2>3. /\ socket' \in Keys \cup {None}
          /\ UNCHANGED <<daemon, conn, at, graph, read, calls, pass, todo, learnt, own, tardy>>
      BY <2>1 DEF TypeInv
    <2> HIDE DEF FindDaemon, LookAgain
    <2> QED BY <2>1, <2>2, <2>3 DEF TypeInv, IsDaemon, IsConnection
  <1>2. ProcInv(p)'
    <2>1. /\ ProcInv(p) /\ pc'[p] \in Looking /\ at'[p] = at[p] /\ pc[p] \in Looking
      BY DEF Inv, TypeInv, Looking
    <2> QED BY <2>1 DEF Looking, ProcInv, PlacePart, OwnPart, ConnPart, LearntPart
  <1>3. \A q \in Procs \ {p} : LeftAlone(q)
    BY DEF Inv, TypeInv, LeftAlone
  <1>4. \A q \in Procs \ {p} : \A i \in DOMAIN Languages : Severs(<<q, Languages[i]>>)
    BY DEF Severs
  <1> QED BY <1>1, <1>2, <1>3, <1>4, OneProcess

LEMMA EnsureDaemonInv == ASSUME Inv, NEW p \in Procs, EnsureDaemon(p) PROVE Inv'
  <1> USE DEF EnsureDaemon, files, work, bounds, Goto
  <1>0. /\ ProcInv(p) /\ pc[p] = "spawn" /\ pc'[p] = "start" /\ at'[p] = at[p]
        /\ Key(p) \in Keys
    BY KeyIn DEF Inv, TypeInv, ProcInv, PlacePart
  <1>1. TypeInv'
    <2>1. ASSUME NEW d \in Keys PROVE IsDaemon(d)'
      <3>1. IsDaemon(d)
        BY DEF Inv, TypeInv
      <3>2. CASE daemon'[d] = daemon[d]
        BY <3>1, <3>2 DEF IsDaemon
      <3>3. CASE daemon'[d] = [daemon[d] EXCEPT !.up = "starting"]
        <4>1. daemon'[d] = [up |-> "starting", servers |-> daemon[d].servers,
                            serving |-> daemon[d].serving, backlog |-> daemon[d].backlog]
          BY <3>1, <3>3 DEF IsDaemon
        <4> QED BY <3>1, <4>1 DEF IsDaemon
      <3> QED BY <1>0, <3>2, <3>3 DEF Inv, TypeInv
    <2>2. daemon' = [d \in Keys |-> daemon'[d]]
      BY <1>0 DEF Inv, TypeInv
    <2> QED BY <2>1, <2>2 DEF Inv, TypeInv, IsConnection, Places, Looking
  <1>2. ProcInv(p)'
    BY <1>0 DEF ProcInv, PlacePart, OwnPart, ConnPart, LearntPart
  <1>3. \A q \in Procs \ {p} : LeftAlone(q)
    BY DEF Inv, TypeInv, LeftAlone
  <1>4. \A q \in Procs \ {p} : \A i \in DOMAIN Languages : Severs(<<q, Languages[i]>>)
    BY DEF Severs
  <1> QED BY <1>1, <1>2, <1>3, <1>4, OneProcess

LEMMA EnterIs ==
  ASSUME TypeInv, NEW p \in Procs, NEW stage \in Stages \cup {"shutdown"},
         NEW g, IsSequence(g), Enter(p, stage, g), calls' = calls
  PROVE  /\ pc'[p] = (IF stage = "shutdown" THEN stage ELSE "ask")
         /\ pass'[p] = stage /\ learnt'[p] = {}
         /\ stage # "shutdown" =>
              IsSequence(todo'[p]) /\ \A j \in DOMAIN todo'[p] : IsQuestion(p, todo[p][j])'
         /\ stage = "open" => todo'[p] # <<>>
         /\ \A q \in Procs \ {p} : pc'[q] = pc[q] /\ pass'[q] = pass[q]
                                    /\ todo'[q] = todo[q] /\ learnt'[q] = learnt[q]
         /\ pc' \in [Procs -> Places]
         /\ pass' = [q \in Procs |-> pass'[q]] /\ todo' = [q \in Procs |-> todo'[q]]
         /\ learnt' = [q \in Procs |-> learnt'[q]]
  <1> USE DEF Enter, Goto
  <1>1. /\ pc'[p] = (IF stage = "shutdown" THEN stage ELSE "ask")
        /\ pass'[p] = stage /\ learnt'[p] = {}
        /\ stage # "shutdown" => todo'[p] = Questions(p, stage, g)
    BY DEF TypeInv
  <1>2. /\ \A q \in Procs \ {p} : pc'[q] = pc[q] /\ pass'[q] = pass[q]
                                   /\ todo'[q] = todo[q] /\ learnt'[q] = learnt[q]
        /\ pc' \in [Procs -> Places]
        /\ pass' = [q \in Procs |-> pass'[q]] /\ todo' = [q \in Procs |-> todo'[q]]
        /\ learnt' = [q \in Procs |-> learnt'[q]]
    BY DEF TypeInv, Places, Looking
  <1> HIDE DEF Enter, Goto
  <1>3. stage # "shutdown" =>
          IsSequence(todo'[p]) /\ \A j \in DOMAIN todo'[p] : IsQuestion(p, todo[p][j])'
    <2> SUFFICES ASSUME stage # "shutdown"
                 PROVE  IsSequence(todo'[p]) /\ \A j \in DOMAIN todo'[p] : IsQuestion(p, todo[p][j])'
      OBVIOUS
    <2> DEFINE t == Questions(p, stage, g)
    <2>1. /\ IsSequence(t)
          /\ \A j \in DOMAIN t :
               /\ t[j].kind = stage
               /\ stage \in {"references", "implementations"} => t[j].about \in Functions
               /\ stage = "definition" => t[j].at \in calls[p]
      BY QuestionsAre
    <2>2. todo'[p] = t /\ pass'[p] = stage
      BY <1>1
    <2> HIDE DEF t
    <2> QED BY <2>1, <2>2 DEF IsQuestion
  <1>4. stage = "open" => todo'[p] # <<>>
    BY <1>1 DEF Questions
  <1> QED BY <1>1, <1>2, <1>3, <1>4

LEMMA SharedUnchanged ==
  ASSUME TypeInv, UNCHANGED <<socket, daemon, conn>>
  PROVE  /\ socket' \in Keys \cup {None}
         /\ daemon' = [d \in Keys |-> daemon'[d]] /\ (\A d \in Keys : IsDaemon(d)')
         /\ conn' = [k \in Keys |-> conn'[k]] /\ (\A k \in Keys : IsConnection(k)')
  BY DEF TypeInv, IsDaemon, IsConnection

LEMMA ConnectInv == ASSUME Inv, NEW p \in Procs, Connect(p) PROVE Inv'
  <1> USE DEF Connect
  <1>0. TypeInv /\ ProcInv(p) /\ pc[p] = "connect" /\ Key(p) \in Keys /\ IsSequence(graph[p])
    BY KeyIn DEF Inv, TypeInv, ProcInv, PlacePart
  <1>1. CASE ~ Alive(socket)
    <2> USE <1>1 DEF files, daemons, Goto
    <2>1. TypeInv'
      <3>1. pc' \in [Procs -> Places]
        BY <1>0 DEF TypeInv, Places, Looking
      <3>2. UNCHANGED <<socket, daemon, conn, at, graph, read, calls, pass, todo, learnt, own, tardy>>
        OBVIOUS
      <3> HIDE DEF Connect
      <3> QED BY <1>0, <3>1, <3>2, SharedUnchanged DEF TypeInv
    <2>2. pc'[p] = "start" /\ at'[p] = at[p]
      BY <1>0 DEF TypeInv
    <2>3. ProcInv(p)'
      BY <1>0, <2>2 DEF ProcInv, PlacePart, OwnPart, ConnPart, LearntPart
    <2>4. \A q \in Procs \ {p} : LeftAlone(q)
      BY <1>0 DEF TypeInv, LeftAlone
    <2>5. \A q \in Procs \ {p} : \A i \in DOMAIN Languages : Severs(<<q, Languages[i]>>)
      BY DEF Severs
    <2> QED BY <2>1, <2>3, <2>4, <2>5, OneProcess
  <1>2. CASE Alive(socket)
    <2> DEFINE new == [Closed EXCEPT !.to = socket, !.open = TRUE]
    <2>0. socket \in Keys
      BY <1>0, <1>2 DEF Alive, TypeInv
    <2>1. new \in [to : {socket}, open : {TRUE}, sent : {<<>>}, answers : {<<>>}]
      BY DEF Closed
    <2>2. Enter(p, "open", graph[p]) /\ calls' = calls /\ graph' = graph
      BY <1>2
    <2>3. /\ pc'[p] = "ask" /\ pass'[p] = "open" /\ learnt'[p] = {}
          /\ IsSequence(todo'[p]) /\ (\A j \in DOMAIN todo'[p] : IsQuestion(p, todo[p][j])')
          /\ \A q \in Procs \ {p} : pc'[q] = pc[q] /\ pass'[q] = pass[q]
                                     /\ todo'[q] = todo[q] /\ learnt'[q] = learnt[q]
          /\ pc' \in [Procs -> Places]
          /\ pass' = [q \in Procs |-> pass'[q]] /\ todo' = [q \in Procs |-> todo'[q]]
          /\ learnt' = [q \in Procs |-> learnt'[q]]
      BY <1>0, <2>2, EnterIs DEF Stages
    <2>4. conn' = [conn EXCEPT ![Key(p)] = new]
      BY <1>2
    <2> HIDE DEF new
    <2>5. /\ conn'[Key(p)] = new /\ (\A k \in Keys \ {Key(p)} : conn'[k] = conn[k])
          /\ conn' = [k \in Keys |-> conn'[k]]
      BY <1>0, <2>4 DEF TypeInv
    <2>6. own'[p] = None /\ own' = [q \in Procs |-> own'[q]] /\ \A q \in Procs \ {p} : own'[q] = own[q]
      BY <1>0, <1>2 DEF TypeInv
    <2>7. tardy' \in [Procs -> BOOLEAN] /\ ~ tardy'[p] /\ \A q \in Procs \ {p} : tardy'[q] = tardy[q]
      BY <1>0, <1>2 DEF TypeInv
    <2>8. (\A d \in Keys : IsDaemon(d)') /\ daemon' = [d \in Keys |-> daemon'[d]]
      <3>1. daemon' = [daemon EXCEPT ![socket].backlog = Append(daemon[socket].backlog, Key(p))]
        BY <1>2
      <3>2. daemon' = [d \in Keys |-> daemon'[d]]
        BY <1>0, <3>1 DEF TypeInv
      <3>3. ASSUME NEW d \in Keys PROVE IsDaemon(d)'
        <4>1. IsDaemon(d)
          BY <1>0 DEF TypeInv
        <4>2. CASE d # socket
          BY <1>0, <3>1, <4>1, <4>2 DEF TypeInv, IsDaemon
        <4>3. CASE d = socket
          <5>1. daemon'[d] = [daemon[d] EXCEPT !.backlog = Append(daemon[d].backlog, Key(p))]
            BY <1>0, <3>1, <4>3 DEF TypeInv
          <5>2. daemon'[d] = [up |-> daemon[d].up, servers |-> daemon[d].servers,
                   serving |-> daemon[d].serving, backlog |-> Append(daemon[d].backlog, Key(p))]
            BY <4>1, <5>1 DEF IsDaemon
          <5>3. Append(daemon[d].backlog, Key(p)) \in Seq(Keys)
            BY <1>0, <4>1 DEF IsDaemon
          <5> QED BY <4>1, <5>2, <5>3 DEF IsDaemon
        <4> QED BY <4>2, <4>3
      <3> QED BY <3>2, <3>3
    <2>9. \A k \in Keys : IsConnection(k)'
      BY <1>0, <2>1, <2>5 DEF TypeInv, IsConnection
    <2>10. /\ socket' = socket /\ at' = at /\ read' = read /\ graph' = graph /\ calls' = calls
      BY <1>2 DEF files
    <2>11. TypeInv'
      BY <1>0, <2>3, <2>5, <2>6, <2>7, <2>8, <2>9, <2>10 DEF TypeInv
    <2>12. Key(p)' = Key(p)
      BY <2>10 DEF Key, Language
    <2>13. ConnPart(p)'
      <3>1. ASSUME NEW i \in DOMAIN Languages, i > at[p] PROVE conn'[<<p, Languages[i]>>] = Closed
        <4>1. at[p] \in DOMAIN Languages /\ at[p] \in Nat /\ i \in Nat
          BY <1>0, <3>1, KeysOf DEF TypeInv
        <4>2. Languages[i] # Languages[at[p]]
          BY <3>1, <4>1, LspAssumption DEF LspAssumption, IsInjective
        <4>3. <<p, Languages[i]>> # Key(p) /\ <<p, Languages[i]>> \in Keys
          BY <4>2, KeysOf DEF Key, Language
        <4> QED BY <1>0, <2>5, <3>1, <4>3 DEF ProcInv, ConnPart
      <3>2. Quiet(Key(p))'
        BY <2>1, <2>5, <2>12 DEF Quiet
      <3> QED BY <2>3, <2>10, <2>12, <3>1, <3>2 DEF ConnPart
    <2>14. ProcInv(p)'
      <3>1. PlacePart(p)'
        BY <1>0, <2>3, <2>10 DEF ProcInv, PlacePart, Stages
      <3>2. OwnPart(p)' /\ LearntPart(p)'
        BY <2>3, <2>6 DEF OwnPart, LearntPart
      <3> QED BY <2>13, <3>1, <3>2 DEF ProcInv
    <2>15. \A q \in Procs \ {p} : LeftAlone(q)
      BY <2>3, <2>6, <2>7, <2>10 DEF LeftAlone
    <2>16. \A q \in Procs \ {p} : \A i \in DOMAIN Languages : Severs(<<q, Languages[i]>>)
      BY <2>5, KeysOf DEF Severs, Key
    <2> QED BY <2>11, <2>14, <2>15, <2>16, OneProcess
  <1> QED BY <1>1, <1>2

LEMMA StartServerInv == ASSUME Inv, NEW p \in Procs, StartServer(p) PROVE Inv'
  <1> USE DEF StartServer
  <1>0. /\ TypeInv /\ ProcInv(p) /\ pc[p] = "start" /\ Key(p) \in Keys /\ IsSequence(graph[p])
        /\ at[p] <= Len(Languages) /\ at[p] \in DOMAIN Languages /\ own[p] = None
        /\ Len(Languages) \in Nat
    BY KeyIn, KeysOf DEF Inv, TypeInv, ProcInv, PlacePart
  <1>1. UNCHANGED <<socket, daemon, conn, graph, read, calls, tardy>>
    BY DEF files, daemons, bounds
  <1>2. \A q \in Procs \ {p} : \A i \in DOMAIN Languages : Severs(<<q, Languages[i]>>)
    BY <1>1 DEF Severs
  <1>3. ASSUME own' = [own EXCEPT ![p] = NewClient], Enter(p, "open", graph[p]), at' = at
        PROVE  Inv'
    <2> HIDE DEF StartServer
    <2>1. /\ pc'[p] = "ask" /\ pass'[p] = "open" /\ learnt'[p] = {} /\ todo'[p] # <<>>
          /\ IsSequence(todo'[p]) /\ (\A j \in DOMAIN todo'[p] : IsQuestion(p, todo[p][j])')
          /\ \A q \in Procs \ {p} : pc'[q] = pc[q] /\ pass'[q] = pass[q]
                                     /\ todo'[q] = todo[q] /\ learnt'[q] = learnt[q]
          /\ pc' \in [Procs -> Places]
          /\ pass' = [q \in Procs |-> pass'[q]] /\ todo' = [q \in Procs |-> todo'[q]]
          /\ learnt' = [q \in Procs |-> learnt'[q]]
      BY <1>0, <1>1, <1>3, EnterIs DEF Stages
    <2>2. own'[p] = NewClient /\ own' = [q \in Procs |-> own'[q]] /\ \A q \in Procs \ {p} : own'[q] = own[q]
      BY <1>0, <1>3 DEF TypeInv
    <2>3. TypeInv'
      BY <1>0, <1>1, <1>3, <2>1, <2>2, SharedUnchanged DEF TypeInv
    <2>4. PlacePart(p)'
      BY <1>0, <1>1, <1>3, <2>1 DEF ProcInv, PlacePart, Stages
    <2>5. OwnPart(p)' /\ LearntPart(p)'
      BY <2>1, <2>2, NewClientIsClient DEF OwnPart, LearntPart
    <2>6. ConnPart(p)'
      <3>1. conn[Key(p)] = Closed
        BY <1>0 DEF ProcInv, ConnPart, Key, Language
      <3>2. Key(p)' = Key(p)
        BY <1>3 DEF Key, Language
      <3>3. Quiet(Key(p))'
        BY <1>1, <3>1, <3>2 DEF Quiet, Closed
      <3> QED BY <1>0, <1>1, <1>3, <2>1, <3>2, <3>3 DEF ProcInv, ConnPart
    <2>7. \A q \in Procs \ {p} : LeftAlone(q)
      BY <1>1, <1>3, <2>1, <2>2 DEF LeftAlone
    <2> QED BY <1>2, <2>3, <2>4, <2>5, <2>6, <2>7, OneProcess DEF ProcInv
  <1>4. ASSUME NextLanguage(p), UNCHANGED <<own, pass, todo, learnt>> PROVE Inv'
    <2> HIDE DEF StartServer
    <2>1. /\ pc' = [pc EXCEPT ![p] = "language"] /\ at' = [at EXCEPT ![p] = at[p] + 1]
      BY <1>4 DEF NextLanguage, Goto
    <2>2. /\ pc'[p] = "language" /\ pc' \in [Procs -> Places]
          /\ \A q \in Procs \ {p} : pc'[q] = pc[q] /\ at'[q] = at[q]
          /\ at'[p] = at[p] + 1
      BY <1>0, <2>1 DEF TypeInv, Places, Looking
    <2>3. at[p] \in Nat /\ at' \in [Procs -> 1..(Len(Languages) + 1)]
      <3>1. at[p] + 1 \in 1..(Len(Languages) + 1) /\ at[p] \in Nat
        BY <1>0 DEF TypeInv
      <3> QED BY <1>0, <2>1, <3>1 DEF TypeInv
    <2>4. TypeInv'
      BY <1>0, <1>1, <1>4, <2>2, <2>3, SharedUnchanged DEF TypeInv
    <2>5. ConnPart(p)'
      BY <1>0, <1>1, <2>2, <2>3, KeysOf DEF ProcInv, ConnPart
    <2>6. ProcInv(p)'
      BY <1>0, <1>1, <1>4, <2>2, <2>5 DEF ProcInv, PlacePart, OwnPart, LearntPart
    <2>7. \A q \in Procs \ {p} : LeftAlone(q)
      BY <1>1, <1>4, <2>2 DEF LeftAlone
    <2> QED BY <1>2, <2>4, <2>6, <2>7, OneProcess
  <1> QED BY <1>3, <1>4

\* A question that was the first to be asked and the ones behind it.
LEMMA Asking ==
  ASSUME TypeInv, NEW p \in Procs, PlacePart(p), pc[p] \in {"ask", "reply"}, todo[p] # <<>>
  PROVE  /\ IsQuestion(p, Asked(p)) /\ IsSequence(Tail(todo[p]))
         /\ \A j \in DOMAIN Tail(todo[p]) : IsQuestion(p, Tail(todo[p])[j])
         /\ Proceed(p) => /\ todo'[p] = Tail(todo[p]) /\ todo' = [q \in Procs |-> todo'[q]]
                          /\ \A q \in Procs \ {p} : todo'[q] = todo[q]
  <1>1. IsSequence(todo[p]) /\ \A j \in DOMAIN todo[p] : IsQuestion(p, todo[p][j])
    BY DEF PlacePart
  <1>2. /\ IsSequence(Tail(todo[p])) /\ Head(todo[p]) = todo[p][1] /\ 1 \in DOMAIN todo[p]
        /\ \A i \in DOMAIN Tail(todo[p]) : i + 1 \in DOMAIN todo[p] /\ Tail(todo[p])[i] = todo[p][i + 1]
    BY <1>1, SequenceTail
  <1>3. Proceed(p) => /\ todo'[p] = Tail(todo[p]) /\ todo' = [q \in Procs |-> todo'[q]]
                     /\ \A q \in Procs \ {p} : todo'[q] = todo[q]
    BY DEF Proceed, TypeInv
  <1> QED BY <1>1, <1>2, <1>3 DEF Asked

LEMMA LearnIs ==
  ASSUME TypeInv, NEW p \in Procs, NEW answer, Learn(p, answer)
  PROVE  /\ learnt'[p] = learnt[p] \cup {[question |-> Asked(p), answer |-> answer]}
         /\ learnt' = [q \in Procs |-> learnt'[q]]
         /\ \A q \in Procs \ {p} : learnt'[q] = learnt[q]
  BY DEF Learn, TypeInv

LEMMA AskInv == ASSUME Inv, NEW p \in Procs, Ask(p) PROVE Inv'
  <1>0. /\ TypeInv /\ ProcInv(p) /\ pc[p] = "ask" /\ todo[p] # <<>> /\ own[p] # None
        /\ Proceed(p) /\ (AskOpen(p) \/ AskServer(p))
        /\ UNCHANGED <<socket, daemon, conn, pc, at, graph, read, calls, pass, tardy>>
    BY DEF Ask, Inv, files, daemons
  <1>1. /\ IsQuestion(p, Asked(p)) /\ IsSequence(todo'[p])
        /\ (\A j \in DOMAIN todo'[p] : IsQuestion(p, todo'[p][j]))
        /\ todo' = [q \in Procs |-> todo'[q]]
        /\ \A q \in Procs \ {p} : todo'[q] = todo[q]
    BY <1>0, Asking DEF ProcInv
  <1>2. IsClient(own[p])
    BY <1>0 DEF ProcInv, OwnPart
  <1>3. /\ IsClient(own'[p]) /\ own'[p].opened = read[p]
        /\ own' = [q \in Procs |-> own'[q]] /\ (\A q \in Procs \ {p} : own'[q] = own[q])
        /\ learnt' = [q \in Procs |-> learnt'[q]] /\ (\A q \in Procs \ {p} : learnt'[q] = learnt[q])
        /\ \A e \in learnt'[p] \ learnt[p] :
             e.question = Asked(p) /\ e.answer.question = Asked(p) /\ e.answer.version = read[p]
    <2>1. CASE AskOpen(p)
      <3>1. PICK c \in Progressed(OpenFile(own[p], read[p])) : own' = [own EXCEPT ![p] = c]
        BY <2>1 DEF AskOpen
      <3>2. IsClient(c) /\ c.opened = IF own[p].opened = NoVersion THEN read[p] ELSE own[p].opened
        BY <1>2, OpenFileIsClient, ProgressedIsClient
      <3>3. own[p].opened \in {read[p], NoVersion}
        BY <1>0 DEF ProcInv, OwnPart
      <3>4. learnt' = learnt
        BY <2>1 DEF AskOpen
      <3> QED BY <1>0, <3>1, <3>2, <3>3, <3>4 DEF TypeInv
    <2>2. CASE AskServer(p)
      <3>1. own[p].opened = read[p]
        BY <1>0, <1>1, <2>2 DEF AskServer, ProcInv, OwnPart, IsQuestion
      <3>2. PICK c \in Progressed(own[p]) :
              LET r == Requested(c, Asked(p))
              IN \/ own' = [own EXCEPT ![p] = Answered(r)] /\ Learn(p, Answer(r))
                 \/ own' = [own EXCEPT ![p] = r] /\ UNCHANGED learnt
        BY <2>2 DEF AskServer
      <3> DEFINE r == Requested(c, Asked(p))
      <3>3. IsClient(c) /\ c.opened = read[p]
        BY <1>2, <3>1, ProgressedIsClient
      <3>4. /\ Answer(r).question = Asked(p) /\ Answer(r).version = read[p]
            /\ IsClient(r) /\ r.opened = read[p]
            /\ IsClient(Answered(r)) /\ Answered(r).opened = read[p]
        BY <3>3, RequestedIsAnswered
      <3>5. \/ own' = [own EXCEPT ![p] = Answered(r)] /\ Learn(p, Answer(r))
            \/ own' = [own EXCEPT ![p] = r] /\ UNCHANGED learnt
        BY <3>2
      <3> HIDE DEF r
      <3>6. CASE own' = [own EXCEPT ![p] = Answered(r)] /\ Learn(p, Answer(r))
        <4>1. /\ IsClient(own'[p]) /\ own'[p].opened = read[p]
              /\ own' = [q \in Procs |-> own'[q]] /\ (\A q \in Procs \ {p} : own'[q] = own[q])
          BY <1>0, <3>4, <3>6 DEF TypeInv
        <4>2. /\ learnt'[p] = learnt[p] \cup {[question |-> Asked(p), answer |-> Answer(r)]}
              /\ learnt' = [q \in Procs |-> learnt'[q]]
              /\ \A q \in Procs \ {p} : learnt'[q] = learnt[q]
          BY <1>0, <3>6, LearnIs
        <4>3. \A e \in learnt'[p] \ learnt[p] : e = [question |-> Asked(p), answer |-> Answer(r)]
          BY <4>2
        <4>4. \A e \in learnt'[p] \ learnt[p] :
                e.question = Asked(p) /\ e.answer.question = Asked(p) /\ e.answer.version = read[p]
          BY <3>4, <4>3
        <4> QED BY <4>1, <4>2, <4>4
      <3>7. CASE own' = [own EXCEPT ![p] = r] /\ UNCHANGED learnt
        BY <1>0, <3>4, <3>7 DEF TypeInv
      <3> QED BY <3>5, <3>6, <3>7
    <2> QED BY <1>0, <2>1, <2>2
  <1>4. TypeInv'
    BY <1>0, <1>1, <1>3, SharedUnchanged DEF TypeInv
  <1>5. PlacePart(p)'
    BY <1>0, <1>1, <1>3 DEF ProcInv, PlacePart, IsQuestion
  <1>6. OwnPart(p)'
    BY <1>0, <1>3 DEF OwnPart
  <1>7. LearntPart(p)'
    BY <1>0, <1>3 DEF ProcInv, LearntPart
  <1>8. ConnPart(p)'
    BY <1>0 DEF ProcInv, ConnPart, Quiet, Key, Language
  <1>9. \A q \in Procs \ {p} : LeftAlone(q)
    BY <1>0, <1>1, <1>3 DEF LeftAlone
  <1>10. \A q \in Procs \ {p} : \A i \in DOMAIN Languages : Severs(<<q, Languages[i]>>)
    BY <1>0 DEF Severs
  <1> QED BY <1>4, <1>5, <1>6, <1>7, <1>8, <1>9, <1>10, OneProcess DEF ProcInv

\* A change of the process's own connection.
LEMMA ConnectionIs ==
  ASSUME TypeInv, NEW k \in Keys, NEW accepted, NEW sent, NEW answers,
         conn' = [conn EXCEPT ![k] = [to |-> conn[k].to, open |-> accepted,
                                      sent |-> sent, answers |-> answers]]
  PROVE  /\ conn'[k].to = conn[k].to /\ conn'[k].open = accepted
         /\ conn'[k].sent = sent /\ conn'[k].answers = answers
         /\ \A l \in Keys \ {k} : conn'[l] = conn[l]
         /\ conn' = [l \in Keys |-> conn'[l]] /\ \A l \in Keys : IsConnection(l)'
  <1>1. /\ conn'[k] = [to |-> conn[k].to, open |-> accepted, sent |-> sent, answers |-> answers]
        /\ \A l \in Keys \ {k} : conn'[l] = conn[l]
        /\ conn' = [l \in Keys |-> conn'[l]]
    BY DEF TypeInv
  <1>2. \A l \in Keys : IsConnection(l)
    BY DEF TypeInv
  <1>3. IsConnection(k)'
    BY <1>1 DEF IsConnection
  <1>4. \A l \in Keys \ {k} : IsConnection(l)'
    BY <1>1, <1>2 DEF IsConnection
  <1> QED BY <1>1, <1>3, <1>4

\* No other connection of this process and none of another changes.
LEMMA OnlyKey ==
  ASSUME TypeInv, NEW p \in Procs, at[p] \in DOMAIN Languages, ConnPart(p),
         \A l \in Keys \ {Key(p)} : conn'[l] = conn[l]
  PROVE  /\ \A i \in DOMAIN Languages : i > at[p] => conn'[<<p, Languages[i]>>] = Closed
         /\ \A q \in Procs \ {p} : \A i \in DOMAIN Languages : Severs(<<q, Languages[i]>>)
  <1>1. ASSUME NEW i \in DOMAIN Languages, i > at[p] PROVE conn'[<<p, Languages[i]>>] = Closed
    <2>1. at[p] \in Nat /\ i \in Nat
      BY KeysOf DEF TypeInv
    <2>2. Languages[i] # Languages[at[p]]
      BY <1>1, <2>1, LspAssumption DEF LspAssumption, IsInjective
    <2>3. <<p, Languages[i]>> # Key(p) /\ <<p, Languages[i]>> \in Keys
      BY <2>2, KeysOf DEF Key, Language
    <2> QED BY <1>1, <2>3 DEF ConnPart
  <1>2. \A q \in Procs \ {p} : \A i \in DOMAIN Languages : Severs(<<q, Languages[i]>>)
    BY KeysOf DEF Severs, Key
  <1> QED BY <1>1, <1>2

LEMMA SendInv == ASSUME Inv, NEW p \in Procs, Send(p) PROVE Inv'
  <1>0. /\ TypeInv /\ ProcInv(p) /\ pc[p] = "ask" /\ todo[p] # <<>> /\ own[p] = None
        /\ Key(p) \in Keys /\ at[p] \in DOMAIN Languages /\ at[p] <= Len(Languages)
        /\ UNCHANGED <<socket, daemon, at, graph, read, calls, pass, learnt, own, tardy>>
    BY KeyIn DEF Send, Inv, ProcInv, PlacePart, files, bounds
  <1>1. CASE Lost(p)
    <2>1. Proceed(p) /\ UNCHANGED <<pc, conn>>
      BY <1>1 DEF Send
    <2>2. /\ IsSequence(todo'[p]) /\ (\A j \in DOMAIN todo'[p] : IsQuestion(p, todo'[p][j]))
          /\ todo' = [q \in Procs |-> todo'[q]]
          /\ \A q \in Procs \ {p} : todo'[q] = todo[q]
      BY <1>0, <2>1, Asking DEF ProcInv
    <2>3. TypeInv'
      BY <1>0, <2>1, <2>2, SharedUnchanged DEF TypeInv
    <2>4. PlacePart(p)'
      BY <1>0, <2>1, <2>2 DEF ProcInv, PlacePart, IsQuestion
    <2>5. OwnPart(p)' /\ LearntPart(p)'
      BY <1>0, <2>1 DEF ProcInv, OwnPart, LearntPart
    <2>6. ConnPart(p)'
      BY <1>0, <2>1 DEF ProcInv, ConnPart, Quiet, Key, Language
    <2>7. \A q \in Procs \ {p} : LeftAlone(q)
      BY <1>0, <2>1, <2>2 DEF LeftAlone
    <2>8. \A q \in Procs \ {p} : \A i \in DOMAIN Languages : Severs(<<q, Languages[i]>>)
      BY <2>1 DEF Severs
    <2> QED BY <2>3, <2>4, <2>5, <2>6, <2>7, <2>8, OneProcess DEF ProcInv
  <1>2. CASE ~ Lost(p)
    <2>1. /\ conn' = [conn EXCEPT ![Key(p)].sent = Append(conn[Key(p)].sent, Request(p))]
          /\ pc' = [pc EXCEPT ![p] = "reply"] /\ todo' = todo
      BY <1>2 DEF Send, Goto
    <2>2. conn' = [conn EXCEPT ![Key(p)] =
            [to |-> conn[Key(p)].to, open |-> conn[Key(p)].open,
             sent |-> Append(conn[Key(p)].sent, Request(p)), answers |-> conn[Key(p)].answers]]
      <3> DEFINE k == Key(p)
                 more == Append(conn[k].sent, Request(p))
      <3>1. IsConnection(k)
        BY <1>0 DEF TypeInv
      <3> HIDE DEF more
      <3>2. [conn[k] EXCEPT !.sent = more]
              = [to |-> conn[k].to, open |-> conn[k].open, sent |-> more, answers |-> conn[k].answers]
        BY <3>1 DEF IsConnection
      <3>3. conn' = [conn EXCEPT ![k] = [conn[k] EXCEPT !.sent = more]]
        BY <2>1 DEF more
      <3> HIDE DEF k
      <3> QED BY <3>2, <3>3 DEF k, more
    <2>3. /\ pc'[p] = "reply" /\ pc' \in [Procs -> Places]
          /\ \A q \in Procs \ {p} : pc'[q] = pc[q]
      BY <1>0, <2>1 DEF TypeInv, Places, Looking
    <2>4. /\ conn'[Key(p)].sent = Append(conn[Key(p)].sent, Request(p))
          /\ conn'[Key(p)].answers = conn[Key(p)].answers
          /\ (\A l \in Keys \ {Key(p)} : conn'[l] = conn[l])
          /\ conn' = [l \in Keys |-> conn'[l]] /\ \A l \in Keys : IsConnection(l)'
      BY <1>0, <2>2, ConnectionIs
    <2>5. TypeInv'
      BY <1>0, <2>1, <2>3, <2>4 DEF TypeInv, IsDaemon
    <2>6. PlacePart(p)'
      BY <1>0, <2>1, <2>3 DEF ProcInv, PlacePart, IsQuestion
    <2>7. OwnPart(p)' /\ LearntPart(p)'
      BY <1>0 DEF ProcInv, OwnPart, LearntPart
    <2>8. /\ \A i \in DOMAIN Languages : i > at[p] => conn'[<<p, Languages[i]>>] = Closed
          /\ \A q \in Procs \ {p} : \A i \in DOMAIN Languages : Severs(<<q, Languages[i]>>)
      BY <1>0, <2>4, OnlyKey DEF ProcInv
    <2>9. ConnPart(p)'
      <3>1. Key(p)' = Key(p) /\ Request(p)' = Request(p)
        BY <1>0, <2>1 DEF Key, Language, Request, Asked
      <3>2. ~ tardy[p] => conn[Key(p)].sent = <<>> /\ conn[Key(p)].answers = <<>>
        BY <1>0, <1>2 DEF ProcInv, ConnPart, Quiet, Lost
      <3>3. Append(<<>>, Request(p)) = <<Request(p)>>
        OBVIOUS
      <3>4. ~ tardy[p] => conn'[Key(p)].sent = <<Request(p)>> /\ conn'[Key(p)].answers = <<>>
        BY <2>4, <3>2, <3>3
      <3> QED BY <1>0, <2>3, <2>8, <3>1, <3>4 DEF ConnPart
    <2>10. \A q \in Procs \ {p} : LeftAlone(q)
      BY <1>0, <2>1, <2>3 DEF LeftAlone
    <2> QED BY <2>5, <2>6, <2>7, <2>8, <2>9, <2>10, OneProcess DEF ProcInv
  <1> QED BY <1>1, <1>2

LEMMA ReceiveInv == ASSUME Inv, NEW p \in Procs, Receive(p) PROVE Inv'
  <1>0. /\ TypeInv /\ ProcInv(p) /\ pc[p] = "reply" /\ todo[p] # <<>> /\ own[p] = None
        /\ Key(p) \in Keys /\ at[p] \in DOMAIN Languages /\ at[p] <= Len(Languages)
        /\ conn[Key(p)].answers # <<>> /\ Proceed(p)
        /\ UNCHANGED <<socket, daemon, at, graph, read, calls, pass, own, tardy>>
    BY KeyIn DEF Receive, Inv, ProcInv, PlacePart, files, bounds
  <1> DEFINE a == Head(conn[Key(p)].answers)
             more == Tail(conn[Key(p)].answers)
  <1>1. /\ IsQuestion(p, Asked(p)) /\ IsSequence(todo'[p])
        /\ (\A j \in DOMAIN todo'[p] : IsQuestion(p, todo'[p][j]))
        /\ todo' = [q \in Procs |-> todo'[q]]
        /\ \A q \in Procs \ {p} : todo'[q] = todo[q]
    BY <1>0, Asking DEF ProcInv
  <1>2. conn' = [conn EXCEPT ![Key(p)] =
          [to |-> conn[Key(p)].to, open |-> conn[Key(p)].open,
           sent |-> conn[Key(p)].sent, answers |-> more]]
    <2> DEFINE k == Key(p)
    <2>1. IsConnection(k)
      BY <1>0 DEF TypeInv
    <2>2. conn' = [conn EXCEPT ![k] = [conn[k] EXCEPT !.answers = more]]
      BY DEF Receive
    <2> HIDE DEF more
    <2>3. [conn[k] EXCEPT !.answers = more]
            = [to |-> conn[k].to, open |-> conn[k].open, sent |-> conn[k].sent, answers |-> more]
      BY <2>1 DEF IsConnection
    <2> HIDE DEF k
    <2> QED BY <2>2, <2>3 DEF k
  <1>3. /\ pc'[p] = "ask" /\ pc' \in [Procs -> Places]
        /\ \A q \in Procs \ {p} : pc'[q] = pc[q]
    BY <1>0 DEF Receive, Goto, TypeInv, Places, Looking
  <1> HIDE DEF more
  <1>4. /\ conn'[Key(p)].sent = conn[Key(p)].sent /\ conn'[Key(p)].answers = more
        /\ (\A l \in Keys \ {Key(p)} : conn'[l] = conn[l])
        /\ conn' = [l \in Keys |-> conn'[l]] /\ \A l \in Keys : IsConnection(l)'
    BY <1>0, <1>2, ConnectionIs
  <1>5. ~ tardy[p] => conn[Key(p)].sent = <<>> /\ more = <<>> /\ IsReplyTo(a, Asked(p))
    <2> SUFFICES ASSUME ~ tardy[p]
                 PROVE  conn[Key(p)].sent = <<>> /\ more = <<>> /\ IsReplyTo(a, Asked(p))
      OBVIOUS
    <2>1. PICK b : conn[Key(p)].answers = <<b>> /\ IsReplyTo(b, Asked(p)) /\ conn[Key(p)].sent = <<>>
      BY <1>0 DEF ProcInv, ConnPart
    <2>2. Head(<<b>>) = b /\ Tail(<<b>>) = <<>>
      OBVIOUS
    <2> QED BY <2>1, <2>2 DEF more
  <1>6. /\ learnt' = [q \in Procs |-> learnt'[q]] /\ (\A q \in Procs \ {p} : learnt'[q] = learnt[q])
        /\ \A e \in learnt'[p] \ learnt[p] :
             e.question = Asked(p) /\ (~ tardy[p] => e.answer.question = Asked(p))
    <2>1. CASE a.kind = Asked(p).kind /\ a.kind # "open"
      <3>1. Learn(p, a.answer)
        BY <2>1 DEF Receive
      <3> HIDE DEF a
      <3>2. /\ learnt'[p] = learnt[p] \cup {[question |-> Asked(p), answer |-> a.answer]}
            /\ learnt' = [q \in Procs |-> learnt'[q]]
            /\ \A q \in Procs \ {p} : learnt'[q] = learnt[q]
        BY <1>0, <3>1, LearnIs
      <3>3. ~ tardy[p] => a.answer.question = Asked(p)
        BY <1>5, <2>1 DEF IsReplyTo
      <3>4. \A e \in learnt'[p] \ learnt[p] : e = [question |-> Asked(p), answer |-> a.answer]
        BY <3>2
      <3>5. \A e \in learnt'[p] \ learnt[p] : e.question = Asked(p) /\ e.answer = a.answer
        BY <3>4
      <3> QED BY <3>2, <3>3, <3>5
    <2>2. CASE ~ (a.kind = Asked(p).kind /\ a.kind # "open")
      BY <1>0, <2>2 DEF Receive, TypeInv
    <2> QED BY <2>1, <2>2
  <1> HIDE DEF a
  <1>7. TypeInv'
    BY <1>0, <1>1, <1>3, <1>4, <1>6 DEF TypeInv, IsDaemon
  <1>8. PlacePart(p)'
    BY <1>0, <1>1, <1>3, <1>6 DEF ProcInv, PlacePart, IsQuestion
  <1>9. OwnPart(p)' /\ LearntPart(p)'
    BY <1>0, <1>6 DEF ProcInv, OwnPart, LearntPart
  <1>10. /\ \A i \in DOMAIN Languages : i > at[p] => conn'[<<p, Languages[i]>>] = Closed
         /\ \A q \in Procs \ {p} : \A i \in DOMAIN Languages : Severs(<<q, Languages[i]>>)
    BY <1>0, <1>4, OnlyKey DEF ProcInv
  <1>11. ConnPart(p)'
    <2>1. Key(p)' = Key(p)
      BY <1>0 DEF Key, Language
    <2> QED BY <1>0, <1>3, <1>4, <1>5, <1>10, <2>1 DEF ConnPart, Quiet
  <1>12. \A q \in Procs \ {p} : LeftAlone(q)
    BY <1>0, <1>1, <1>3, <1>6 DEF LeftAlone
  <1> QED BY <1>7, <1>8, <1>9, <1>10, <1>11, <1>12, OneProcess DEF ProcInv

\* An answer is no longer waited for: there will be none, or the connection is
\* no longer to be trusted.
LEMMA UnansweredInv ==
  ASSUME Inv, NEW p \in Procs, EndOfFile(p) \/ GiveUp(p)
  PROVE  Inv'
  <1>0. /\ TypeInv /\ ProcInv(p) /\ pc[p] = "reply" /\ todo[p] # <<>> /\ own[p] = None
        /\ Proceed(p) /\ Goto(p, "ask")
        /\ UNCHANGED <<socket, daemon, conn, at, graph, read, calls, pass, learnt, own>>
    BY DEF EndOfFile, GiveUp, NoAnswer, Inv, ProcInv, PlacePart, files, daemons
  <1>1. /\ IsSequence(todo'[p]) /\ (\A j \in DOMAIN todo'[p] : IsQuestion(p, todo'[p][j]))
        /\ todo' = [q \in Procs |-> todo'[q]]
        /\ \A q \in Procs \ {p} : todo'[q] = todo[q]
    BY <1>0, Asking DEF ProcInv
  <1>2. /\ pc'[p] = "ask" /\ pc' \in [Procs -> Places]
        /\ \A q \in Procs \ {p} : pc'[q] = pc[q]
    BY <1>0 DEF Goto, TypeInv, Places, Looking
  <1>3. /\ tardy' \in [Procs -> BOOLEAN] /\ (\A q \in Procs \ {p} : tardy'[q] = tardy[q])
        /\ (~ tardy'[p] => ~ tardy[p] /\ conn[Key(p)].to = None)
    BY <1>0 DEF EndOfFile, GiveUp, Lost, TypeInv, bounds
  <1>4. TypeInv'
    BY <1>0, <1>1, <1>2, <1>3, SharedUnchanged DEF TypeInv
  <1>5. PlacePart(p)'
    BY <1>0, <1>1, <1>2 DEF ProcInv, PlacePart, IsQuestion
  <1>6. OwnPart(p)' /\ LearntPart(p)'
    BY <1>0, <1>3 DEF ProcInv, OwnPart, LearntPart
  <1>7. ConnPart(p)'
    BY <1>0, <1>2, <1>3 DEF ProcInv, ConnPart, Key, Language
  <1>8. \A q \in Procs \ {p} : LeftAlone(q)
    BY <1>0, <1>1, <1>2, <1>3 DEF LeftAlone
  <1>9. \A q \in Procs \ {p} : \A i \in DOMAIN Languages : Severs(<<q, Languages[i]>>)
    BY <1>0 DEF Severs
  <1> QED BY <1>4, <1>5, <1>6, <1>7, <1>8, <1>9, OneProcess DEF ProcInv

LEMMA EndPassInv == ASSUME Inv, NEW p \in Procs, EndPass(p) PROVE Inv'
  <1>0. /\ TypeInv /\ ProcInv(p) /\ pc[p] = "ask" /\ todo[p] = <<>>
        /\ pass[p] \in Stages /\ IsSequence(graph[p])
        /\ UNCHANGED <<socket, daemon, conn, at, read, calls, own, tardy>>
    BY DEF EndPass, Inv, ProcInv, PlacePart, files, daemons, bounds
  <1>1. PICK g \in Applied(p) : graph' = [graph EXCEPT ![p] = g] /\ Enter(p, Following(pass[p]), g)
    BY DEF EndPass
  <1>2. IsSequence(g)
    BY <1>0, AppliedIs DEF ProcInv, PlacePart
  <1>3. /\ graph'[p] = g /\ graph' = [q \in Procs |-> graph'[q]]
        /\ \A q \in Procs \ {p} : graph'[q] = graph[q]
    BY <1>0, <1>1 DEF TypeInv
  <1> DEFINE next == Following(pass[p])
  <1>4. next \in (Stages \cup {"shutdown"}) \ {"open"}
    BY <1>0 DEF Following, Stages
  <1> HIDE DEF next
  <1>5. Enter(p, next, g)
    BY <1>1 DEF next
  <1>6. /\ pc'[p] = (IF next = "shutdown" THEN next ELSE "ask")
        /\ pass'[p] = next /\ learnt'[p] = {}
        /\ next # "shutdown" =>
             IsSequence(todo'[p]) /\ \A j \in DOMAIN todo'[p] : IsQuestion(p, todo[p][j])'
        /\ \A q \in Procs \ {p} : pc'[q] = pc[q] /\ pass'[q] = pass[q]
                                   /\ todo'[q] = todo[q] /\ learnt'[q] = learnt[q]
        /\ pc' \in [Procs -> Places]
        /\ pass' = [q \in Procs |-> pass'[q]] /\ todo' = [q \in Procs |-> todo'[q]]
        /\ learnt' = [q \in Procs |-> learnt'[q]]
    BY <1>0, <1>2, <1>4, <1>5, EnterIs
  <1>7. pc'[p] \in {"ask", "shutdown"} /\ (pc'[p] = "ask" => next # "shutdown")
    BY <1>6
  <1>8. TypeInv'
    BY <1>0, <1>3, <1>6, SharedUnchanged DEF TypeInv
  <1>9. PlacePart(p)'
    BY <1>0, <1>2, <1>3, <1>4, <1>6, <1>7 DEF ProcInv, PlacePart
  <1>10. OwnPart(p)'
    BY <1>0, <1>7 DEF ProcInv, OwnPart
  <1>11. LearntPart(p)'
    BY <1>6 DEF LearntPart
  <1>12. ConnPart(p)'
    BY <1>0, <1>7 DEF ProcInv, ConnPart, Quiet, Key, Language
  <1>13. \A q \in Procs \ {p} : LeftAlone(q)
    BY <1>0, <1>3, <1>6 DEF LeftAlone
  <1>14. \A q \in Procs \ {p} : \A i \in DOMAIN Languages : Severs(<<q, Languages[i]>>)
    BY <1>0 DEF Severs
  <1> QED BY <1>8, <1>9, <1>10, <1>11, <1>12, <1>13, <1>14, OneProcess DEF ProcInv

LEMMA ShutdownInv == ASSUME Inv, NEW p \in Procs, Shutdown(p) PROVE Inv'
  <1>0. /\ TypeInv /\ ProcInv(p) /\ pc[p] = "shutdown" /\ Len(Languages) \in Nat
        /\ Key(p) \in Keys /\ at[p] \in DOMAIN Languages /\ at[p] <= Len(Languages)
        /\ NextLanguage(p) /\ own' = [own EXCEPT ![p] = None]
        /\ UNCHANGED <<socket, daemon, graph, read, calls, pass, todo, learnt, tardy>>
    BY KeyIn, KeysOf DEF Shutdown, Inv, ProcInv, PlacePart, files, bounds
  <1>1. conn' = [conn EXCEPT ![Key(p)].open = FALSE]
    BY DEF Shutdown
  <1> DEFINE shut == FALSE
  <1>2. /\ (\A l \in Keys \ {Key(p)} : conn'[l] = conn[l])
        /\ conn' = [l \in Keys |-> conn'[l]] /\ \A l \in Keys : IsConnection(l)'
    <2> DEFINE k == Key(p)
    <2>1. IsConnection(k)
      BY <1>0 DEF TypeInv
    <2>2. conn' = [conn EXCEPT ![k] = [conn[k] EXCEPT !.open = shut]]
      BY <1>1
    <2> HIDE DEF shut
    <2>3. [conn[k] EXCEPT !.open = shut]
            = [to |-> conn[k].to, open |-> shut, sent |-> conn[k].sent, answers |-> conn[k].answers]
      BY <2>1 DEF IsConnection
    <2>4. k \in Keys
      BY <1>0
    <2> HIDE DEF k
    <2>5. conn' = [conn EXCEPT ![k] =
            [to |-> conn[k].to, open |-> shut, sent |-> conn[k].sent, answers |-> conn[k].answers]]
      BY <2>2, <2>3
    <2>6. /\ (\A l \in Keys \ {k} : conn'[l] = conn[l])
          /\ conn' = [l \in Keys |-> conn'[l]] /\ \A l \in Keys : IsConnection(l)'
      BY <1>0, <2>4, <2>5, ConnectionIs
    <2> QED BY <2>6 DEF k
  <1>3. /\ pc' = [pc EXCEPT ![p] = "language"] /\ at' = [at EXCEPT ![p] = at[p] + 1]
    BY <1>0 DEF NextLanguage, Goto
  <1>4. /\ pc'[p] = "language" /\ pc' \in [Procs -> Places] /\ at'[p] = at[p] + 1
        /\ \A q \in Procs \ {p} : pc'[q] = pc[q] /\ at'[q] = at[q]
    BY <1>0, <1>3 DEF TypeInv, Places, Looking
  <1>5. at[p] \in Nat /\ at' \in [Procs -> 1..(Len(Languages) + 1)]
    <2>1. at[p] + 1 \in 1..(Len(Languages) + 1) /\ at[p] \in Nat
      BY <1>0 DEF TypeInv
    <2> QED BY <1>0, <1>3, <2>1 DEF TypeInv
  <1>6. own'[p] = None /\ own' = [q \in Procs |-> own'[q]] /\ \A q \in Procs \ {p} : own'[q] = own[q]
    BY <1>0 DEF TypeInv
  <1>7. TypeInv'
    BY <1>0, <1>2, <1>4, <1>5, <1>6 DEF TypeInv, IsDaemon
  <1>8. PlacePart(p)'
    BY <1>0, <1>4, <1>6 DEF ProcInv, PlacePart
  <1>9. OwnPart(p)' /\ LearntPart(p)'
    BY <1>0, <1>6 DEF ProcInv, OwnPart, LearntPart
  <1>10. /\ \A i \in DOMAIN Languages : i > at[p] => conn'[<<p, Languages[i]>>] = Closed
         /\ \A q \in Procs \ {p} : \A i \in DOMAIN Languages : Severs(<<q, Languages[i]>>)
    BY <1>0, <1>2, OnlyKey DEF ProcInv
  <1>11. ConnPart(p)'
    <2>1. \A i \in DOMAIN Languages : i > at[p] + 1 \/ i = at[p] + 1 => i > at[p]
      BY <1>5, KeysOf
    <2> QED BY <1>4, <1>10, <2>1 DEF ConnPart
  <1>12. \A q \in Procs \ {p} : LeftAlone(q)
    BY <1>0, <1>4, <1>6 DEF LeftAlone
  <1> QED BY <1>7, <1>8, <1>9, <1>10, <1>11, <1>12, OneProcess DEF ProcInv

\* The connections to daemons that are gone.
LEMMA SeveredIs ==
  ASSUME TypeInv, NEW D, conn' = Severed(D)
  PROVE  /\ \A k \in Keys : Severs(k) /\ IsConnection(k)'
         /\ conn' = [k \in Keys |-> conn'[k]]
  <1>1. \A k \in Keys : Severs(k)
    BY DEF Severed, Severs
  <1>2. \A k \in Keys : IsConnection(k)'
    BY <1>1, SeveredFields DEF TypeInv
  <1>3. conn' = [k \in Keys |-> conn'[k]]
    BY DEF Severed
  <1> QED BY <1>1, <1>2, <1>3

LEMMA OffIsDaemon ==
  ASSUME NEW d \in Keys, daemon'[d] = Off PROVE IsDaemon(d)'
  <1>1. /\ Off.servers = [l \in ToSet(Languages) |-> NoServer] /\ Off.serving = None
        /\ Off.backlog = <<>>
        /\ Off = [up |-> Off.up, servers |-> Off.servers,
                  serving |-> Off.serving, backlog |-> Off.backlog]
    BY DEF Off
  <1>2. \A l \in ToSet(Languages) : IsClient(Off.servers[l]) /\ Off.servers[l] = NoServer
    BY <1>1, NewClientIsClient
  <1>3. Off.servers = [l \in ToSet(Languages) |-> Off.servers[l]] /\ <<>> \in Seq(Keys)
    BY <1>1
  <1> QED BY <1>1, <1>2, <1>3 DEF IsDaemon

LEMMA ExitInv == ASSUME Inv, NEW p \in Procs, Exit(p) PROVE Inv'
  <1>0. /\ TypeInv /\ ProcInv(p) /\ pc[p] = "language" /\ at[p] > Len(Languages)
        /\ UNCHANGED <<socket, at, graph, read, calls, pass, todo, learnt, own, tardy>>
    BY DEF Exit, Inv, files, work, bounds
  <1>1. /\ \A k \in Keys : Severs(k) /\ IsConnection(k)'
        /\ conn' = [k \in Keys |-> conn'[k]]
    BY <1>0, SeveredIs DEF Exit
  <1>2. /\ pc'[p] = "gone" /\ pc' \in [Procs -> Places] /\ \A q \in Procs \ {p} : pc'[q] = pc[q]
    BY <1>0 DEF Exit, Goto, TypeInv, Places, Looking
  <1>3. daemon' = [d \in Keys |-> daemon'[d]] /\ \A d \in Keys : IsDaemon(d)'
    <2>1. daemon' = [d \in Keys |-> IF d[1] = p THEN Off ELSE daemon[d]]
      BY DEF Exit
    <2>2. daemon' = [d \in Keys |-> daemon'[d]]
      BY <2>1
    <2>3. ASSUME NEW d \in Keys PROVE IsDaemon(d)'
      <3>1. IsDaemon(d)
        BY <1>0 DEF TypeInv
      <3>2. daemon'[d] \in {Off, daemon[d]}
        BY <2>1
      <3>3. CASE daemon'[d] = daemon[d]
        BY <3>1, <3>3 DEF IsDaemon
      <3> QED BY <3>2, <3>3, OffIsDaemon
    <2> QED BY <2>2, <2>3
  <1>4. TypeInv'
    BY <1>0, <1>1, <1>2, <1>3 DEF TypeInv
  <1>5. PlacePart(p)' /\ OwnPart(p)' /\ LearntPart(p)'
    BY <1>0, <1>2 DEF ProcInv, PlacePart, OwnPart, LearntPart
  <1>6. ConnPart(p)'
    <2>1. \A i \in DOMAIN Languages : ~ (i > at[p] \/ i = at[p])
      BY <1>0, KeysOf DEF TypeInv
    <2> QED BY <1>0, <1>2, <2>1 DEF ConnPart
  <1>7. \A q \in Procs \ {p} : LeftAlone(q)
    BY <1>0, <1>2 DEF LeftAlone
  <1>8. \A q \in Procs \ {p} : \A i \in DOMAIN Languages : Severs(<<q, Languages[i]>>)
    BY <1>1, KeysOf
  <1> QED BY <1>4, <1>5, <1>6, <1>7, <1>8, OneProcess DEF ProcInv

-----------------------------------------------------------------------------
(* The steps of a daemon *)

Alone == UNCHANGED <<pc, at, graph, read, calls, pass, todo, learnt, own, tardy>>

LEMMA OneDaemon ==
  ASSUME Inv, Alone, socket' \in Keys \cup {None},
         daemon' = [d \in Keys |-> daemon'[d]], \A d \in Keys : IsDaemon(d)',
         conn' = [k \in Keys |-> conn'[k]], \A k \in Keys : Severs(k) /\ IsConnection(k)'
  PROVE  Inv'
  <1>1. TypeInv'
    BY DEF Inv, TypeInv, Alone
  <1>2. \A q \in Procs : LeftAlone(q)
    BY DEF Alone, LeftAlone
  <1>3. \A q \in Procs : \A i \in DOMAIN Languages : Severs(<<q, Languages[i]>>)
    BY KeysOf
  <1> QED BY <1>1, <1>2, <1>3, Frame DEF Inv

\* A daemon after a change of one of its fields.
LEMMA DaemonIs ==
  ASSUME TypeInv, NEW d \in Keys, NEW u, NEW servers, NEW serving \in Keys \cup {None},
         NEW backlog \in Seq(Keys),
         servers = [l \in ToSet(Languages) |-> servers[l]],
         \A l \in ToSet(Languages) : IsClient(servers[l]),
         daemon' = [daemon EXCEPT ![d] = [up |-> u, servers |-> servers,
                                          serving |-> serving, backlog |-> backlog]]
  PROVE  daemon' = [c \in Keys |-> daemon'[c]] /\ \A c \in Keys : IsDaemon(c)'
  <1>1. /\ daemon'[d] = [up |-> u, servers |-> servers, serving |-> serving, backlog |-> backlog]
        /\ \A c \in Keys \ {d} : daemon'[c] = daemon[c]
        /\ daemon' = [c \in Keys |-> daemon'[c]]
    BY DEF TypeInv
  <1>2. IsDaemon(d)'
    BY <1>1 DEF IsDaemon
  <1>3. \A c \in Keys : IsDaemon(c)
    BY DEF TypeInv
  <1>4. \A c \in Keys \ {d} : IsDaemon(c)'
    BY <1>1, <1>3 DEF IsDaemon
  <1> QED BY <1>1, <1>2, <1>4

LEMMA BindInv == ASSUME Inv, NEW d \in Keys, Bind(d) PROVE Inv'
  <1>0. TypeInv /\ IsDaemon(d) /\ Alone /\ socket' = d /\ conn' = conn
    BY DEF Bind, Alone, work, bounds, Inv, TypeInv
  <1>1. daemon' = [daemon EXCEPT ![d] = [up |-> "up", servers |-> daemon[d].servers,
                     serving |-> daemon[d].serving, backlog |-> daemon[d].backlog]]
    <2>1. daemon' = [daemon EXCEPT ![d] = [daemon[d] EXCEPT !.up = "up"]]
      BY DEF Bind
    <2>2. [daemon[d] EXCEPT !.up = "up"] = [up |-> "up", servers |-> daemon[d].servers,
                     serving |-> daemon[d].serving, backlog |-> daemon[d].backlog]
      BY <1>0 DEF IsDaemon
    <2> QED BY <2>1, <2>2
  <1>2. daemon' = [c \in Keys |-> daemon'[c]] /\ \A c \in Keys : IsDaemon(c)'
    BY <1>0, <1>1, DaemonIs DEF IsDaemon
  <1>3. conn' = [k \in Keys |-> conn'[k]] /\ \A k \in Keys : Severs(k) /\ IsConnection(k)'
    BY <1>0 DEF TypeInv, Severs, IsConnection
  <1> QED BY <1>0, <1>2, <1>3, OneDaemon

LEMMA AcceptInv == ASSUME Inv, NEW d \in Keys, Accept(d) PROVE Inv'
  <1>0. /\ TypeInv /\ IsDaemon(d) /\ Alone /\ socket' = socket /\ conn' = conn
        /\ daemon[d].backlog # <<>> /\ daemon[d].backlog \in Seq(Keys)
    BY DEF Accept, Alone, work, bounds, files, Inv, TypeInv, IsDaemon
  <1> DEFINE first == Head(daemon[d].backlog)
             others == Tail(daemon[d].backlog)
  <1>1. first \in Keys /\ others \in Seq(Keys)
    BY <1>0
  <1>2. daemon' = [daemon EXCEPT ![d] = [up |-> daemon[d].up, servers |-> daemon[d].servers,
                     serving |-> first, backlog |-> others]]
    <2>1. daemon' = [daemon EXCEPT ![d] = [daemon[d] EXCEPT !.serving = first, !.backlog = others]]
      BY <1>0 DEF Accept, TypeInv
    <2> HIDE DEF first, others
    <2> DEFINE e == [daemon[d] EXCEPT !.serving = first, !.backlog = others]
    <2>2. daemon[d] \in [up : {daemon[d].up}, servers : {daemon[d].servers},
                         serving : {daemon[d].serving}, backlog : {daemon[d].backlog}]
      BY <1>0 DEF IsDaemon
    <2>3. e \in [up : {daemon[d].up}, servers : {daemon[d].servers},
                 serving : {first}, backlog : {others}]
      BY <2>2
    <2> HIDE DEF e
    <2>4. e = [up |-> daemon[d].up, servers |-> daemon[d].servers, serving |-> first, backlog |-> others]
      BY <2>3
    <2> QED BY <2>1, <2>4 DEF e
  <1> HIDE DEF first, others
  <1>3. daemon' = [c \in Keys |-> daemon'[c]] /\ \A c \in Keys : IsDaemon(c)'
    BY <1>0, <1>1, <1>2, DaemonIs DEF IsDaemon
  <1>4. conn' = [k \in Keys |-> conn'[k]] /\ \A k \in Keys : Severs(k) /\ IsConnection(k)'
    BY <1>0 DEF TypeInv, Severs, IsConnection
  <1> QED BY <1>0, <1>3, <1>4, OneDaemon DEF TypeInv

LEMMA HangUpInv == ASSUME Inv, NEW d \in Keys, HangUp(d) PROVE Inv'
  <1>0. TypeInv /\ IsDaemon(d) /\ Alone /\ socket' = socket /\ conn' = conn
    BY DEF HangUp, Alone, work, bounds, files, Inv, TypeInv
  <1>1. daemon' = [daemon EXCEPT ![d] = [up |-> daemon[d].up, servers |-> daemon[d].servers,
                     serving |-> None, backlog |-> daemon[d].backlog]]
    <2>1. daemon' = [daemon EXCEPT ![d] = [daemon[d] EXCEPT !.serving = None]]
      BY DEF HangUp
    <2>2. [daemon[d] EXCEPT !.serving = None]
            = [up |-> daemon[d].up, servers |-> daemon[d].servers,
               serving |-> None, backlog |-> daemon[d].backlog]
      BY <1>0 DEF IsDaemon
    <2> QED BY <2>1, <2>2
  <1>2. daemon' = [c \in Keys |-> daemon'[c]] /\ \A c \in Keys : IsDaemon(c)'
    BY <1>0, <1>1, DaemonIs DEF IsDaemon
  <1>3. conn' = [k \in Keys |-> conn'[k]] /\ \A k \in Keys : Severs(k) /\ IsConnection(k)'
    BY <1>0 DEF TypeInv, Severs, IsConnection
  <1> QED BY <1>0, <1>2, <1>3, OneDaemon DEF TypeInv

LEMMA IdleExitInv == ASSUME Inv, NEW d \in Keys, IdleExit(d) PROVE Inv'
  <1>0. TypeInv /\ Alone /\ socket' = None /\ conn' = Severed({d})
    BY DEF IdleExit, Alone, work, bounds, Inv
  <1>1. daemon' = [daemon EXCEPT ![d] = Off]
    BY DEF IdleExit
  <1>2. daemon' = [c \in Keys |-> daemon'[c]] /\ \A c \in Keys : IsDaemon(c)'
    <2>1. daemon'[d] = Off /\ daemon' = [c \in Keys |-> daemon'[c]]
          /\ \A c \in Keys \ {d} : daemon'[c] = daemon[c]
      BY <1>0, <1>1 DEF TypeInv
    <2>2. IsDaemon(d)'
      BY <2>1, OffIsDaemon
    <2>3. \A c \in Keys : IsDaemon(c)
      BY <1>0 DEF TypeInv
    <2>4. \A c \in Keys \ {d} : IsDaemon(c)'
      BY <2>1, <2>3 DEF IsDaemon
    <2> QED BY <2>1, <2>2, <2>4
  <1> QED BY <1>0, <1>2, SeveredIs, OneDaemon

\* A daemon's answer is one to the question it has read.
LEMMA HandledIs ==
  ASSUME TypeInv, NEW d \in Keys, NEW k \in Keys, NEW request, NEW h \in Handled(d, k, request)
  PROVE  /\ h.servers = [l \in ToSet(Languages) |-> h.servers[l]]
         /\ \A l \in ToSet(Languages) : IsClient(h.servers[l])
         /\ h.reply.kind \in {"error", request.question.kind}
         /\ h.reply.kind # "error" => IsReplyTo(h.reply, request.question)
  <1> DEFINE l == k[2]
             c == daemon[d].servers[l]
             done(c2, reply, n) ==
               [servers |-> [daemon[d].servers EXCEPT ![l] = c2], reply |-> reply, late |-> n]
             failed(c2, n) == done(c2, [kind |-> "error"], n)
             right(x) == /\ x.servers = [m \in ToSet(Languages) |-> x.servers[m]]
                         /\ \A m \in ToSet(Languages) : IsClient(x.servers[m])
  <1>1. /\ l \in ToSet(Languages) /\ IsClient(c)
        /\ daemon[d].servers = [m \in ToSet(Languages) |-> daemon[d].servers[m]]
        /\ \A m \in ToSet(Languages) : IsClient(daemon[d].servers[m])
    BY DEF Keys, TypeInv, IsDaemon
  <1>2. ASSUME NEW c2, IsClient(c2), NEW reply, NEW n
        PROVE  right(done(c2, reply, n)) /\ done(c2, reply, n).reply = reply
    <2> DEFINE e == [daemon[d].servers EXCEPT ![l] = c2]
    <2>1. e[l] = c2 /\ (\A m \in ToSet(Languages) \ {l} : e[m] = daemon[d].servers[m])
          /\ e = [m \in ToSet(Languages) |-> e[m]]
      BY <1>1
    <2> HIDE DEF e
    <2>2. \A m \in ToSet(Languages) : IsClient(e[m])
      BY <1>1, <1>2, <2>1
    <2>3. done(c2, reply, n) = [servers |-> e, reply |-> reply, late |-> n]
      BY DEF e
    <2> HIDE DEF done
    <2> QED BY <2>1, <2>2, <2>3
  <1>3. ASSUME NEW c2, IsClient(c2), NEW n, h = failed(c2, n)
        PROVE  right(h) /\ h.reply.kind = "error"
    <2> HIDE DEF done, right
    <2>1. h = done(c2, [kind |-> "error"], n)
      BY <1>3
    <2> QED BY <1>2, <1>3, <2>1
  <1>4. CASE request.question.kind = "open"
    <2> DEFINE c2 == OpenFile(IF c = NoServer THEN NewClient ELSE c, request.version)
    <2>1. h = done(c2, [kind |-> "open"], 0) \/ h = failed(c, 0)
      BY <1>4 DEF Handled
    <2>2. IsClient(c2)
      BY <1>1, NewClientIsClient, OpenFileIsClient
    <2>3. CASE h = failed(c, 0)
      <3> HIDE DEF failed, right
      <3>1. right(h) /\ h.reply.kind = "error"
        BY <1>1, <1>3, <2>3
      <3> QED BY <3>1 DEF right
    <2>4. CASE h = done(c2, [kind |-> "open"], 0)
      <3> HIDE DEF c2, done, right
      <3>1. right(h) /\ h.reply = [kind |-> "open"]
        BY <1>2, <2>2, <2>4
      <3> QED BY <1>4, <3>1 DEF right, IsReplyTo
    <2> QED BY <2>1, <2>3, <2>4
  <1>5. CASE request.question.kind # "open" /\ c = NoServer
    <2>1. h = failed(c, 0)
      BY <1>5 DEF Handled
    <2> HIDE DEF failed, right
    <2>2. right(h) /\ h.reply.kind = "error"
      BY <1>1, <1>3, <2>1
    <2> QED BY <2>2 DEF right
  <1>6. CASE request.question.kind # "open" /\ c # NoServer
    <2>1. PICK c1 \in Progressed(c) :
            LET r == Requested(c1, request.question)
            IN \/ h = done(Answered(r), [kind |-> request.question.kind, answer |-> Answer(r)], 0)
               \/ h = failed(r, 1)
      BY <1>6 DEF Handled
    <2> DEFINE r == Requested(c1, request.question)
               a == Answer(r)
               c2 == Answered(r)
    <2>2. IsClient(c1)
      BY <1>1, ProgressedIsClient
    <2>3. a.question = request.question /\ IsClient(c2) /\ IsClient(r)
      BY <2>2, RequestedIsAnswered
    <2>4. h = done(c2, [kind |-> request.question.kind, answer |-> a], 0) \/ h = failed(r, 1)
      BY <2>1
    <2> HIDE DEF r, a, c2
    <2>5. CASE h = failed(r, 1)
      <3> HIDE DEF failed, right
      <3>1. right(h) /\ h.reply.kind = "error"
        BY <1>3, <2>3, <2>5
      <3> QED BY <3>1 DEF right
    <2>6. CASE h = done(c2, [kind |-> request.question.kind, answer |-> a], 0)
      <3> HIDE DEF done, right
      <3>1. right(h) /\ h.reply = [kind |-> request.question.kind, answer |-> a]
        BY <1>2, <2>3, <2>6
      <3> QED BY <2>3, <3>1 DEF right, IsReplyTo
    <2> QED BY <2>4, <2>5, <2>6
  <1> QED BY <1>4, <1>5, <1>6

LEMMA HandleInv == ASSUME Inv, NEW d \in Keys, Handle(d) PROVE Inv'
  <1> DEFINE k == daemon[d].serving
             request == Head(conn[k].sent)
             left == Tail(conn[k].sent)
  <1>0. /\ TypeInv /\ IsDaemon(d) /\ Alone /\ socket' = socket
        /\ k \in Keys /\ conn[k].sent # <<>>
    BY DEF Handle, Alone, work, bounds, files, Inv, TypeInv, IsDaemon
  <1>1. PICK h \in Handled(d, k, request) :
          /\ daemon' = [daemon EXCEPT ![d].servers = h.servers,
                                      ![d].serving = IF conn[k].open THEN k ELSE None]
          /\ conn' = [conn EXCEPT ![k].sent = left,
                                  ![k].answers = IF conn[k].open THEN Append(conn[k].answers, h.reply)
                                                 ELSE conn[k].answers]
    BY DEF Handle
  <1>2. /\ h.servers = [l \in ToSet(Languages) |-> h.servers[l]]
        /\ \A l \in ToSet(Languages) : IsClient(h.servers[l])
        /\ h.reply.kind \in {"error", request.question.kind}
        /\ h.reply.kind # "error" => IsReplyTo(h.reply, request.question)
    BY <1>0, HandledIs
  <1>3. daemon' = [c \in Keys |-> daemon'[c]] /\ \A c \in Keys : IsDaemon(c)'
    <2> DEFINE served == IF conn[k].open THEN k ELSE None
               e == [daemon[d] EXCEPT !.servers = h.servers, !.serving = served]
    <2>1. daemon' = [daemon EXCEPT ![d] = e]
      BY <1>0, <1>1 DEF TypeInv
    <2>2. served \in Keys \cup {None}
      BY <1>0
    <2> HIDE DEF k, served
    <2>3. daemon[d] \in [up : {daemon[d].up}, servers : {daemon[d].servers},
                         serving : {daemon[d].serving}, backlog : {daemon[d].backlog}]
      BY <1>0 DEF IsDaemon
    <2>4. e \in [up : {daemon[d].up}, servers : {h.servers},
                 serving : {served}, backlog : {daemon[d].backlog}]
      BY <2>3
    <2> HIDE DEF e
    <2>5. e = [up |-> daemon[d].up, servers |-> h.servers, serving |-> served, backlog |-> daemon[d].backlog]
      BY <2>4
    <2>6. daemon' = [daemon EXCEPT ![d] =
            [up |-> daemon[d].up, servers |-> h.servers, serving |-> served, backlog |-> daemon[d].backlog]]
      BY <2>1, <2>5
    <2>7. daemon[d].backlog \in Seq(Keys)
      BY <1>0 DEF IsDaemon
    <2> QED BY <1>0, <1>2, <2>2, <2>6, <2>7, DaemonIs
  <1> DEFINE written == IF conn[k].open THEN Append(conn[k].answers, h.reply) ELSE conn[k].answers
  <1>4. conn' = [conn EXCEPT ![k] = [to |-> conn[k].to, open |-> conn[k].open,
                                     sent |-> left, answers |-> written]]
    <2> DEFINE e == [conn[k] EXCEPT !.sent = left, !.answers = written]
    <2>1. conn' = [conn EXCEPT ![k] = e]
      BY <1>0, <1>1 DEF TypeInv
    <2>2. IsConnection(k)
      BY <1>0 DEF TypeInv
    <2> HIDE DEF k, left, written
    <2>3. conn[k] \in [to : {conn[k].to}, open : {conn[k].open},
                       sent : {conn[k].sent}, answers : {conn[k].answers}]
      BY <2>2 DEF IsConnection
    <2>4. e \in [to : {conn[k].to}, open : {conn[k].open}, sent : {left}, answers : {written}]
      BY <2>3
    <2> HIDE DEF e
    <2>5. e = [to |-> conn[k].to, open |-> conn[k].open, sent |-> left, answers |-> written]
      BY <2>4
    <2> QED BY <2>1, <2>5
  <1> HIDE DEF written
  <1>5. /\ conn'[k].to = conn[k].to /\ conn'[k].sent = left /\ conn'[k].answers = written
        /\ (\A l \in Keys \ {k} : conn'[l] = conn[l])
        /\ conn' = [l \in Keys |-> conn'[l]] /\ \A l \in Keys : IsConnection(l)'
    <2> HIDE DEF k, left
    <2> QED BY <1>0, <1>4, ConnectionIs
  <1>6. TypeInv'
    BY <1>0, <1>3, <1>5 DEF TypeInv, Alone
  <1>7. ASSUME NEW q \in Procs PROVE ProcInv(q)'
    <2>1. ProcInv(q) /\ LeftAlone(q)
      BY <1>0 DEF Inv, Alone, LeftAlone
    <2>2. PlacePart(q)' /\ OwnPart(q)' /\ LearntPart(q)'
      BY <2>1 DEF ProcInv, PlacePart, OwnPart, LearntPart, LeftAlone, IsQuestion
    <2>3. Key(q)' = Key(q) /\ Request(q)' = Request(q) /\ Asked(q)' = Asked(q)
      BY <2>1 DEF LeftAlone, Key, Language, Request, Asked
    <2>4. ASSUME NEW i \in DOMAIN Languages,
                 i > at[q] \/ (i = at[q] /\ pc[q] \notin {"ask", "reply", "shutdown"})
          PROVE  conn'[<<q, Languages[i]>>] = Closed
      <3>1. conn[<<q, Languages[i]>>] = Closed /\ <<q, Languages[i]>> \in Keys
        BY <2>1, <2>4, KeysOf DEF ProcInv, ConnPart
      <3>2. <<q, Languages[i]>> # k
        BY <1>0, <3>1 DEF Closed
      <3> QED BY <1>5, <3>1, <3>2
    <2>5. ASSUME pc[q] = "ask", ~ tardy[q]
          PROVE  (Quiet(Key(q)) \/ conn[Key(q)].to = None)'
      <3>1. Quiet(Key(q)) \/ conn[Key(q)].to = None
        BY <2>1, <2>5 DEF ProcInv, ConnPart
      <3>2. Key(q) \in Keys
        BY <1>0, <2>1, <2>5, KeyIn DEF ProcInv, PlacePart
      <3>3. CASE Key(q) = k
        BY <1>0, <1>5, <2>3, <3>1, <3>3 DEF Quiet
      <3>4. CASE Key(q) # k
        BY <1>5, <2>3, <3>1, <3>2, <3>4 DEF Quiet
      <3> QED BY <3>3, <3>4
    <2>6. ASSUME pc[q] = "reply", ~ tardy[q]
          PROVE  \/ conn'[Key(q)].sent \in {<<>>, <<Request(q)>>} /\ conn'[Key(q)].answers = <<>>
                 \/ /\ conn'[Key(q)].sent = <<>>
                    /\ \E a : conn'[Key(q)].answers = <<a>> /\ IsReplyTo(a, Asked(q))
      <3>1. \/ conn[Key(q)].sent \in {<<>>, <<Request(q)>>} /\ conn[Key(q)].answers = <<>>
            \/ /\ conn[Key(q)].sent = <<>>
               /\ \E a : conn[Key(q)].answers = <<a>> /\ IsReplyTo(a, Asked(q))
        BY <2>1, <2>6 DEF ProcInv, ConnPart
      <3>2. Key(q) \in Keys
        BY <1>0, <2>1, <2>6, KeyIn DEF ProcInv, PlacePart
      <3>3. CASE Key(q) = k
        <4>1. conn[k].sent = <<Request(q)>> /\ conn[k].answers = <<>>
          BY <1>0, <3>1, <3>3
        <4> DEFINE r == Request(q)
        <4>2. Head(<<r>>) = r /\ Tail(<<r>>) = <<>>
          OBVIOUS
        <4>3. request = Request(q) /\ left = <<>>
          BY <4>1, <4>2
        <4>4. Request(q).question = Asked(q)
          BY DEF Request
        <4>5. Asked(q).kind # "error"
          BY <1>0, <2>1, <2>6, Asking DEF ProcInv, PlacePart, IsQuestion, Stages
        <4>6. IsReplyTo(h.reply, Asked(q))
          BY <1>2, <4>3, <4>4, <4>5 DEF IsReplyTo
        <4>7. Append(<<>>, h.reply) = <<h.reply>>
          OBVIOUS
        <4>8. written \in {<<>>, <<h.reply>>}
          BY <4>1, <4>7 DEF written
        <4> QED BY <1>5, <3>3, <4>3, <4>6, <4>8
      <3>4. CASE Key(q) # k
        BY <1>5, <3>1, <3>2, <3>4
      <3> QED BY <3>3, <3>4
    <2>7. ConnPart(q)'
      BY <2>1, <2>3, <2>4, <2>5, <2>6 DEF LeftAlone, ConnPart, IsReplyTo
    <2> QED BY <2>2, <2>7 DEF ProcInv
  <1> QED BY <1>6, <1>7 DEF Inv

-----------------------------------------------------------------------------

LEMMA NextInv == Inv /\ [Next]_vars => Inv'
  <1> SUFFICES ASSUME Inv, [Next]_vars PROVE Inv'
    OBVIOUS
  <1>1. ASSUME NEW p \in Procs, Extract(p) \/ ProcStep(p) PROVE Inv'
    BY <1>1, ExtractInv, TryLanguageInv, FindDaemonInv, ConnectInv, EnsureDaemonInv, StartServerInv,
       AskInv, SendInv, ReceiveInv, UnansweredInv, EndPassInv, ShutdownInv, ExitInv DEF ProcStep
  <1>2. ASSUME NEW d \in Keys, DaemonStep(d) PROVE Inv'
    BY <1>2, BindInv, AcceptInv, HandleInv, HangUpInv, IdleExitInv DEF DaemonStep
  <1>3. CASE UNCHANGED vars
    <2>1. /\ Alone /\ UNCHANGED <<socket, daemon, conn>>
      BY <1>3 DEF vars, files, daemons, work, bounds, Alone
    <2>2. /\ socket' \in Keys \cup {None}
          /\ daemon' = [d \in Keys |-> daemon'[d]] /\ (\A d \in Keys : IsDaemon(d)')
          /\ conn' = [k \in Keys |-> conn'[k]] /\ (\A k \in Keys : IsConnection(k)')
      BY <2>1, SharedUnchanged DEF Inv
    <2>3. \A k \in Keys : Severs(k)
      BY <2>1 DEF Severs
    <2> QED BY <2>1, <2>2, <2>3, OneDaemon
  <1> QED BY <1>1, <1>2, <1>3 DEF Next

\* The answers an extraction works with are those to its own questions, for any
\* number of extractions, languages and daemons, with any delays: over a daemon
\* as long as it has given up no answer on this connection, and with a server of
\* its own always, which answers from the contents that were extracted.
THEOREM LspAnswersAreOwn == Spec => []OwnAnswers
  <1>1. Inv => OwnAnswers
    BY DEF Inv, ProcInv, LearntPart, OwnAnswers
  <1> QED BY <1>1, InitInv, NextInv, PTL DEF Spec

-----------------------------------------------------------------------------
(* The indices of the call edges fit the graph up to the first edge that was *)
(* removed                                                                   *)

Before == {"new", "language"} \cup Looking

IsNoCall(i) == FirstGraph[i].relation # "calls"

\* In front of all that was removed an edge that is no call has its place still;
\* behind what was removed for this language, it is at least in the graph.
GraphPart(p) ==
  /\ pc[p] # "new" => calls[p] = CallEdges(FirstGraph)
  /\ \A c \in cut[p] : c[1] \in 1..at[p]
  /\ pc[p] \in Before \/ (pc[p] \in {"ask", "reply"} /\ pass[p] \in {"open", "definition"}) =>
       \A c \in cut[p] : c[1] < at[p]
  /\ \A i \in DOMAIN FirstGraph : IsNoCall(i) =>
       \/ i \in DOMAIN graph[p] /\ graph[p][i] = FirstGraph[i]
       \/ \E c \in cut[p] : c[2] < i
  /\ \A i \in DOMAIN FirstGraph : IsNoCall(i) =>
       \/ FirstGraph[i] \in ToSet(graph[p])
       \/ \E c \in cut[p] : c[1] < at[p] /\ c[2] < i

GraphInv == cut = [p \in Procs |-> cut[p]] /\ \A p \in Procs : GraphPart(p)

SameGraph(q) ==
  /\ pc'[q] = pc[q] /\ at'[q] = at[q] /\ graph'[q] = graph[q]
  /\ calls'[q] = calls[q] /\ pass'[q] = pass[q] /\ cut'[q] = cut[q]

LEMMA SameGraphPart == ASSUME NEW q, GraphPart(q), SameGraph(q) PROVE GraphPart(q)'
  BY DEF GraphPart, SameGraph

LEMMA GraphStep ==
  ASSUME Inv, GraphInv, NEW p \in Procs, Extract(p) \/ ProcStep(p)
  PROVE  /\ GraphPart(p)' /\ cut' = [q \in Procs |-> cut'[q]]
         /\ \A q \in Procs \ {p} : SameGraph(q)
  <1> DEFINE Goal == /\ GraphPart(p)' /\ cut' = [q \in Procs |-> cut'[q]]
                     /\ \A q \in Procs \ {p} : SameGraph(q)
  <1>0. /\ TypeInv /\ PlacePart(p) /\ at[p] \in Nat /\ GraphPart(p) /\ cut = [q \in Procs |-> cut[q]]
    BY DEF Inv, ProcInv, TypeInv, GraphInv
  <1>1. CASE Extract(p)
    <2>1. /\ pc[p] = "new" /\ pc'[p] = "language" /\ calls'[p] = CallEdges(FirstGraph)
          /\ at' = at /\ graph' = graph /\ pass' = pass /\ cut' = cut
          /\ \A q \in Procs \ {p} : pc'[q] = pc[q] /\ calls'[q] = calls[q]
      BY <1>0, <1>1 DEF Extract, Goto, TypeInv, bounds
    <2> QED BY <1>0, <2>1 DEF GraphPart, SameGraph, Before
  <1>2. ASSUME /\ graph' = graph /\ calls' = calls /\ pass' = pass /\ cut' = cut
               /\ \A q \in Procs \ {p} : pc'[q] = pc[q] /\ at'[q] = at[q],
               \/ /\ at'[p] = at[p] + 1 /\ pc'[p] = "language" /\ pc[p] # "new"
               \/ /\ at'[p] = at[p] /\ pc[p] # "new"
                  /\ \/ pc[p] \in Before /\ pc'[p] \in Before
                     \/ pc[p] \in {"ask", "reply"} /\ pc'[p] \in {"ask", "reply"}
                     \/ pc'[p] = "gone"
        PROVE  Goal
    <2>1. calls'[p] = CallEdges(FirstGraph) /\ \A c \in cut[p] : c[1] \in 1..at[p]
      BY <1>0, <1>2 DEF GraphPart
    <2>2. CASE at'[p] = at[p] + 1 /\ pc'[p] = "language"
      <3>1. \A c \in cut[p] : c[1] \in 1..at'[p] /\ c[1] < at'[p]
        BY <1>0, <2>1, <2>2
      <3>2. GraphPart(p)'
        BY <1>0, <1>2, <2>1, <3>1 DEF GraphPart
      <3> QED BY <1>0, <1>2, <3>2 DEF SameGraph
    <2>3. CASE at'[p] = at[p] /\ ~ (at'[p] = at[p] + 1 /\ pc'[p] = "language")
      <3>1. GraphPart(p)'
        BY <1>0, <1>2, <2>1, <2>3 DEF GraphPart, Before, Looking
      <3> QED BY <1>0, <1>2, <3>1 DEF SameGraph
    <2> QED BY <1>2, <2>2, <2>3
  <1>3. ASSUME NextLanguage(p), pc[p] # "new"
        PROVE  /\ at'[p] = at[p] + 1 /\ pc'[p] = "language"
               /\ \A q \in Procs \ {p} : pc'[q] = pc[q] /\ at'[q] = at[q]
    BY <1>0, <1>3 DEF NextLanguage, Goto, TypeInv
  <1>4. ASSUME NEW label, Goto(p, label)
        PROVE  pc'[p] = label /\ \A q \in Procs \ {p} : pc'[q] = pc[q]
    BY <1>0, <1>4 DEF Goto, TypeInv
  <1>5. ASSUME pc[p] \in {"connect", "start"}, Enter(p, "open", graph[p]),
               at' = at, graph' = graph, calls' = calls, cut' = cut
        PROVE  Goal
    <2>1. /\ pc'[p] = "ask" /\ pass'[p] = "open"
          /\ \A q \in Procs \ {p} : pc'[q] = pc[q] /\ pass'[q] = pass[q]
      BY <1>0, <1>5, EnterIs DEF PlacePart, Stages
    <2>2. pc[p] \in Before /\ pc[p] # "new"
      BY <1>5 DEF Before, Looking
    <2>3. GraphPart(p)'
      BY <1>0, <1>5, <2>1, <2>2 DEF GraphPart
    <2> QED BY <1>0, <1>5, <2>1, <2>3 DEF SameGraph
  <1>6. CASE TryLanguage(p)
    <2>1. /\ graph' = graph /\ calls' = calls /\ pass' = pass /\ cut' = cut /\ pc[p] = "language"
          /\ (NextLanguage(p) \/ (Goto(p, "provider") /\ at' = at))
      BY <1>6 DEF TryLanguage, work, bounds
    <2> QED BY <1>2, <1>3, <1>4, <2>1 DEF Before, Looking
  <1>7. CASE FindDaemon(p) \/ LookAgain(p) \/ EnsureDaemon(p)
    <2>1. /\ graph' = graph /\ calls' = calls /\ pass' = pass /\ cut' = cut /\ at' = at
          /\ pc[p] \in Looking /\ \E label \in Looking : Goto(p, label)
      BY <1>7 DEF FindDaemon, LookAgain, EnsureDaemon, IsDaemonRunning, work, bounds, Looking
    <2> QED BY <1>2, <1>4, <2>1 DEF Before, Looking
  <1>8. CASE Connect(p)
    <2>1. /\ graph' = graph /\ calls' = calls /\ at' = at /\ cut' = cut /\ pc[p] = "connect"
          /\ (Enter(p, "open", graph[p]) \/ (Goto(p, "start") /\ pass' = pass))
      BY <1>8 DEF Connect
    <2> QED BY <1>2, <1>4, <1>5, <2>1 DEF Before, Looking
  <1>9. CASE StartServer(p)
    <2>1. /\ graph' = graph /\ calls' = calls /\ cut' = cut /\ pc[p] = "start"
          /\ ((Enter(p, "open", graph[p]) /\ at' = at) \/ (NextLanguage(p) /\ pass' = pass))
      BY <1>9 DEF StartServer, bounds
    <2> QED BY <1>2, <1>3, <1>5, <2>1 DEF Before
  <1>10. CASE Ask(p)
    BY <1>2, <1>10 DEF Ask
  <1>11. CASE Send(p) \/ Receive(p) \/ EndOfFile(p) \/ GiveUp(p)
    <2>1. /\ graph' = graph /\ calls' = calls /\ pass' = pass /\ at' = at /\ cut' = cut
          /\ pc[p] \in {"ask", "reply"}
          /\ (pc' = pc \/ \E label \in {"ask", "reply"} : Goto(p, label))
      BY <1>11 DEF Send, Receive, EndOfFile, GiveUp, NoAnswer, bounds
    <2> QED BY <1>2, <1>4, <2>1
  <1>12. CASE EndPass(p)
    <2>1. /\ pc[p] = "ask" /\ at' = at /\ calls' = calls /\ pass[p] \in Stages
          /\ IsSequence(graph[p]) /\ (\A e \in learnt[p] : IsQuestion(p, e.question))
      BY <1>0, <1>12 DEF EndPass, PlacePart
    <2>2. PICK g \in Applied(p) : graph' = [graph EXCEPT ![p] = g] /\ Enter(p, Following(pass[p]), g)
      BY <1>12 DEF EndPass
    <2>3. /\ IsSequence(g)
          /\ \A i \in DOMAIN graph[p] :
               graph[p][i] \in ToSet(g) \/ (pass[p] = "definition" /\ i \in calls[p])
          /\ \A i \in DOMAIN graph[p] :
               \/ i \in DOMAIN g /\ g[i] = graph[p][i]
               \/ pass[p] = "definition" /\ (i \in calls[p] \/ \E j \in Nowhere(p) : j < i)
      BY <2>1, AppliedIs
    <2> DEFINE next == Following(pass[p])
               fresh == IF pass[p] = "definition" THEN {at[p]} \X Nowhere(p) ELSE {}
    <2>4. /\ next \in Stages \cup {"shutdown"} /\ next # "open"
          /\ (next = "definition" => pass[p] = "open")
      BY <2>1 DEF Following, Stages
    <2>5. /\ cut'[p] = cut[p] \cup fresh /\ cut' = [q \in Procs |-> cut'[q]]
          /\ \A q \in Procs \ {p} : cut'[q] = cut[q]
      BY <1>0, <1>12 DEF EndPass
    <2>6. \A c \in fresh : c[1] = at[p]
      OBVIOUS
    <2>7. pass[p] = "definition" => \A j \in Nowhere(p) : \E c \in fresh : c[2] = j
      <3>1. ASSUME pass[p] = "definition", NEW j \in Nowhere(p) PROVE \E c \in fresh : c[2] = j
        <4>1. <<at[p], j>> \in fresh /\ <<at[p], j>>[2] = j
          BY <3>1
        <4> HIDE DEF fresh
        <4> QED BY <4>1
      <3> QED BY <3>1
    <2>8. pass[p] # "definition" => fresh = {}
      OBVIOUS
    <2> HIDE DEF next, fresh
    <2>9. Enter(p, next, g)
      BY <2>2 DEF next
    <2>10. /\ pc'[p] \in {"ask", "shutdown"} /\ pass'[p] = next
           /\ \A q \in Procs \ {p} : pc'[q] = pc[q] /\ pass'[q] = pass[q]
      BY <1>0, <2>1, <2>3, <2>4, <2>9, EnterIs
    <2>11. graph'[p] = g /\ \A q \in Procs \ {p} : graph'[q] = graph[q]
      BY <1>0, <2>2 DEF TypeInv
    <2>12. ASSUME pass[p] \in {"open", "definition"}, NEW c \in cut[p] PROVE c[1] < at[p]
      BY <1>0, <2>1, <2>12 DEF GraphPart
    <2>13. ASSUME NEW i \in DOMAIN FirstGraph, IsNoCall(i)
           PROVE  /\ \/ i \in DOMAIN g /\ g[i] = FirstGraph[i]
                     \/ \E c \in cut'[p] : c[2] < i
                  /\ \/ FirstGraph[i] \in ToSet(g)
                     \/ \E c \in cut'[p] : c[1] < at[p] /\ c[2] < i
      <3>1. i \notin calls[p]
        BY <1>0, <2>1, <2>13 DEF GraphPart, CallEdges, IsNoCall
      <3>2. \/ i \in DOMAIN graph[p] /\ graph[p][i] = FirstGraph[i]
            \/ \E c \in cut[p] : c[2] < i
        BY <1>0, <2>13 DEF GraphPart
      <3>3. \/ i \in DOMAIN g /\ g[i] = FirstGraph[i]
            \/ \E c \in cut'[p] : c[2] < i
        <4>1. CASE \E c \in cut[p] : c[2] < i
          BY <2>5, <4>1
        <4>2. CASE i \in DOMAIN graph[p] /\ graph[p][i] = FirstGraph[i]
          <5>1. CASE i \in DOMAIN g /\ g[i] = graph[p][i]
            BY <4>2, <5>1
          <5>2. CASE pass[p] = "definition" /\ \E j \in Nowhere(p) : j < i
            <6>1. PICK j \in Nowhere(p) : j < i
              BY <5>2
            <6>2. PICK c \in fresh : c[2] = j
              BY <2>7, <5>2
            <6> QED BY <2>5, <6>1, <6>2
          <5> QED BY <2>3, <3>1, <4>2, <5>1, <5>2
        <4> QED BY <3>2, <4>1, <4>2
      <3>4. \/ FirstGraph[i] \in ToSet(graph[p])
            \/ \E c \in cut[p] : c[1] < at[p] /\ c[2] < i
        BY <1>0, <2>13 DEF GraphPart
      <3>5. CASE \E c \in cut[p] : c[1] < at[p] /\ c[2] < i
        BY <2>5, <3>3, <3>5
      <3>6. CASE ~ \E c \in cut[p] : c[1] < at[p] /\ c[2] < i
        <4>1. CASE pass[p] = "definition"
          <5>1. i \in DOMAIN graph[p] /\ graph[p][i] = FirstGraph[i]
            BY <2>12, <3>2, <3>6, <4>1
          <5> QED BY <2>3, <3>1, <3>3, <5>1
        <4>2. CASE pass[p] # "definition"
          <5>1. PICK j \in DOMAIN graph[p] : graph[p][j] = FirstGraph[i]
            BY <3>4, <3>6 DEF ToSet
          <5> QED BY <2>3, <3>3, <4>2, <5>1
        <4> QED BY <4>1, <4>2
      <3> QED BY <3>5, <3>6
    <2>14. /\ \A c \in cut'[p] : c[1] \in 1..at[p]
           /\ pass'[p] = "definition" => \A c \in cut'[p] : c[1] < at[p]
      <3>1. at[p] \in 1..at[p]
        BY <1>0 DEF TypeInv
      <3>2. \A c \in cut[p] : c[1] \in 1..at[p]
        BY <1>0 DEF GraphPart
      <3>3. ASSUME pass'[p] = "definition", NEW c \in cut'[p] PROVE c[1] < at[p]
        <4>1. pass[p] = "open"
          BY <2>4, <2>10, <3>3
        <4> QED BY <2>5, <2>8, <2>12, <3>3, <4>1
      <3> QED BY <2>5, <2>6, <3>1, <3>2, <3>3
    <2>15. calls'[p] = CallEdges(FirstGraph) /\ at'[p] = at[p] /\ pass'[p] # "open"
      BY <1>0, <2>1, <2>4, <2>10 DEF GraphPart
    <2>16. GraphPart(p)'
      BY <2>10, <2>11, <2>13, <2>14, <2>15 DEF GraphPart, Before, Looking
    <2> QED BY <2>1, <2>5, <2>10, <2>11, <2>16 DEF SameGraph
  <1>13. CASE Shutdown(p)
    <2>1. /\ graph' = graph /\ calls' = calls /\ pass' = pass /\ cut' = cut
          /\ NextLanguage(p) /\ pc[p] = "shutdown"
      BY <1>13 DEF Shutdown, bounds
    <2> QED BY <1>2, <1>3, <2>1
  <1>14. CASE Exit(p)
    <2>1. /\ graph' = graph /\ calls' = calls /\ pass' = pass /\ cut' = cut /\ at' = at
          /\ Goto(p, "gone") /\ pc[p] = "language"
      BY <1>14 DEF Exit, work, bounds
    <2> QED BY <1>2, <1>4, <2>1
  <1> QED BY <1>1, <1>6, <1>7, <1>8, <1>9, <1>10, <1>11, <1>12, <1>13, <1>14 DEF ProcStep

\* Edges that are no calls stay as they were extracted, for any number of
\* languages and whatever the servers answer, fail to answer or answer too late,
\* up to the first edge that was removed for an earlier language.
THEOREM LspOnlyCallsRefined == Spec => []OnlyCallsRefined
  <1>1. Init => GraphInv
    <2>1. \A i \in DOMAIN FirstGraph : FirstGraph[i] \in ToSet(FirstGraph)
      BY DEF ToSet
    <2> QED BY <2>1 DEF Init, GraphPart, GraphInv
  <1>2. Inv /\ GraphInv /\ [Next]_vars => GraphInv'
    <2> SUFFICES ASSUME Inv, GraphInv, [Next]_vars PROVE GraphInv'
      OBVIOUS
    <2>1. ASSUME NEW p \in Procs, Extract(p) \/ ProcStep(p) PROVE GraphInv'
      BY <2>1, GraphStep, SameGraphPart DEF GraphInv
    <2>2. ASSUME UNCHANGED <<pc, at, graph, calls, pass, cut>> PROVE GraphInv'
      <3>1. ASSUME NEW q \in Procs PROVE GraphPart(q)'
        BY <2>2, SameGraphPart DEF SameGraph, GraphInv
      <3> QED BY <2>2, <3>1 DEF GraphInv
    <2>3. ASSUME NEW d \in Keys, DaemonStep(d) PROVE GraphInv'
      BY <2>2, <2>3 DEF DaemonStep, Bind, Accept, Handle, HangUp, IdleExit, work, bounds
    <2>4. CASE UNCHANGED vars
      BY <2>2, <2>4 DEF vars, work, bounds
    <2> QED BY <2>1, <2>3, <2>4 DEF Next
  <1>3. GraphInv => OnlyCallsRefined
    BY DEF GraphInv, GraphPart, OnlyCallsRefined, Kept, IsNoCall
  <1> QED BY <1>1, <1>2, <1>3, InitInv, NextInv, PTL DEF Spec

=============================================================================
