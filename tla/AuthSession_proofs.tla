------------------------- MODULE AuthSession_proofs -------------------------
(***************************************************************************)
(* Proofs about AuthSession, for any number of tokens and operations: the  *)
(* latest operation has the last word, the secure store ends up in         *)
(* agreement with it, and only a session's own 401 ends it.                *)
(***************************************************************************)
EXTENDS AuthSession, SequenceTheorems, TLAPS

\* What a current operation may rely on at each await.
Running ==
  \A g \in Generations :
    /\ g > generation => operation[g].at = "ended"
    /\ operation[g].at = "reading" => operation[g].kind = "restore"
    /\ operation[g].at \in {"asking", "writing"} => operation[g].kind = "login"
    /\ operation[g].at = "loading" => operation[g].kind \in {"restore", "login"}
    /\ operation[g].at \in {"writing", "loading"} => operation[g].token # None
    /\ IsCurrent(g) /\ operation[g].at \in {"reading", "asking"} => accessToken = None
    /\ IsCurrent(g) /\ operation[g].at \in {"writing", "loading"}
         => accessToken = operation[g].token
    /\ IsCurrent(g) /\ operation[g].at \in {"reading", "asking", "writing", "loading"}
         => session = None

Last(q) == q[Len(q)]

\* Where the queue leaves the store: nothing waits in it while a session is there
\* or is being loaded, a login's write is the last of it, and so is a logout's clear.
Queue ==
  /\ \A i \in DOMAIN mutations : mutations[i].by <= generation
  /\ session # None => mutations = << >> /\ (unsure \/ stored = session)
  /\ SignedOut => IF mutations = << >> THEN unsure \/ stored = None
                  ELSE Last(mutations).to = None
  /\ \A g \in Generations : IsCurrent(g) =>
       /\ operation[g].at = "reading" => mutations = << >>
       /\ operation[g].at = "asking" => \A i \in DOMAIN mutations : mutations[i].by # g
       /\ operation[g].at = "writing" =>
            /\ mutations # << >> /\ Last(mutations).by = g
            /\ Last(mutations).to = operation[g].token
            /\ \A i \in DOMAIN mutations : mutations[i].by = g => i = Len(mutations)
       /\ operation[g].at = "loading" =>
            mutations = << >> /\ (unsure \/ stored = operation[g].token)

\* A 401 that is reported was for the token of the generation it is stamped with.
Verdicts ==
  /\ \A g \in sent \cup rejected :
       /\ g <= generation
       /\ operation[g].at \notin {"reading", "asking"}
       /\ operation[g].token # None
  /\ \A g \in rejected : operation[g].token \in refused
  /\ ExpiredWasRefused

Inv == LastWordWins /\ Running /\ Queue /\ Verdicts

(***************************************************************************)
(* Queues                                                                  *)
(***************************************************************************)

\* What the head leaves behind.
LEMMA TailFacts ==
  ASSUME NEW q \in Seq(Mutation), q # << >>
  PROVE  /\ Head(q) \in Mutation /\ Tail(q) \in Seq(Mutation)
         /\ Head(q) = q[1] /\ 1 \in DOMAIN q
         /\ \A i \in DOMAIN Tail(q) : i + 1 \in DOMAIN q /\ Tail(q)[i] = q[i + 1]
         /\ Len(Tail(q)) = Len(q) - 1
         /\ Tail(q) = << >> => Last(q) = Head(q) /\ Len(q) = 1
         /\ Tail(q) # << >> => Last(Tail(q)) = Last(q) /\ Len(q) # 1
<1>1. Len(q) \in Nat /\ Len(q) >= 1 /\ Head(q) = q[1] /\ 1 \in DOMAIN q
  OBVIOUS
<1>2. Tail(q) \in Seq(Mutation) /\ Len(Tail(q)) = Len(q) - 1
  OBVIOUS
<1>3. \A i \in DOMAIN Tail(q) : i + 1 \in DOMAIN q /\ Tail(q)[i] = q[i + 1]
  OBVIOUS
<1>4. Tail(q) = << >> <=> Len(q) = 1
  <2>1. Tail(q) = << >> => Len(Tail(q)) = 0
    BY EmptySeq, Zenon
  <2>2. Tail(q) # << >> => Len(Tail(q)) # 0
    BY <1>2, EmptySeq
  <2> QED
    BY <1>1, <1>2, <2>1, <2>2
<1>5. Tail(q) # << >> => Last(Tail(q)) = Last(q)
  BY <1>1, <1>2, <1>3, <1>4 DEF Last
<1> QED
  BY <1>1, <1>2, <1>3, <1>4, <1>5 DEF Last

LEMMA EntriesTyped ==
  ASSUME NEW q \in Seq(Mutation), NEW i \in DOMAIN q
  PROVE  q[i].by \in Nat
<1>1. q[i] \in Mutation
  OBVIOUS
<1> QED
  BY <1>1 DEF Mutation, Generations

LEMMA AppendFacts ==
  ASSUME NEW q \in Seq(Mutation), NEW m \in Mutation
  PROVE  /\ Append(q, m) \in Seq(Mutation) /\ Append(q, m) # << >>
         /\ Last(Append(q, m)) = m
         /\ Len(Append(q, m)) = Len(q) + 1
         /\ \A i \in DOMAIN Append(q, m) :
              \/ i \in DOMAIN q /\ Append(q, m)[i] = q[i]
              \/ i = Len(q) + 1 /\ Append(q, m)[i] = m
  BY DEF Last

(***************************************************************************)
(* One lemma per action                                                    *)
(***************************************************************************)

\* What Await and Return do to the operations.
LEMMA AwaitFacts ==
  ASSUME operation \in [Generations -> Operation], NEW g \in Generations,
         NEW at \in {"reading", "asking", "writing", "loading", "clearing", "ended"},
         NEW token \in MaybeToken, Await(g, at, token)
  PROVE  /\ operation' \in [Generations -> Operation]
         /\ operation'[g].at = at /\ operation'[g].token = token
         /\ operation'[g].kind = operation[g].kind
         /\ \A h \in Generations \ {g} : operation'[h] = operation[h]
  BY DEF Await, Operation

LEMMA ReturnFacts ==
  ASSUME operation \in [Generations -> Operation], NEW g \in Generations, Return(g)
  PROVE  /\ operation' \in [Generations -> Operation]
         /\ operation'[g].at = "ended" /\ operation'[g].token = operation[g].token
         /\ operation'[g].kind = operation[g].kind
         /\ \A h \in Generations \ {g} : operation'[h] = operation[h]
  BY DEF Return, Operation

LEMMA StartFacts ==
  ASSUME TypeOK, NEW op \in Operation, Start(op)
  PROVE  /\ generation + 1 \in Generations /\ generation' = generation + 1
         /\ generation' \in Generations /\ generation < MaxOperations
         /\ operation' \in [Generations -> Operation]
         /\ operation'[generation'] = op
         /\ \A h \in Generations \ {generation'} : operation'[h] = operation[h]
  BY AuthAssumptions DEF TypeOK, Start, Generations

LEMMA FreshFacts ==
  /\ Fresh \in [Generations -> Operation] /\ 1 \in Generations
  /\ Fresh[1].kind = "restore" /\ Fresh[1].at = "reading"
  /\ \A g \in Generations \ {1} : Fresh[g].kind = "none" /\ Fresh[g].at = "ended"
  BY AuthAssumptions DEF Fresh, Operation, Restore, Unused, MaybeToken, Generations

LEMMA InitInv == Init => Inv
<1> SUFFICES ASSUME Init PROVE Inv
  OBVIOUS
<1>1. mutations = << >> /\ mutations \in Seq(Mutation) /\ DOMAIN mutations = {}
  BY DEF Init
<1>2. LastWordWins
  BY <1>1, FreshFacts DEF Init, LastWordWins, TypeOK, MaybeToken
<1>3. Running
  BY FreshFacts DEF Init, Running, IsCurrent, Generations
<1>4. Queue
  BY <1>1, FreshFacts DEF Init, Queue, SignedOut, IsCurrent
<1>5. Verdicts
  BY FreshFacts DEF Init, Verdicts, ExpiredWasRefused
<1> QED
  BY <1>2, <1>3, <1>4, <1>5 DEF Inv

LEMMA KillInv ==
  ASSUME Inv, Kill
  PROVE  Inv'
<1>1. mutations' = << >> /\ mutations' \in Seq(Mutation) /\ DOMAIN mutations' = {}
  BY DEF Kill
<1>2. LastWordWins'
  BY <1>1, FreshFacts DEF Kill, Inv, LastWordWins, TypeOK, MaybeToken
<1>3. Running'
  BY FreshFacts DEF Kill, Running, IsCurrent, Generations
<1>4. Queue'
  BY <1>1, FreshFacts DEF Kill, Queue, SignedOut, IsCurrent
<1>5. Verdicts'
  BY FreshFacts DEF Kill, Verdicts, ExpiredWasRefused
<1> QED
  BY <1>2, <1>3, <1>4, <1>5 DEF Inv

LEMMA HasReadInv ==
  ASSUME Inv, NEW g \in Generations, HasRead(g)
  PROVE  Inv'
<1>1. CASE Return(g) /\ UNCHANGED accessToken
  BY <1>1, ReturnFacts
  DEF HasRead, Inv, LastWordWins, TypeOK, Running, Queue, Verdicts,
      ExpiredWasRefused, SignedOut, IsCurrent, network, store, Last
<1>2. CASE IsCurrent(g) /\ stored # None /\ accessToken' = stored /\ Await(g, "loading", stored)
  BY <1>2, AwaitFacts
  DEF HasRead, Inv, LastWordWins, TypeOK, Running, Queue, Verdicts,
      ExpiredWasRefused, SignedOut, IsCurrent, network, store, Last
<1> QED
  BY <1>1, <1>2 DEF HasRead

LEMMA LoginInv ==
  ASSUME Inv, Login
  PROVE  Inv'
<1> DEFINE op == [kind |-> "login", at |-> "asking", token |-> None]
<1>1. op \in Operation /\ op.kind = "login" /\ op.at = "asking" /\ op.token = None
  BY DEF Operation, MaybeToken
<1>2. Start(op)
  BY DEF Login
<1> HIDE DEF op
<1>3. /\ generation' = generation + 1 /\ generation' \in Generations
      /\ operation' \in [Generations -> Operation]
      /\ operation'[generation'] = op
      /\ \A h \in Generations \ {generation'} : operation'[h] = operation[h]
      /\ generation \in Nat
  BY <1>1, <1>2, StartFacts DEF Inv, LastWordWins, TypeOK, Generations
<1>10. LastWordWins'
  BY <1>1, <1>3 DEF Login, Inv, LastWordWins, TypeOK, MaybeToken, SignedOut, IsCurrent, network, store
<1>11. Running'
  BY <1>1, <1>3 DEF Login, Inv, Running, IsCurrent, Generations, network, store
<1>4. \A i \in DOMAIN mutations : mutations[i].by \in Nat /\ mutations[i].by <= generation
  BY EntriesTyped DEF Inv, Queue, LastWordWins, TypeOK
<1>12. Queue'
  <2>1. \A i \in DOMAIN mutations :
          mutations[i].by <= generation' /\ mutations[i].by # generation'
    BY <1>3, <1>4
  <2> QED
    BY <1>1, <1>3, <2>1 DEF Login, Queue, SignedOut, IsCurrent, store
<1>13. Verdicts'
  BY <1>1, <1>3 DEF Login, Inv, Verdicts, ExpiredWasRefused, Generations, LastWordWins, TypeOK,
      network, store
<1> QED
  BY <1>10, <1>11, <1>12, <1>13 DEF Inv

LEMMA HasTokenInv ==
  ASSUME Inv, NEW g \in Generations, NEW t \in Tokens, HasToken(g, t)
  PROVE  Inv'
<1>1. CASE ~IsCurrent(g)
  BY <1>1, ReturnFacts
  DEF HasToken, Inv, LastWordWins, TypeOK, Running, Queue, Verdicts,
      ExpiredWasRefused, SignedOut, IsCurrent, Last
<1>2. CASE IsCurrent(g)
  <2> DEFINE m == [by |-> g, to |-> t]
  <2>1. m \in Mutation /\ m.by = g /\ m.to = t /\ t # None
    BY AuthAssumptions DEF Mutation, MaybeToken
  <2>2. mutations' = Append(mutations, m)
    BY <1>2 DEF HasToken, Enqueue
  <2> HIDE DEF m
  <2>3. /\ mutations' \in Seq(Mutation) /\ mutations' # << >>
        /\ Last(mutations') = m
        /\ Len(mutations') = Len(mutations) + 1
        /\ \A i \in DOMAIN mutations' :
              \/ i \in DOMAIN mutations /\ mutations'[i] = mutations[i]
              \/ i = Len(mutations) + 1 /\ mutations'[i] = m
    BY <2>1, <2>2, AppendFacts DEF Inv, LastWordWins, TypeOK
  <2>4. Await(g, "writing", t) /\ accessToken' = t /\ session = None /\ session' = None
    BY <1>2 DEF HasToken, Inv, Running
  <2>5. /\ operation' \in [Generations -> Operation]
        /\ operation'[g].at = "writing" /\ operation'[g].token = t
        /\ operation'[g].kind = "login"
        /\ \A h \in Generations \ {g} : operation'[h] = operation[h]
    BY <2>4, AwaitFacts DEF HasToken, Inv, LastWordWins, TypeOK, Running, MaybeToken
  <2>6. LastWordWins'
    BY <1>2, <2>1, <2>3, <2>4, <2>5
    DEF HasToken, Inv, LastWordWins, TypeOK, MaybeToken, SignedOut, IsCurrent
  <2>7. Running'
    BY <1>2, <2>1, <2>4, <2>5 DEF HasToken, Inv, Running, IsCurrent
  <2>8. Queue'
    <3>1. \A i \in DOMAIN mutations' : mutations'[i].by <= generation'
      BY <1>2, <2>1, <2>3 DEF HasToken, Inv, Queue, IsCurrent, Generations
    <3>2. \A i \in DOMAIN mutations' : mutations'[i].by = g => i = Len(mutations')
      BY <1>2, <2>1, <2>3 DEF HasToken, Inv, Queue
    <3>3. generation' = g /\ ~SignedOut'
      BY <1>2, <2>5 DEF HasToken, IsCurrent, SignedOut
    <3> QED
      BY <2>1, <2>3, <2>4, <2>5, <3>1, <3>2, <3>3 DEF Queue, IsCurrent
  <2>9. Verdicts'
    BY <2>5 DEF HasToken, Inv, Verdicts, ExpiredWasRefused, LastWordWins, TypeOK
  <2> QED
    BY <2>6, <2>7, <2>8, <2>9 DEF Inv
<1> QED
  BY <1>1, <1>2

LEMMA NoTokenInv ==
  ASSUME Inv, NEW g \in Generations, NoToken(g)
  PROVE  Inv'
  BY ReturnFacts
  DEF NoToken, Inv, LastWordWins, TypeOK, Running, Queue, Verdicts,
      ExpiredWasRefused, SignedOut, IsCurrent, network, store, Last

LEMMA LoadedInv ==
  ASSUME Inv, NEW g \in Generations, Loaded(g)
  PROVE  Inv'
<1>1. /\ operation' \in [Generations -> Operation]
      /\ operation'[g].at = "ended" /\ operation'[g].token = operation[g].token
      /\ operation'[g].kind = operation[g].kind
      /\ \A h \in Generations \ {g} : operation'[h] = operation[h]
  BY ReturnFacts DEF Loaded, Inv, LastWordWins, TypeOK
<1>2. operation[g].at = "loading" /\ operation[g].token \in Tokens
  BY DEF Loaded, Inv, LastWordWins, TypeOK, Operation, MaybeToken, Running
<1>10. LastWordWins'
  BY <1>1, <1>2 DEF Loaded, Inv, Running, LastWordWins, TypeOK, MaybeToken, SignedOut, IsCurrent, network, store
<1>11. Running'
  BY <1>1, <1>2 DEF Loaded, Inv, Running, IsCurrent, Generations, network, store
<1>12. Queue'
  BY <1>1, <1>2 DEF Loaded, Inv, Queue, SignedOut, IsCurrent, Generations, Last, LastWordWins,
      TypeOK, Mutation, network, store
<1>13. Verdicts'
  BY <1>1, <1>2 DEF Loaded, Inv, Verdicts, ExpiredWasRefused, Generations, LastWordWins, TypeOK,
      network, store
<1> QED
  BY <1>10, <1>11, <1>12, <1>13 DEF Inv

\* The token of an operation whose /auth/me is answered with a 401 is refused.
LEMMA NotLoadedInv ==
  ASSUME Inv, NEW g \in Generations, NEW unauthorized \in BOOLEAN,
         NotLoaded(g, unauthorized)
  PROVE  Inv'
<1>1. /\ operation' \in [Generations -> Operation]
      /\ operation'[g].at \in {"clearing", "ended"}
      /\ operation'[g].token = operation[g].token
      /\ operation'[g].kind = operation[g].kind
      /\ \A h \in Generations \ {g} : operation'[h] = operation[h]
  BY AwaitFacts, ReturnFacts DEF NotLoaded, Inv, LastWordWins, TypeOK, Operation
<1>2. /\ operation[g].token \in Tokens /\ operation[g].token # None
      /\ operation[g].at = "loading" /\ operation[g].kind \in {"restore", "login"}
      /\ g <= generation
  BY DEF NotLoaded, Inv, LastWordWins, TypeOK, Operation, MaybeToken, Running, Generations
<1>6. /\ UNCHANGED <<sent, generation>> /\ refused \subseteq refused'
      /\ \A h \in rejected' : h \in rejected \/ (h = g /\ operation[g].token \in refused')
  BY DEF NotLoaded
<1>3. mutations' \in Seq(Mutation)
  BY AppendFacts DEF NotLoaded, Enqueue, Inv, LastWordWins, TypeOK, Mutation, MaybeToken
<1>4. CASE IsCurrent(g)
  <2>1. accessToken' = None /\ session = None /\ session' = None /\ generation' = g
    BY <1>2, <1>4 DEF NotLoaded, Inv, Running, IsCurrent
  <2>2. LastWordWins'
    BY <1>1, <1>2, <1>3, <2>1
    DEF NotLoaded, Inv, LastWordWins, TypeOK, MaybeToken, SignedOut
  <2>3. Running'
    BY <1>1, <1>2, <1>4, <2>1 DEF Inv, Running, IsCurrent, Generations, LastWordWins, TypeOK
  <2>4. \A i \in DOMAIN mutations' : mutations'[i].by <= generation'
    <3>1. CASE UNCHANGED mutations
      BY <3>1, <1>4, <2>1 DEF Inv, Queue, IsCurrent
    <3>2. CASE Enqueue(g, None)
      BY <3>2, <1>4, <2>1, AppendFacts
      DEF Enqueue, Inv, Queue, IsCurrent, Mutation, MaybeToken, LastWordWins, TypeOK,
          Generations
    <3> QED
      BY <3>1, <3>2, <1>4 DEF NotLoaded
  <2>5. Queue'
    BY <1>1, <1>2, <2>1, <2>4 DEF Queue, SignedOut, IsCurrent
  <2>6. Verdicts'
    BY <1>1, <1>2, <1>6 DEF Inv, Verdicts, ExpiredWasRefused, LastWordWins, TypeOK
  <2> QED
    BY <2>2, <2>3, <2>5, <2>6 DEF Inv
<1>5. CASE ~IsCurrent(g)
  <2>1. UNCHANGED <<accessToken, mutations, session, generation, stored, unsure>>
    BY <1>5 DEF NotLoaded
  <2>2. LastWordWins'
    BY <1>1, <1>2, <1>5, <2>1
    DEF NotLoaded, Inv, LastWordWins, TypeOK, MaybeToken, SignedOut, IsCurrent
  <2>3. Running'
    BY <1>1, <1>2, <1>5, <2>1 DEF Inv, Running, IsCurrent, Generations, LastWordWins, TypeOK
  <2>4. Queue'
    BY <1>1, <1>5, <2>1
    DEF Inv, Queue, SignedOut, IsCurrent, Last, LastWordWins, TypeOK
  <2>6. Verdicts'
    BY <1>1, <1>2, <1>6 DEF Inv, Verdicts, ExpiredWasRefused, LastWordWins, TypeOK
  <2> QED
    BY <2>2, <2>3, <2>4, <2>6 DEF Inv
<1> QED
  BY <1>4, <1>5

LEMMA MutateInv ==
  ASSUME Inv, NEW fails \in BOOLEAN, Mutate(fails)
  PROVE  Inv'
<1> DEFINE m == Head(mutations)
           g == m.by
           q == Tail(mutations)
<1>1. mutations \in Seq(Mutation) /\ mutations # << >> /\ mutations' = q
  BY DEF Mutate, Inv, LastWordWins, TypeOK
<1>2. /\ m \in Mutation /\ q \in Seq(Mutation)
      /\ m = mutations[1] /\ 1 \in DOMAIN mutations
      /\ \A i \in DOMAIN q : i + 1 \in DOMAIN mutations /\ q[i] = mutations[i + 1]
      /\ Len(q) = Len(mutations) - 1
      /\ q = << >> => Last(mutations) = m /\ Len(mutations) = 1
      /\ q # << >> => Last(q) = Last(mutations) /\ Len(mutations) # 1
  BY <1>1, TailFacts
<1>3. /\ g \in Generations /\ m.to \in MaybeToken
      /\ stored' = IF fails THEN stored ELSE m.to
      /\ unsure' = fails /\ Resume(g)
      /\ UNCHANGED <<accessToken, session, generation, network>>
  BY <1>2 DEF Mutate, Mutation
<1>4. session = None
  BY <1>1 DEF Inv, Queue
<1>5. Len(mutations) \in Nat /\ (\A i \in DOMAIN q : i \in Nat /\ i >= 1)
  BY <1>1, <1>2
<1> HIDE DEF m, g, q
<1>6. \A i \in DOMAIN q : q[i].by <= generation
  BY <1>2 DEF Inv, Queue
<1>7. CASE operation[g].at = "writing" /\ IsCurrent(g)
  <2>1. /\ operation' \in [Generations -> Operation]
        /\ operation'[g].at = "loading" /\ operation'[g].token = operation[g].token
        /\ operation'[g].kind = operation[g].kind
        /\ \A h \in Generations \ {g} : operation'[h] = operation[h]
    BY <1>3, <1>7, AwaitFacts DEF Resume, Inv, LastWordWins, TypeOK, Operation
  <2>2. q = << >> /\ m.to = operation[g].token
    BY <1>2, <1>3, <1>7 DEF Inv, Queue, g
  <2>3. g = generation /\ operation[g].kind = "login" /\ operation[g].token # None
        /\ accessToken = operation[g].token
    BY <1>3, <1>7 DEF IsCurrent, Inv, Running
  <2>4. LastWordWins'
    BY <1>1, <1>2, <1>3, <2>1, <2>3
    DEF Inv, LastWordWins, TypeOK, SignedOut, network, MaybeToken
  <2>5. Running'
    BY <1>3, <1>4, <2>1, <2>3 DEF Inv, Running, IsCurrent, Generations, LastWordWins, TypeOK
  <2>6. Queue'
    BY <1>1, <1>3, <1>4, <1>6, <2>1, <2>2, <2>3 DEF Queue, IsCurrent, SignedOut
  <2>7. Verdicts'
    BY <1>3, <2>1 DEF Inv, Verdicts, ExpiredWasRefused, network, LastWordWins, TypeOK
  <2> QED
    BY <2>4, <2>5, <2>6, <2>7 DEF Inv
<1>8. CASE ~(operation[g].at = "writing" /\ IsCurrent(g))
  <2>1. /\ operation' \in [Generations -> Operation]
        /\ operation'[g].at = "ended" /\ operation'[g].token = operation[g].token
        /\ operation'[g].kind = operation[g].kind
        /\ \A h \in Generations \ {g} : operation'[h] = operation[h]
    BY <1>3, <1>8, ReturnFacts DEF Resume, Inv, LastWordWins, TypeOK
  <2>2. LastWordWins'
    BY <1>1, <1>2, <1>3, <2>1
    DEF Inv, LastWordWins, TypeOK, SignedOut, network, MaybeToken
  <2>3. Running'
    BY <1>3, <2>1 DEF Inv, Running, IsCurrent, Generations, LastWordWins, TypeOK
  <2>4. Queue'
    <3>1. SignedOut' = SignedOut
      BY <1>3, <2>1 DEF SignedOut, Inv, LastWordWins, TypeOK
    <3>2. SignedOut => IF q = << >> THEN unsure' \/ stored' = None ELSE Last(q).to = None
      BY <1>1, <1>2, <1>3 DEF Inv, Queue
    <3>3. ASSUME NEW h \in Generations, generation = h
          PROVE  /\ operation'[h].at \notin {"reading", "loading"}
                 /\ operation'[h].at = "asking" => \A i \in DOMAIN q : q[i].by # h
                 /\ operation'[h].at = "writing" =>
                      /\ q # << >> /\ Last(q).by = h /\ Last(q).to = operation'[h].token
                      /\ \A i \in DOMAIN q : q[i].by = h => i = Len(q)
      <4>1. CASE h = g
        BY <4>1, <2>1
      <4>2. CASE h # g
        <5>1. operation'[h] = operation[h]
          BY <4>2, <2>1
        <5>2. operation[h].at = "writing" => q # << >>
          BY <1>2, <3>3, <4>2 DEF Inv, Queue, IsCurrent, g
        <5> QED
          BY <5>1, <5>2, <1>1, <1>2, <1>5, <3>3 DEF Inv, Queue, IsCurrent
      <4> QED
        BY <4>1, <4>2
    <3> QED
      BY <1>1, <1>3, <1>4, <1>6, <3>1, <3>2, <3>3 DEF Queue, IsCurrent
  <2>5. Verdicts'
    BY <1>3, <2>1 DEF Inv, Verdicts, ExpiredWasRefused, network, LastWordWins, TypeOK
  <2> QED
    BY <2>2, <2>3, <2>4, <2>5 DEF Inv
<1> QED
  BY <1>7, <1>8

\* A session ends by a logout, or by an expiry that its own 401 has caused.
LEMMA SignOutInv ==
  ASSUME Inv, NEW kind \in {"logout", "expire"}, SignOut(kind),
         rejected' \subseteq rejected, kind = "expire" => session \in refused
  PROVE  Inv'
<1> DEFINE op == [kind |-> kind, at |-> "clearing", token |-> session]
           m == [by |-> generation + 1, to |-> None]
<1>1. op \in Operation /\ op.kind = kind /\ op.at = "clearing" /\ op.token = session
  BY DEF Operation, Inv, LastWordWins, TypeOK
<1>2. Start(op) /\ mutations' = Append(mutations, m)
  BY DEF SignOut, Enqueue
<1>3. m.by = generation + 1 /\ m.to = None
  OBVIOUS
<1> HIDE DEF op
<1>4. /\ generation' = generation + 1 /\ generation' \in Generations
      /\ operation' \in [Generations -> Operation]
      /\ operation'[generation'] = op
      /\ \A h \in Generations \ {generation'} : operation'[h] = operation[h]
      /\ generation \in Nat
  BY <1>1, <1>2, StartFacts DEF Inv, LastWordWins, TypeOK, Generations
<1>5. m \in Mutation
  BY <1>4 DEF Mutation, MaybeToken
<1> HIDE DEF m
<1>6. /\ mutations' \in Seq(Mutation) /\ mutations' # << >> /\ Last(mutations') = m
      /\ \A i \in DOMAIN mutations' :
            \/ i \in DOMAIN mutations /\ mutations'[i] = mutations[i]
            \/ i = Len(mutations) + 1 /\ mutations'[i] = m
  BY <1>2, <1>5, AppendFacts DEF Inv, LastWordWins, TypeOK
<1>7. /\ accessToken' = None /\ session' = None
      /\ UNCHANGED <<stored, unsure, sent, issued, refused>>
  BY DEF SignOut
<1>8. LastWordWins'
  BY <1>4, <1>6, <1>7 DEF Inv, LastWordWins, TypeOK, MaybeToken
<1>9. Running'
  BY <1>1, <1>4, <1>7 DEF Inv, Running, IsCurrent, Generations
<1>10. Queue'
  <2>1. \A i \in DOMAIN mutations : mutations[i].by \in Nat /\ mutations[i].by <= generation
    BY EntriesTyped DEF Inv, Queue, LastWordWins, TypeOK
  <2>2. \A i \in DOMAIN mutations' : mutations'[i].by <= generation'
    BY <1>3, <1>4, <1>6, <2>1
  <2> QED
    BY <1>1, <1>3, <1>4, <1>6, <1>7, <2>2 DEF Queue, SignedOut, IsCurrent
<1>11. Verdicts'
  <2>1. \A h \in sent \cup rejected : h \in Generations /\ h # generation'
    BY <1>4 DEF Inv, Verdicts, LastWordWins, TypeOK, Generations
  <2>2. ExpiredWasRefused'
    BY <1>1, <1>4, <1>7 DEF Inv, Verdicts, ExpiredWasRefused
  <2>3. \A h \in sent' \cup rejected' :
          h \in sent \cup rejected /\ operation'[h] = operation[h] /\ h <= generation
    BY <1>4, <1>7, <2>1 DEF Inv, Verdicts
  <2>4. \A h \in sent' \cup rejected' : h <= generation'
    BY <1>4, <2>1, <2>3 DEF Generations
  <2> QED
    BY <1>7, <2>2, <2>3, <2>4 DEF Inv, Verdicts
<1> QED
  BY <1>8, <1>9, <1>10, <1>11 DEF Inv

LEMMA ExpireInv ==
  ASSUME Inv, NEW g \in Generations, Expire(g)
  PROVE  Inv'
<1>1. CASE IsCurrent(g) /\ session # None
  <2>1. session \in refused
    BY <1>1 DEF Expire, IsCurrent, Inv, LastWordWins, Verdicts
  <2> QED
    BY <1>1, <2>1, SignOutInv DEF Expire
<1>2. CASE ~(IsCurrent(g) /\ session # None)
  BY <1>2
  DEF Expire, Inv, LastWordWins, TypeOK, Running, Queue, Verdicts, ExpiredWasRefused,
      SignedOut, IsCurrent, Last, memory, store
<1> QED
  BY <1>1, <1>2

LEMMA RequestInv ==
  ASSUME Inv, Request
  PROVE  Inv'
<1>1. /\ operation[generation].at \notin {"reading", "asking"}
      /\ operation[generation].token # None /\ generation \in Generations
      /\ generation \in Nat
  BY DEF Request, Inv, LastWordWins, TypeOK, Running, IsCurrent, Generations
<1> QED
  BY <1>1
  DEF Request, Inv, LastWordWins, TypeOK, Running, Queue, Verdicts, ExpiredWasRefused,
      SignedOut, IsCurrent, Last, memory, store

LEMMA AnswerInv ==
  ASSUME Inv, NEW g \in Generations, NEW unauthorized \in BOOLEAN, Answer(g, unauthorized)
  PROVE  Inv'
<1>1. operation[g].token \in Tokens
  BY DEF Answer, Inv, Verdicts, LastWordWins, TypeOK, Operation, MaybeToken
<1>2. UNCHANGED <<memory, store>>
  BY DEF Answer
<1>3. LastWordWins'
  BY <1>1, <1>2 DEF Answer, Inv, LastWordWins, TypeOK, SignedOut, memory, store
<1>4. Running' /\ Queue'
  BY <1>2 DEF Inv, Running, Queue, SignedOut, IsCurrent, Last, memory, store
<1>5. Verdicts'
  BY <1>2 DEF Answer, Inv, Verdicts, ExpiredWasRefused, memory
<1> QED
  BY <1>3, <1>4, <1>5 DEF Inv

LEMMA NextInv ==
  ASSUME Inv, [Next]_vars
  PROVE  Inv'
<1>1. CASE Logout
  BY <1>1, SignOutInv DEF Logout
<1>2. CASE RunQueue
  BY <1>2, MutateInv DEF RunQueue
<1>3. ASSUME NEW g \in Generations, Step(g)
      PROVE  Inv'
  BY <1>3, HasReadInv, NoTokenInv, LoadedInv, HasTokenInv, NotLoadedInv DEF Step
<1>4. CASE UNCHANGED vars
  BY <1>4
  DEF Inv, LastWordWins, TypeOK, Running, Queue, Verdicts, ExpiredWasRefused,
      SignedOut, IsCurrent, Last, vars, memory, network, store
<1> QED
  BY <1>1, <1>2, <1>3, <1>4, LoginInv, RequestInv, KillInv, ExpireInv, AnswerInv DEF Next

(***************************************************************************)
(* Theorems                                                                *)
(***************************************************************************)

\* The invariant of the operations, the queue of the store and the answers of the server.
THEOREM Invariance == Spec => []Inv
  BY InitInv, NextInv, PTL DEF Spec

\* The types, and: what is shown and what requests carry comes from the latest
\* operation, whatever older restores and logins still do.
THEOREM TheLastWordWins == Spec => []LastWordWins
  BY Invariance, PTL DEF Inv

\* Once the queue has run, the secure store holds the token of the user who is
\* signed in, and none after a logout.
THEOREM TheStoreFollows == Spec => []StoreFollowsSession
<1>1. Inv => StoreFollowsSession
  BY DEF Inv, Queue, StoreFollowsSession
<1> QED
  BY <1>1, Invariance, PTL

\* A 401 ends the session whose token was refused, and no other.
THEOREM OnlyItsOwn401Expires == Spec => []ExpiredWasRefused
<1>1. Inv => ExpiredWasRefused
  BY DEF Inv, Verdicts
<1> QED
  BY <1>1, Invariance, PTL
=============================================================================
