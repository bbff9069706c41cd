-------------------------- MODULE ConnectionProofs --------------------------
(***************************************************************************)
(* A connection through two relays implements two pipes, for any capacity  *)
(* of the links and any number of chunks.                                  *)
(*                                                                         *)
(* Both directions are proved at once: a direction d has three queues in a *)
(* row, and the n-th of its two copiers moves chunks from queue n to queue *)
(* n + 1.  Every step of the connection is, for each direction, one of the *)
(* few moves below, and each move keeps the invariant and is a step of the *)
(* pipe.                                                                   *)
(***************************************************************************)
EXTENDS Connection, SequenceTheorems, TLAPS

-----------------------------------------------------------------------------
(* A direction *)

Place(n, d) == CASE n = 1 -> Near(d) [] n = 2 -> "middle" [] n = 3 -> Far(d)
Q(n, d) == link[Place(n, d)][d]

\* The relay of copier n of a direction.
IsHost(n, d) == (n = 1) <=> (d = "fwd")
PhaseOf(n, d) == IF IsHost(n, d) THEN hostPhase ELSE socksPhase
CopierOf(n, d) == IF IsHost(n, d) THEN hostCopier[d] ELSE socksCopier[d]

\* It copies nothing any more.
Stopped(n, d) ==
    /\ PhaseOf(n, d) # "connect"
    /\ ~(PhaseOf(n, d) = "relay" /\ CopierOf(n, d))

\* An end of file can only be the last of a queue.
HasEnd(q) == q # <<>> /\ q[Len(q)] = Fin
ChunksIn(q) == Len(q) - (IF HasEnd(q) THEN 1 ELSE 0)

\* The chunks of a queue are those after the first lo.
Run(q, lo) == \A i \in 1..ChunksIn(q) : q[i] = lo + i

-----------------------------------------------------------------------------
(* The inductive invariant *)

\* What was received, then what is in the queues, from the reader's end to the
\* writer's: 1, 2, 3, ..., up to what was sent.
RunInv(d) ==
    LET g == Len(got[d])
        c3 == ChunksIn(Q(3, d))
        c2 == ChunksIn(Q(2, d))
    IN  /\ \A i \in 1..g : got[d][i] = i
        /\ Run(Q(3, d), g)
        /\ Run(Q(2, d), g + c3)
        /\ Run(Q(1, d), g + c3 + c2)
        /\ sent[d] = g + c3 + c2 + ChunksIn(Q(1, d))

\* Behind an end of file nothing comes: the writer has ended, the copier stopped.
EndInv(d) ==
    /\ HasEnd(Q(1, d)) => ended[d]
    /\ HasEnd(Q(2, d)) => Stopped(1, d)
    /\ HasEnd(Q(3, d)) \/ over[d] = "eof" => Stopped(2, d)

\* Unless something broke, an end of file is passed on only when all before it is.
CleanInv(d) ==
    ~Broken =>
        /\ HasEnd(Q(2, d)) => HasEnd(Q(1, d)) /\ ChunksIn(Q(1, d)) = 0
        /\ HasEnd(Q(3, d)) \/ over[d] = "eof" =>
                HasEnd(Q(2, d)) /\ ChunksIn(Q(2, d)) = 0
        /\ over[d] = "eof" => ChunksIn(Q(3, d)) = 0

RoomInv(d) ==
    /\ ChunksIn(Q(1, d)) <= Cap
    /\ ChunksIn(Q(2, d)) <= Cap
    /\ ChunksIn(Q(3, d)) <= Cap

DirInv(d) == RunInv(d) /\ EndInv(d) /\ CleanInv(d) /\ RoomInv(d)

LinkType == [fwd : Seq(0..MaxData), back : Seq(0..MaxData), reset : BOOLEAN]

\* TypeOK without the length of the queues, which RoomInv implies.
Types ==
    /\ link \in [Link -> LinkType]
    /\ hostPhase \in Phase /\ hostCopier \in [Dir -> BOOLEAN]
    /\ socksPhase \in Phase /\ socksCopier \in [Dir -> BOOLEAN]
    /\ sent \in [Dir -> 0..MaxData] /\ ended \in [Dir -> BOOLEAN]
    /\ got \in [Dir -> Seq(1..MaxData)]
    /\ over \in [Dir -> {"no", "eof", "error"}]
    /\ vanished \in BOOLEAN

IInv == Types /\ \A d \in Dir : DirInv(d)

-----------------------------------------------------------------------------
(* The moves of a direction *)

SameQueues(d) == Q(1, d)' = Q(1, d) /\ Q(2, d)' = Q(2, d) /\ Q(3, d)' = Q(3, d)
SameEnds(d) ==
    /\ sent'[d] = sent[d] /\ got'[d] = got[d]
    /\ ended'[d] = ended[d] /\ over'[d] = over[d]

\* What no step takes back.
Lasting(d) ==
    /\ Broken => Broken'
    /\ Stopped(1, d) => Stopped(1, d)'
    /\ Stopped(2, d) => Stopped(2, d)'

\* Nothing moves; if an end is told of it, something is broken.
Rests(d) ==
    /\ SameQueues(d) /\ sent'[d] = sent[d] /\ got'[d] = got[d]
    /\ \/ ended'[d] = ended[d] /\ over'[d] = over[d]
       \/ /\ Broken'
          /\ ended'[d] \in {ended[d], TRUE}
          /\ over'[d] \in {over[d], IF over[d] = "no" THEN "error" ELSE over[d]}

Sends(d) ==
    /\ ~ended[d] /\ Len(Q(1, d)) < Cap
    /\ Q(1, d)' = Append(Q(1, d), sent[d] + 1)
    /\ Q(2, d)' = Q(2, d) /\ Q(3, d)' = Q(3, d)
    /\ sent'[d] = sent[d] + 1 /\ sent'[d] \in 0..MaxData
    /\ got'[d] = got[d] /\ ended'[d] = ended[d] /\ over'[d] = over[d]
    /\ Broken' <=> Broken

Finishes(d) ==
    /\ ~ended[d]
    /\ Q(1, d)' = Append(Q(1, d), Fin)
    /\ Q(2, d)' = Q(2, d) /\ Q(3, d)' = Q(3, d)
    /\ ended'[d] = TRUE
    /\ got'[d] = got[d] /\ sent'[d] = sent[d] /\ over'[d] = over[d]
    /\ Broken' <=> Broken

\* The reader's end takes a chunk, or the end of file.
Takes(d) ==
    /\ over[d] = "no" /\ Q(3, d) # <<>>
    /\ Q(3, d)' = Tail(Q(3, d))
    /\ Q(1, d)' = Q(1, d) /\ Q(2, d)' = Q(2, d)
    /\ sent'[d] = sent[d] /\ ended'[d] = ended[d]
    /\ \/ /\ Head(Q(3, d)) # Fin
          /\ got'[d] = Append(got[d], Head(Q(3, d))) /\ over'[d] = over[d]
       \/ /\ Head(Q(3, d)) = Fin
          /\ got'[d] = got[d] /\ over'[d] = "eof"
    /\ Broken' <=> Broken

\* Copier n moves a chunk.
Moves(n, d) ==
    /\ ~Stopped(n, d)
    /\ Q(n, d) # <<>> /\ Head(Q(n, d)) # Fin /\ Len(Q(n + 1, d)) < Cap
    /\ Q(n, d)' = Tail(Q(n, d))
    /\ Q(n + 1, d)' = Append(Q(n + 1, d), Head(Q(n, d)))
    /\ \A m \in (1..3) \ {n, n + 1} : Q(m, d)' = Q(m, d)
    /\ SameEnds(d)

\* It passes an end of file on and stops; also where something broke, or where
\* it never began.
PassesEnd(n, d) ==
    /\ ~Stopped(n, d) /\ Stopped(n, d)'
    /\ Broken' \/ (Q(n, d) # <<>> /\ Head(Q(n, d)) = Fin)
    /\ Q(n + 1, d)' = Append(Q(n + 1, d), Fin)
    /\ \A m \in (1..3) \ {n + 1} : Q(m, d)' = Q(m, d)
    /\ SameEnds(d)

DirNext(d) ==
    /\ Lasting(d)
    /\ \/ Rests(d) \/ Sends(d) \/ Finishes(d) \/ Takes(d)
       \/ \E n \in 1..2 : Moves(n, d) \/ PassesEnd(n, d)

-----------------------------------------------------------------------------
(* Queues *)

\* A queue is empty where its length is 0.
LEMMA EmptyIff ==
    ASSUME NEW q \in Seq(Nat)
    PROVE  q = <<>> <=> Len(q) = 0
  BY EmptySeq

\* A queue holds as many chunks as it is long, but for an end of file.
LEMMA ChunkCount ==
    ASSUME NEW q \in Seq(Nat)
    PROVE  /\ Len(q) \in Nat /\ ChunksIn(q) \in Nat
           /\ ChunksIn(q) <= Len(q) /\ Len(q) <= ChunksIn(q) + 1
           /\ ~HasEnd(q) => ChunksIn(q) = Len(q)
  <1>1. Len(q) \in Nat /\ (q # <<>> => Len(q) > 0)
    BY EmptySeq, LenProperties
  <1>2. QED
    BY <1>1 DEF ChunksIn, HasEnd

\* The next chunk at the end of a queue.
LEMMA Pushed ==
    ASSUME NEW q \in Seq(Nat), NEW lo \in Nat, Run(q, lo), ~HasEnd(q)
    PROVE  LET r == Append(q, lo + ChunksIn(q) + 1)
           IN  /\ ~HasEnd(r) /\ ChunksIn(r) = ChunksIn(q) + 1 /\ Run(r, lo)
  <1> DEFINE x == lo + ChunksIn(q) + 1
             r == Append(q, x)
  <1>1. ChunksIn(q) = Len(q) /\ Len(q) \in Nat /\ x \in Nat \ {0}
    BY ChunkCount
  <1>2. /\ r # <<>> /\ Len(r) = Len(q) + 1 /\ r[Len(q) + 1] = x
        /\ \A i \in 1..Len(q) : r[i] = q[i]
    BY <1>1, AppendProperties
  <1>3. ~HasEnd(r)
    BY <1>1, <1>2 DEF HasEnd, Fin
  <1>4. ChunksIn(r) = Len(q) + 1
    BY <1>2, <1>3 DEF ChunksIn
  <1>5. ASSUME NEW i \in 1..(Len(q) + 1) PROVE r[i] = lo + i
    <2>1. CASE i = Len(q) + 1
      BY <1>1, <1>2, <2>1
    <2>2. CASE i # Len(q) + 1
      <3>1. i \in 1..Len(q)
        BY <1>1, <2>2
      <3>2. QED
        BY <1>1, <1>2, <3>1 DEF Run
    <2>3. QED
      BY <2>1, <2>2
  <1>6. QED
    BY <1>1, <1>3, <1>4, <1>5 DEF Run

\* The end of file.
LEMMA PushedEnd ==
    ASSUME NEW q \in Seq(Nat), NEW lo \in Nat, Run(q, lo), ~HasEnd(q)
    PROVE  /\ HasEnd(Append(q, Fin)) /\ ChunksIn(Append(q, Fin)) = ChunksIn(q)
           /\ Run(Append(q, Fin), lo)
  <1> DEFINE r == Append(q, Fin)
  <1>1. ChunksIn(q) = Len(q) /\ Len(q) \in Nat /\ Fin \in Nat
    BY ChunkCount DEF Fin
  <1>2. /\ r # <<>> /\ Len(r) = Len(q) + 1 /\ r[Len(q) + 1] = Fin
        /\ \A i \in 1..Len(q) : r[i] = q[i]
    BY <1>1, AppendProperties
  <1>3. HasEnd(r)
    BY <1>1, <1>2 DEF HasEnd
  <1>4. ChunksIn(r) = ChunksIn(q)
    BY <1>1, <1>2, <1>3 DEF ChunksIn
  <1>5. QED
    BY <1>1, <1>2, <1>3, <1>4 DEF Run

\* The first chunk is taken.
LEMMA Popped ==
    ASSUME NEW q \in Seq(Nat), NEW lo \in Nat, Run(q, lo), q # <<>>, Head(q) # Fin
    PROVE  /\ Head(q) = lo + 1 /\ ChunksIn(q) > 0
           /\ ChunksIn(Tail(q)) = ChunksIn(q) - 1
           /\ HasEnd(Tail(q)) <=> HasEnd(q)
           /\ Run(Tail(q), lo + 1)
  <1>1. /\ Len(q) \in Nat \ {0} /\ Head(q) = q[1]
        /\ Len(Tail(q)) = Len(q) - 1
        /\ \A i \in 1..Len(Tail(q)) : Tail(q)[i] = q[i + 1]
        /\ Tail(q) \in Seq(Nat)
    BY EmptySeq, HeadTailProperties
  <1>empty. Tail(q) = <<>> <=> Len(Tail(q)) = 0
    BY <1>1, EmptyIff
  <1>2. HasEnd(q) => Len(q) > 1
    BY <1>1 DEF HasEnd
  <1>3. ChunksIn(q) \in Nat \ {0}
    BY <1>1, <1>2 DEF ChunksIn
  <1>4. Head(q) = lo + 1
    BY <1>1, <1>3 DEF Run
  <1>5. HasEnd(Tail(q)) <=> HasEnd(q)
    <2>1. CASE Len(q) = 1
      BY <1>1, <1>empty, <1>2, <2>1 DEF HasEnd
    <2>2. CASE Len(q) > 1
      <3>1. Tail(q)[Len(Tail(q))] = q[Len(q)]
        BY <1>1, <2>2
      <3>2. Tail(q) # <<>>
        BY <1>1, <1>empty, <2>2
      <3>3. QED
        BY <3>1, <3>2 DEF HasEnd
    <2>3. QED
      BY <1>1, <2>1, <2>2
  <1>6. ChunksIn(Tail(q)) = ChunksIn(q) - 1
    BY <1>1, <1>5 DEF ChunksIn
  <1>7. ASSUME NEW i \in 1..ChunksIn(Tail(q)) PROVE Tail(q)[i] = lo + 1 + i
    <2>1. i + 1 \in 1..ChunksIn(q) /\ i \in 1..Len(Tail(q))
      BY <1>1, <1>3, <1>6, ChunkCount
    <2>2. QED
      BY <1>1, <2>1 DEF Run
  <1>8. Run(Tail(q), lo + 1)
    BY <1>7 DEF Run
  <1>9. QED
    BY <1>3, <1>4, <1>5, <1>6, <1>8

\* The end of file is taken: it was alone.
LEMMA PoppedEnd ==
    ASSUME NEW q \in Seq(Nat), NEW lo \in Nat, Run(q, lo), q # <<>>, Head(q) = Fin
    PROVE  /\ HasEnd(q) /\ ChunksIn(q) = 0
           /\ ~HasEnd(Tail(q)) /\ ChunksIn(Tail(q)) = 0
           /\ \A l \in Nat : Run(Tail(q), l)
  <1>1. /\ Len(q) \in Nat \ {0} /\ Head(q) = q[1]
        /\ Len(Tail(q)) = Len(q) - 1 /\ Tail(q) \in Seq(Nat)
    BY EmptySeq, HeadTailProperties
  <1>2. ChunksIn(q) = 0
    <2>1. ChunksIn(q) > 0 => q[1] = lo + 1
      BY ChunkCount DEF Run
    <2>2. QED
      BY <1>1, <2>1, ChunkCount DEF Fin
  <1>3. Len(q) = 1 /\ HasEnd(q)
    BY <1>1, <1>2, ChunkCount
  <1>4. Tail(q) = <<>>
    <2>1. Len(Tail(q)) = 0
      BY <1>1, <1>3
    <2>2. QED
      BY <1>1, <2>1, EmptyIff
  <1>5. ~HasEnd(Tail(q)) /\ ChunksIn(Tail(q)) = 0
    BY <1>4, <1>1, <1>3 DEF HasEnd, ChunksIn
  <1>6. QED
    BY <1>2, <1>3, <1>5 DEF Run

-----------------------------------------------------------------------------
(* Each move keeps the invariant of its direction *)

\* The three places of a direction are links, and what is there is a queue.
LEMMA QueueType ==
    ASSUME Types, NEW d \in Dir, NEW n \in 1..3
    PROVE  /\ Place(n, d) \in Link
           /\ Q(n, d) \in Seq(0..MaxData) /\ Q(n, d) \in Seq(Nat)
  <1>1. Place(n, d) \in Link
    BY DEF Place, Near, Far, Link, Dir
  <1>2. Q(n, d) \in Seq(0..MaxData)
    BY <1>1 DEF Q, Types, LinkType, Dir
  <1>3. 0..MaxData \subseteq Nat
    OBVIOUS
  <1>4. QED
    BY <1>1, <1>2, <1>3, SeqMonotonic

\* Every count that the invariant of a direction adds up is a number.
LEMMA DirCounts ==
    ASSUME Types, NEW d \in Dir
    PROVE  /\ Q(1, d) \in Seq(Nat) /\ Q(2, d) \in Seq(Nat) /\ Q(3, d) \in Seq(Nat)
           /\ ChunksIn(Q(1, d)) \in Nat /\ ChunksIn(Q(2, d)) \in Nat
           /\ ChunksIn(Q(3, d)) \in Nat
           /\ Len(got[d]) \in Nat /\ sent[d] \in Nat
           /\ got[d] \in Seq(Nat)
  <1>1. \A n \in 1..3 : Q(n, d) \in Seq(Nat)
    BY QueueType
  <1>2. 1 \in 1..3 /\ 2 \in 1..3 /\ 3 \in 1..3
    OBVIOUS
  <1>3. got[d] \in Seq(Nat)
    <2>1. got[d] \in Seq(1..MaxData) /\ 1..MaxData \subseteq Nat
      BY DEF Types
    <2>2. QED
      BY <2>1, SeqMonotonic
  <1>4. sent[d] \in Nat
    BY MaxDataIsNat DEF Types
  <1>5. QED
    BY <1>1, <1>2, <1>3, <1>4, ChunkCount, LenProperties

\* A step that moves nothing in the direction keeps its invariant.
LEMMA RestsStep ==
    ASSUME Types, NEW d \in Dir, DirInv(d), Lasting(d), Rests(d)
    PROVE  DirInv(d)'
  <1>1. /\ Q(1, d)' = Q(1, d) /\ Q(2, d)' = Q(2, d) /\ Q(3, d)' = Q(3, d)
        /\ sent'[d] = sent[d] /\ got'[d] = got[d]
        /\ ended[d] => ended'[d]
        /\ over'[d] = "eof" => over[d] = "eof"
        /\ Broken => Broken'
        /\ Stopped(1, d) => Stopped(1, d)'
        /\ Stopped(2, d) => Stopped(2, d)'
    BY DEF Rests, SameQueues, Lasting
  <1>2. RunInv(d)'
    BY <1>1 DEF DirInv, RunInv
  <1>3. EndInv(d)' /\ RoomInv(d)'
    BY <1>1 DEF DirInv, EndInv, RoomInv
  <1>4. CleanInv(d)'
    BY <1>1 DEF DirInv, CleanInv
  <1>5. QED
    BY <1>2, <1>3, <1>4 DEF DirInv

\* A chunk that is sent is the next one behind all that are on their way.
LEMMA SendsStep ==
    ASSUME Types, NEW d \in Dir, DirInv(d), Lasting(d), Sends(d)
    PROVE  DirInv(d)'
  <1> DEFINE q == Q(1, d)
             lo == Len(got[d]) + ChunksIn(Q(3, d)) + ChunksIn(Q(2, d))
  <1>1. /\ q \in Seq(Nat) /\ lo \in Nat /\ Run(q, lo) /\ ~HasEnd(q)
        /\ ChunksIn(q) \in Nat /\ sent[d] = lo + ChunksIn(q)
    <2>1. q \in Seq(Nat) /\ lo \in Nat /\ ChunksIn(q) \in Nat
      BY DirCounts
    <2>2. Run(q, lo) /\ sent[d] = lo + ChunksIn(q)
      BY DEF DirInv, RunInv
    <2>3. ~HasEnd(q)
      BY DEF Sends, DirInv, EndInv
    <2>4. QED
      BY <2>1, <2>2, <2>3
  <1>room. ChunksIn(q) < Cap
    BY <1>1, ChunkCount DEF Sends
  <1>2. /\ Q(1, d)' = Append(q, lo + ChunksIn(q) + 1)
        /\ Q(2, d)' = Q(2, d) /\ Q(3, d)' = Q(3, d)
        /\ sent'[d] = sent[d] + 1 /\ got'[d] = got[d]
        /\ ended'[d] = ended[d] /\ over'[d] = over[d]
        /\ Broken' <=> Broken
        /\ Stopped(1, d) => Stopped(1, d)'
        /\ Stopped(2, d) => Stopped(2, d)'
    BY <1>1 DEF Sends, Lasting
  <1>3. ~HasEnd(Q(1, d)') /\ ChunksIn(Q(1, d)') = ChunksIn(q) + 1 /\ Run(Q(1, d)', lo)
    BY <1>1, <1>2, Pushed
  <1>4. RunInv(d)'
    <2>1. sent'[d] = lo + ChunksIn(Q(1, d)')
      <3>1. sent'[d] = sent[d] + 1 /\ ChunksIn(Q(1, d)') = ChunksIn(q) + 1
        BY <1>2, <1>3
      <3>2. sent[d] = lo + ChunksIn(q) /\ lo \in Nat /\ ChunksIn(q) \in Nat
        BY <1>1
      <3> HIDE DEF lo, q
      <3>3. QED
        BY <3>1, <3>2
    <2>2. QED
      BY <1>2, <1>3, <2>1 DEF DirInv, RunInv
  <1>5. EndInv(d)'
    BY <1>2, <1>3 DEF DirInv, EndInv
  <1>6. CleanInv(d)'
    BY <1>1, <1>2, <1>3 DEF DirInv, CleanInv
  <1>7. RoomInv(d)'
    BY <1>1, <1>room, <1>2, <1>3, DirCounts, CapIsPositive DEF DirInv, RoomInv
  <1>8. QED
    BY <1>4, <1>5, <1>6, <1>7 DEF DirInv

\* The writer's end of file goes behind its last chunk.
LEMMA FinishesStep ==
    ASSUME Types, NEW d \in Dir, DirInv(d), Lasting(d), Finishes(d)
    PROVE  DirInv(d)'
  <1> DEFINE q == Q(1, d)
             lo == Len(got[d]) + ChunksIn(Q(3, d)) + ChunksIn(Q(2, d))
  <1>1. q \in Seq(Nat) /\ lo \in Nat /\ Run(q, lo) /\ ~HasEnd(q)
    BY DirCounts DEF Finishes, DirInv, RunInv, EndInv
  <1>2. /\ Q(1, d)' = Append(q, Fin)
        /\ Q(2, d)' = Q(2, d) /\ Q(3, d)' = Q(3, d)
        /\ sent'[d] = sent[d] /\ got'[d] = got[d]
        /\ ended'[d] = TRUE /\ over'[d] = over[d]
        /\ Broken' <=> Broken
        /\ Stopped(1, d) => Stopped(1, d)'
        /\ Stopped(2, d) => Stopped(2, d)'
    BY DEF Finishes, Lasting
  <1>3. HasEnd(Q(1, d)') /\ ChunksIn(Q(1, d)') = ChunksIn(q) /\ Run(Q(1, d)', lo)
    BY <1>1, <1>2, PushedEnd
  <1>4. RunInv(d)'
    BY <1>2, <1>3 DEF DirInv, RunInv
  <1>5. EndInv(d)' /\ RoomInv(d)'
    BY <1>2, <1>3 DEF DirInv, EndInv, RoomInv
  <1>6. CleanInv(d)'
    BY <1>1, <1>2, <1>3 DEF DirInv, CleanInv
  <1>7. QED
    BY <1>4, <1>5, <1>6 DEF DirInv

\* What the reader takes is the chunk after the last one received.
LEMMA TakesStep ==
    ASSUME Types, NEW d \in Dir, DirInv(d), Lasting(d), Takes(d)
    PROVE  DirInv(d)'
  <1> DEFINE q == Q(3, d)
             g == Len(got[d])
  <1>1. /\ q \in Seq(Nat) /\ g \in Nat /\ Run(q, g) /\ q # <<>>
        /\ ChunksIn(q) \in Nat
    BY DirCounts DEF Takes, DirInv, RunInv
  <1>2. /\ Q(3, d)' = Tail(q)
        /\ Q(2, d)' = Q(2, d) /\ Q(1, d)' = Q(1, d)
        /\ sent'[d] = sent[d] /\ ended'[d] = ended[d]
        /\ over[d] = "no"
        /\ Broken' <=> Broken
        /\ Stopped(1, d) => Stopped(1, d)'
        /\ Stopped(2, d) => Stopped(2, d)'
    BY DEF Takes, Lasting
  <1>3. CASE Head(q) # Fin
    <2>1. /\ Head(q) = g + 1 /\ ChunksIn(q) > 0
          /\ ChunksIn(Tail(q)) = ChunksIn(q) - 1
          /\ HasEnd(Tail(q)) <=> HasEnd(q)
          /\ Run(Tail(q), g + 1)
      BY <1>1, <1>3, Popped
    <2>2. got'[d] = Append(got[d], g + 1) /\ over'[d] = over[d]
      BY <1>3, <2>1 DEF Takes
    <2>3. /\ Len(got'[d]) = g + 1
          /\ \A i \in 1..(g + 1) : got'[d][i] = i
      <3>1. /\ Len(got'[d]) = g + 1 /\ got'[d][g + 1] = g + 1
            /\ \A i \in 1..g : got'[d][i] = got[d][i]
        BY <1>1, <2>2, DirCounts, AppendProperties
      <3>2. \A i \in 1..(g + 1) : i \in 1..g \/ i = g + 1
        BY <1>1
      <3>3. QED
        BY <3>1, <3>2 DEF DirInv, RunInv
    <2>4. RunInv(d)'
      <3>1. g + ChunksIn(q) = Len(got'[d]) + ChunksIn(Q(3, d)')
        <4>1. ChunksIn(Q(3, d)') = ChunksIn(q) - 1
          BY <1>2, <2>1
        <4>2. ChunksIn(q) \in Nat /\ g \in Nat /\ Len(got'[d]) = g + 1
          BY <1>1, <2>3
        <4>3. QED
          BY <4>1, <4>2
      <3>2. QED
        BY <1>2, <2>1, <2>3, <3>1 DEF DirInv, RunInv
    <2>5. EndInv(d)'
      BY <1>2, <2>1, <2>2 DEF DirInv, EndInv
    <2>6. CleanInv(d)'
      BY <1>2, <2>1, <2>2 DEF DirInv, CleanInv
    <2>7. RoomInv(d)'
      <3>1. ChunksIn(Q(3, d)') <= Cap
        <4>1. ChunksIn(q) \in Nat /\ ChunksIn(q) <= Cap
          BY <1>1 DEF DirInv, RoomInv
        <4>2. ChunksIn(q) - 1 <= Cap
          BY <4>1, CapIsPositive
        <4>3. QED
          BY <4>2, <1>2, <2>1
      <3>2. QED
        BY <1>2, <3>1 DEF DirInv, RoomInv
    <2>8. QED
      BY <2>4, <2>5, <2>6, <2>7 DEF DirInv
  <1>4. CASE Head(q) = Fin
    <2>1. /\ HasEnd(q) /\ ChunksIn(q) = 0
          /\ ~HasEnd(Tail(q)) /\ ChunksIn(Tail(q)) = 0
          /\ Run(Tail(q), g)
      BY <1>1, <1>4, PoppedEnd
    <2>2. got'[d] = got[d] /\ over'[d] = "eof"
      BY <1>4 DEF Takes
    <2>3. RunInv(d)'
      BY <1>2, <2>1, <2>2 DEF DirInv, RunInv
    <2>4. EndInv(d)' /\ RoomInv(d)'
      BY <1>2, <2>1, <2>2 DEF DirInv, EndInv, RoomInv
    <2>5. CleanInv(d)'
      BY <1>2, <2>1, <2>2 DEF DirInv, CleanInv
    <2>6. QED
      BY <2>3, <2>4, <2>5 DEF DirInv
  <1>5. QED
    BY <1>3, <1>4
\* A chunk from one queue to the next.
LEMMA MovesStep ==
    ASSUME Types, NEW d \in Dir, DirInv(d), Lasting(d), NEW n \in 1..2, Moves(n, d)
    PROVE  DirInv(d)'
  <1> DEFINE g == Len(got[d])
             c(m) == ChunksIn(Q(m, d))
  <1>1. /\ Q(1, d) \in Seq(Nat) /\ Q(2, d) \in Seq(Nat) /\ Q(3, d) \in Seq(Nat)
        /\ c(1) \in Nat /\ c(2) \in Nat /\ c(3) \in Nat /\ g \in Nat
    BY DirCounts
  <1>2. /\ sent'[d] = sent[d] /\ got'[d] = got[d]
        /\ ended'[d] = ended[d] /\ over'[d] = over[d]
        /\ Broken => Broken'
        /\ Stopped(1, d) => Stopped(1, d)'
        /\ Stopped(2, d) => Stopped(2, d)'
    BY DEF Moves, SameEnds, Lasting
  <1>3. /\ Run(Q(3, d), g) /\ Run(Q(2, d), g + c(3)) /\ Run(Q(1, d), g + c(3) + c(2))
        /\ sent[d] = g + c(3) + c(2) + c(1)
        /\ c(1) <= Cap /\ c(2) <= Cap /\ c(3) <= Cap
    BY DEF DirInv, RunInv, RoomInv
  <1>4. CASE n = 1
    <2>1. /\ ~Stopped(1, d) /\ Q(1, d) # <<>> /\ Head(Q(1, d)) # Fin
          /\ Len(Q(2, d)) < Cap
          /\ Q(1, d)' = Tail(Q(1, d)) /\ Q(3, d)' = Q(3, d)
          /\ Q(2, d)' = Append(Q(2, d), Head(Q(1, d)))
      BY <1>4 DEF Moves
    <2>2. /\ Head(Q(1, d)) = g + c(3) + c(2) + 1 /\ c(1) > 0
          /\ ChunksIn(Q(1, d)') = c(1) - 1
          /\ HasEnd(Q(1, d)') <=> HasEnd(Q(1, d))
          /\ Run(Q(1, d)', g + c(3) + c(2) + 1)
      <3>1. g + c(3) + c(2) \in Nat
        BY <1>1
      <3>2. /\ Head(Q(1, d)) = g + c(3) + c(2) + 1 /\ c(1) > 0
            /\ ChunksIn(Tail(Q(1, d))) = c(1) - 1
            /\ HasEnd(Tail(Q(1, d))) <=> HasEnd(Q(1, d))
            /\ Run(Tail(Q(1, d)), g + c(3) + c(2) + 1)
        BY <1>1, <1>3, <2>1, <3>1, Popped
      <3>3. QED
        BY <2>1, <3>2
    <2>3. ~HasEnd(Q(2, d))
      BY <2>1 DEF DirInv, EndInv
    <2>4. /\ ~HasEnd(Q(2, d)') /\ ChunksIn(Q(2, d)') = c(2) + 1
          /\ Run(Q(2, d)', g + c(3))
      <3>1. g + c(3) \in Nat /\ Q(2, d)' = Append(Q(2, d), (g + c(3)) + c(2) + 1)
        <4>1. g + c(3) \in Nat
          BY <1>1
        <4>2. Q(2, d)' = Append(Q(2, d), g + c(3) + c(2) + 1)
          BY <2>1, <2>2
        <4>3. QED
          BY <4>1, <4>2
      <3>2. QED
        BY <1>1, <1>3, <2>3, <3>1, Pushed
    <2>5. c(2) < Cap
      BY <1>1, <2>1, <2>3, ChunkCount
    <2>6. RunInv(d)'
      <3>1. /\ g + c(3) + ChunksIn(Q(2, d)') = g + c(3) + c(2) + 1
            /\ sent[d] = g + c(3) + ChunksIn(Q(2, d)') + ChunksIn(Q(1, d)')
        <4>1. /\ ChunksIn(Q(1, d)') = c(1) - 1 /\ ChunksIn(Q(2, d)') = c(2) + 1
              /\ sent[d] = g + c(3) + c(2) + c(1)
              /\ c(1) \in Nat /\ c(2) \in Nat /\ c(3) \in Nat /\ g \in Nat
          BY <1>1, <1>3, <2>2, <2>4
        <4> HIDE DEF g, c
        <4>2. QED
          BY <4>1
      <3>2. QED
        BY <1>2, <1>3, <2>1, <2>2, <2>4, <3>1 DEF DirInv, RunInv
    <2>7. EndInv(d)'
      BY <1>2, <2>1, <2>2, <2>3, <2>4 DEF DirInv, EndInv
    <2>8. CleanInv(d)'
      BY <1>2, <2>1, <2>2, <2>3, <2>4 DEF DirInv, CleanInv
    <2>9. RoomInv(d)'
      <3>1. ChunksIn(Q(1, d)') <= Cap /\ ChunksIn(Q(2, d)') <= Cap
        <4>1. /\ ChunksIn(Q(1, d)') = c(1) - 1 /\ ChunksIn(Q(2, d)') = c(2) + 1
              /\ c(1) \in Nat /\ c(2) \in Nat /\ c(1) <= Cap /\ c(2) < Cap
          BY <1>1, <1>3, <2>2, <2>4, <2>5
        <4> HIDE DEF c
        <4>2. QED
          BY <4>1, CapIsPositive
      <3>2. QED
        BY <1>3, <2>1, <3>1 DEF RoomInv
    <2>10. QED
      BY <2>6, <2>7, <2>8, <2>9 DEF DirInv
  <1>5. CASE n = 2
    <2>1. /\ ~Stopped(2, d) /\ Q(2, d) # <<>> /\ Head(Q(2, d)) # Fin
          /\ Len(Q(3, d)) < Cap
          /\ Q(2, d)' = Tail(Q(2, d)) /\ Q(1, d)' = Q(1, d)
          /\ Q(3, d)' = Append(Q(3, d), Head(Q(2, d)))
      BY <1>5 DEF Moves
    <2>2. /\ Head(Q(2, d)) = g + c(3) + 1 /\ c(2) > 0
          /\ ChunksIn(Q(2, d)') = c(2) - 1
          /\ HasEnd(Q(2, d)') <=> HasEnd(Q(2, d))
          /\ Run(Q(2, d)', g + c(3) + 1)
      <3>1. g + c(3) \in Nat
        BY <1>1
      <3>2. /\ Head(Q(2, d)) = g + c(3) + 1 /\ c(2) > 0
            /\ ChunksIn(Tail(Q(2, d))) = c(2) - 1
            /\ HasEnd(Tail(Q(2, d))) <=> HasEnd(Q(2, d))
            /\ Run(Tail(Q(2, d)), g + c(3) + 1)
        BY <1>1, <1>3, <2>1, <3>1, Popped
      <3>3. QED
        BY <2>1, <3>2
    <2>3. ~HasEnd(Q(3, d)) /\ over[d] # "eof"
      BY <2>1 DEF DirInv, EndInv
    <2>4. /\ ~HasEnd(Q(3, d)') /\ ChunksIn(Q(3, d)') = c(3) + 1
          /\ Run(Q(3, d)', g)
      <3>1. Q(3, d)' = Append(Q(3, d), g + c(3) + 1)
        BY <2>1, <2>2
      <3>2. QED
        BY <1>1, <1>3, <2>3, <3>1, Pushed
    <2>5. c(3) < Cap
      BY <1>1, <2>1, <2>3, ChunkCount
    <2>6. RunInv(d)'
      <3>1. /\ g + ChunksIn(Q(3, d)') = g + c(3) + 1
            /\ g + ChunksIn(Q(3, d)') + ChunksIn(Q(2, d)') = g + c(3) + c(2)
        <4>1. /\ ChunksIn(Q(2, d)') = c(2) - 1 /\ ChunksIn(Q(3, d)') = c(3) + 1
              /\ c(1) \in Nat /\ c(2) \in Nat /\ c(3) \in Nat /\ g \in Nat
          BY <1>1, <2>2, <2>4
        <4> HIDE DEF g, c
        <4>2. QED
          BY <4>1
      <3>2. QED
        BY <1>2, <1>3, <2>1, <2>2, <2>4, <3>1 DEF DirInv, RunInv
    <2>7. EndInv(d)'
      BY <1>2, <2>1, <2>2, <2>3, <2>4 DEF DirInv, EndInv
    <2>8. CleanInv(d)'
      BY <1>2, <2>1, <2>2, <2>3, <2>4 DEF DirInv, CleanInv
    <2>9. RoomInv(d)'
      <3>1. ChunksIn(Q(2, d)') <= Cap /\ ChunksIn(Q(3, d)') <= Cap
        <4>1. /\ ChunksIn(Q(2, d)') = c(2) - 1 /\ ChunksIn(Q(3, d)') = c(3) + 1
              /\ c(2) \in Nat /\ c(3) \in Nat /\ c(2) <= Cap /\ c(3) < Cap
          BY <1>1, <1>3, <2>2, <2>4, <2>5
        <4> HIDE DEF c
        <4>2. QED
          BY <4>1, CapIsPositive
      <3>2. QED
        BY <1>3, <2>1, <3>1 DEF RoomInv
    <2>10. QED
      BY <2>6, <2>7, <2>8, <2>9 DEF DirInv
  <1>6. QED
    BY <1>4, <1>5

\* An end of file behind the last chunk, or where something broke.
LEMMA PassesEndStep ==
    ASSUME Types, NEW d \in Dir, DirInv(d), Lasting(d), NEW n \in 1..2,
           PassesEnd(n, d)
    PROVE  DirInv(d)'
  <1> DEFINE g == Len(got[d])
             c(m) == ChunksIn(Q(m, d))
  <1>1. /\ Q(1, d) \in Seq(Nat) /\ Q(2, d) \in Seq(Nat) /\ Q(3, d) \in Seq(Nat)
        /\ g \in Nat /\ g + c(3) \in Nat /\ g + c(3) + c(2) \in Nat
    <2>1. c(2) \in Nat /\ c(3) \in Nat /\ g \in Nat
      BY DirCounts
    <2>2. g + c(3) \in Nat /\ g + c(3) + c(2) \in Nat
      BY <2>1
    <2>3. QED
      BY <2>1, <2>2, DirCounts
  <1>2. /\ sent'[d] = sent[d] /\ got'[d] = got[d]
        /\ ended'[d] = ended[d] /\ over'[d] = over[d]
        /\ Broken => Broken'
        /\ Stopped(1, d) => Stopped(1, d)'
        /\ Stopped(2, d) => Stopped(2, d)'
    BY DEF PassesEnd, SameEnds, Lasting
  <1>3. Run(Q(3, d), g) /\ Run(Q(2, d), g + c(3)) /\ Run(Q(1, d), g + c(3) + c(2))
    BY DEF DirInv, RunInv
  <1>4. CASE n = 1
    <2>1. /\ ~Stopped(1, d) /\ Stopped(1, d)'
          /\ Broken' \/ (Q(1, d) # <<>> /\ Head(Q(1, d)) = Fin)
          /\ Q(1, d)' = Q(1, d) /\ Q(3, d)' = Q(3, d)
          /\ Q(2, d)' = Append(Q(2, d), Fin)
      BY <1>4 DEF PassesEnd
    <2>2. ~HasEnd(Q(2, d))
      BY <2>1 DEF DirInv, EndInv
    <2>3. /\ HasEnd(Q(2, d)') /\ ChunksIn(Q(2, d)') = c(2)
          /\ Run(Q(2, d)', g + c(3))
      BY <1>1, <1>3, <2>1, <2>2, PushedEnd
    <2>4. ~Broken' => HasEnd(Q(1, d)) /\ c(1) = 0
      BY <1>1, <1>3, <2>1, PoppedEnd
    <2>5. RunInv(d)' /\ RoomInv(d)'
      BY <1>2, <2>1, <2>3 DEF DirInv, RunInv, RoomInv
    <2>6. EndInv(d)'
      BY <1>2, <2>1 DEF DirInv, EndInv
    <2>7. CleanInv(d)'
      BY <1>2, <2>1, <2>2, <2>3, <2>4 DEF DirInv, CleanInv
    <2>8. QED
      BY <2>5, <2>6, <2>7 DEF DirInv
  <1>5. CASE n = 2
    <2>1. /\ ~Stopped(2, d) /\ Stopped(2, d)'
          /\ Broken' \/ (Q(2, d) # <<>> /\ Head(Q(2, d)) = Fin)
          /\ Q(1, d)' = Q(1, d) /\ Q(2, d)' = Q(2, d)
          /\ Q(3, d)' = Append(Q(3, d), Fin)
      BY <1>5 DEF PassesEnd
    <2>2. ~HasEnd(Q(3, d)) /\ over[d] # "eof"
      BY <2>1 DEF DirInv, EndInv
    <2>3. /\ HasEnd(Q(3, d)') /\ ChunksIn(Q(3, d)') = c(3)
          /\ Run(Q(3, d)', g)
      BY <1>1, <1>3, <2>1, <2>2, PushedEnd
    <2>4. ~Broken' => HasEnd(Q(2, d)) /\ c(2) = 0
      BY <1>1, <1>3, <2>1, PoppedEnd
    <2>5. RunInv(d)' /\ RoomInv(d)'
      BY <1>2, <2>1, <2>3 DEF DirInv, RunInv, RoomInv
    <2>6. EndInv(d)'
      BY <1>2, <2>1 DEF DirInv, EndInv
    <2>7. CleanInv(d)'
      BY <1>2, <2>1, <2>2, <2>3, <2>4 DEF DirInv, CleanInv
    <2>8. QED
      BY <2>5, <2>6, <2>7 DEF DirInv
  <1>6. QED
    BY <1>4, <1>5

\* Whatever the move, the invariant of the direction is kept.
LEMMA DirStep ==
    ASSUME Types, NEW d \in Dir, DirInv(d), DirNext(d)
    PROVE  DirInv(d)'
  <1>1. Lasting(d)
    BY DEF DirNext
  <1>2. QED
    BY <1>1, RestsStep, SendsStep, FinishesStep, TakesStep, MovesStep, PassesEndStep
       DEF DirNext
-----------------------------------------------------------------------------
(* What the updates of the links change *)

SameResets == \A l \in Link : link'[l].reset = link[l].reset

\* The three queues of a direction are on three links.
LEMMA PlacesDiffer ==
    ASSUME NEW d \in Dir, NEW m \in 1..3, NEW n \in 1..3, m # n
    PROVE  Place(m, d) # Place(n, d)
  BY DEF Place, Near, Far, Dir

\* An update of one queue leaves every other and all resets alone.
LEMMA OneUpdate ==
    ASSUME Types, NEW n \in 1..3, NEW d \in Dir, NEW x,
           link' = [link EXCEPT ![Place(n, d)][d] = x]
    PROVE  /\ Q(n, d)' = x
           /\ \A m \in (1..3) \ {n} : Q(m, d)' = Q(m, d)
           /\ \A e \in Dir \ {d} : SameQueues(e)
           /\ SameResets
  <1> DEFINE l == Place(n, d)
  <1>1. l \in Link
    BY QueueType
  <1>2. ASSUME NEW m \in Link, NEW e \in Dir
        PROVE  link'[m][e] = IF m = l /\ e = d THEN x ELSE link[m][e]
    BY <1>1 DEF Types, LinkType, Dir
  <1>3. SameResets
    BY <1>1 DEF SameResets, Types, LinkType, Dir
  <1>4. ASSUME NEW m \in 1..3, NEW e \in Dir
        PROVE  Q(m, e)' = IF m = n /\ e = d THEN x ELSE Q(m, e)
    BY <1>2, QueueType, PlacesDiffer DEF Q
  <1>5. QED
    BY <1>3, <1>4 DEF SameQueues

\* So does one that moves the head of a queue behind the next.
LEMMA TwoUpdates ==
    ASSUME Types, NEW n \in 1..2, NEW d \in Dir,
           link' = [link EXCEPT
                        ![Place(n, d)][d] = Tail(Q(n, d)),
                        ![Place(n + 1, d)][d] = Append(Q(n + 1, d), Head(Q(n, d)))]
    PROVE  /\ Q(n, d)' = Tail(Q(n, d))
           /\ Q(n + 1, d)' = Append(Q(n + 1, d), Head(Q(n, d)))
           /\ \A m \in (1..3) \ {n, n + 1} : Q(m, d)' = Q(m, d)
           /\ \A e \in Dir \ {d} : SameQueues(e)
           /\ SameResets
  <1> DEFINE l == Place(n, d)
             k == Place(n + 1, d)
             x == Tail(Q(n, d))
             y == Append(Q(n + 1, d), Head(Q(n, d)))
  <1>1. n \in 1..3 /\ n + 1 \in 1..3 /\ n # n + 1
    OBVIOUS
  <1>2. l \in Link /\ k \in Link /\ l # k
    BY <1>1, QueueType, PlacesDiffer
  <1>3. link' = [link EXCEPT ![l][d] = x, ![k][d] = y]
    OBVIOUS
  <1> HIDE DEF x, y
  <1>4. ASSUME NEW m \in Link, NEW e \in Dir
        PROVE  link'[m][e] = IF m = l /\ e = d THEN x
                             ELSE IF m = k /\ e = d THEN y ELSE link[m][e]
    <2>1. link'[m] = IF m = l THEN [link[m] EXCEPT ![d] = x]
                     ELSE IF m = k THEN [link[m] EXCEPT ![d] = y] ELSE link[m]
      BY <1>2, <1>3 DEF Types
    <2>2. QED
      BY <1>2, <2>1 DEF Types, LinkType, Dir
  <1>5. SameResets
    BY <1>2, <1>3 DEF SameResets, Types, LinkType, Dir
  <1>6. ASSUME NEW m \in 1..3, NEW e \in Dir
        PROVE  Q(m, e)' = IF m = n /\ e = d THEN x
                          ELSE IF m = n + 1 /\ e = d THEN y ELSE Q(m, e)
    <2>1. Place(m, e) \in Link
      BY QueueType
    <2>2. e = d /\ m # n => Place(m, e) # l
      BY <1>1, PlacesDiffer
    <2>3. e = d /\ m # n + 1 => Place(m, e) # k
      BY <1>1, PlacesDiffer
    <2>4. QED
      BY <1>2, <1>4, <2>1, <2>2, <2>3 DEF Q
  <1>7. Q(n, d)' = x /\ Q(n + 1, d)' = y
    BY <1>1, <1>6
  <1>8. QED
    BY <1>1, <1>5, <1>6, <1>7 DEF SameQueues, x, y

\* A reset touches no queue and takes no other reset back.
LEMMA ResetUpdate ==
    ASSUME Types, NEW l \in Link, link' = [link EXCEPT ![l].reset = TRUE]
    PROVE  /\ \A d \in Dir : SameQueues(d)
           /\ link'[l].reset = TRUE
           /\ \A m \in Link : link[m].reset => link'[m].reset
  <1>1. \A m \in Link, d \in Dir : link'[m][d] = link[m][d]
    BY DEF Types, LinkType, Dir
  <1>2. \A m \in Link : link'[m].reset = IF m = l THEN TRUE ELSE link[m].reset
    BY DEF Types
  <1>3. ASSUME NEW d \in Dir, NEW n \in 1..3 PROVE Q(n, d)' = Q(n, d)
    BY <1>1, QueueType DEF Q
  <1>4. \A d \in Dir : SameQueues(d)
    BY <1>3 DEF SameQueues
  <1>5. QED
    BY <1>2, <1>4

\* Where no link changes, no queue and no reset does.
LEMMA SameLinks ==
    ASSUME link' = link
    PROVE  (\A d \in Dir : SameQueues(d)) /\ SameResets
  BY DEF SameQueues, SameResets, Q

\* Nothing is mended and no copier starts again.
LEMMA LastingStep ==
    ASSUME \A l \in Link : link[l].reset => link'[l].reset,
           \/ hostPhase' = hostPhase
           \/ hostPhase = "connect"
           \/ hostPhase = "relay" /\ hostPhase' = "closed",
           \/ socksPhase' = socksPhase
           \/ socksPhase = "connect"
           \/ socksPhase = "relay" /\ socksPhase' = "closed",
           \A d \in Dir : hostCopier'[d] => hostCopier[d],
           \A d \in Dir : socksCopier'[d] => socksCopier[d],
           NEW d \in Dir
    PROVE  Lasting(d)
  <1>1. Broken => Broken'
    BY DEF Broken
  <1>2. Stopped(1, d) => Stopped(1, d)'
    BY DEF Stopped, PhaseOf, CopierOf
  <1>3. Stopped(2, d) => Stopped(2, d)'
    BY DEF Stopped, PhaseOf, CopierOf
  <1>4. QED
    BY <1>1, <1>2, <1>3 DEF Lasting

-----------------------------------------------------------------------------
(* What a copier does is a move of its direction *)

\* Copying a chunk moves it, and is nothing in the other direction.
LEMMA CopyIsMove ==
    ASSUME Types, NEW n \in 1..2, NEW d \in Dir,
           PhaseOf(n, d) = "relay", CopierOf(n, d),
           Q(n, d) # <<>>, Head(Q(n, d)) # Fin, Len(Q(n + 1, d)) < Cap,
           link' = [link EXCEPT
                        ![Place(n, d)][d] = Tail(Q(n, d)),
                        ![Place(n + 1, d)][d] = Append(Q(n + 1, d), Head(Q(n, d)))],
           UNCHANGED <<hostVars, socksVars, endVars>>
    PROVE  \A e \in Dir : DirNext(e)
  <1>1. /\ Q(n, d)' = Tail(Q(n, d))
        /\ Q(n + 1, d)' = Append(Q(n + 1, d), Head(Q(n, d)))
        /\ \A m \in (1..3) \ {n, n + 1} : Q(m, d)' = Q(m, d)
        /\ \A e \in Dir \ {d} : SameQueues(e)
        /\ SameResets
    BY TwoUpdates
  <1>2. UNCHANGED <<hostPhase, hostCopier, socksPhase, socksCopier, sent, ended, got, over>>
    BY DEF hostVars, socksVars, endVars
  <1>3. \A e \in Dir : Lasting(e)
    BY <1>1, <1>2, LastingStep DEF SameResets
  <1>4. Moves(n, d)
    BY <1>1, <1>2 DEF Moves, Stopped, SameEnds
  <1>5. \A e \in Dir \ {d} : Rests(e)
    BY <1>1, <1>2 DEF Rests
  <1>6. QED
    BY <1>3, <1>4, <1>5 DEF DirNext

\* Stopping passes an end of file on, or is nothing if the link is reset.
LEMMA StopIsMove ==
    ASSUME Types, NEW n \in 1..2, NEW d \in Dir,
           PhaseOf(n, d) = "relay", CopierOf(n, d),
           \/ Q(n, d) # <<>> /\ Head(Q(n, d)) = Fin
           \/ link[Place(n, d)].reset
           \/ link[Place(n + 1, d)].reset,
           link' = IF link[Place(n + 1, d)].reset THEN link
                   ELSE [link EXCEPT ![Place(n + 1, d)][d] = Append(Q(n + 1, d), Fin)],
           IF IsHost(n, d)
           THEN hostCopier' = [hostCopier EXCEPT ![d] = FALSE] /\ UNCHANGED socksCopier
           ELSE socksCopier' = [socksCopier EXCEPT ![d] = FALSE] /\ UNCHANGED hostCopier,
           UNCHANGED <<hostPhase, socksPhase, endVars>>
    PROVE  \A e \in Dir : DirNext(e)
  <1>1. UNCHANGED <<hostPhase, socksPhase, sent, ended, got, over>>
    BY DEF endVars
  <1>2. /\ \A e \in Dir : hostCopier'[e] => hostCopier[e]
        /\ \A e \in Dir : socksCopier'[e] => socksCopier[e]
        /\ ~CopierOf(n, d)'
    BY DEF Types, LinkType, CopierOf, IsHost
  <1>3. CASE link[Place(n + 1, d)].reset
    <2>1. (\A e \in Dir : SameQueues(e)) /\ SameResets
      BY <1>3, SameLinks
    <2>2. \A e \in Dir : Lasting(e)
      BY <1>1, <1>2, <2>1, LastingStep DEF SameResets
    <2>3. \A e \in Dir : Rests(e)
      BY <1>1, <2>1 DEF Rests
    <2>4. QED
      BY <2>2, <2>3 DEF DirNext
  <1>4. CASE ~link[Place(n + 1, d)].reset
    <2>1. n + 1 \in 1..3 /\ n \in 1..3
      OBVIOUS
    <2>2. /\ Q(n + 1, d)' = Append(Q(n + 1, d), Fin)
          /\ \A m \in (1..3) \ {n + 1} : Q(m, d)' = Q(m, d)
          /\ \A e \in Dir \ {d} : SameQueues(e)
          /\ SameResets
      BY <1>4, <2>1, OneUpdate
    <2>3. \A e \in Dir : Lasting(e)
      BY <1>1, <1>2, <2>2, LastingStep DEF SameResets
    <2>4. Broken' \/ (Q(n, d) # <<>> /\ Head(Q(n, d)) = Fin)
      BY <1>4, <2>1, <2>2, QueueType DEF Broken, SameResets
    <2>5. ~Stopped(n, d) /\ Stopped(n, d)'
      BY <1>1, <1>2 DEF Stopped, PhaseOf, IsHost
    <2>6. PassesEnd(n, d)
      BY <1>1, <2>2, <2>4, <2>5 DEF PassesEnd, SameEnds
    <2>7. \A e \in Dir \ {d} : Rests(e)
      BY <1>1, <2>2 DEF Rests
    <2>8. QED
      BY <2>3, <2>6, <2>7 DEF DirNext
  <1>5. QED
    BY <1>3, <1>4
-----------------------------------------------------------------------------
(* Each step of a relay is a move of each direction *)

\* Which copier of its direction a thread is.
LEMMA Copiers ==
    /\ PhaseOf(1, "fwd") = hostPhase /\ CopierOf(1, "fwd") = hostCopier["fwd"]
    /\ PhaseOf(2, "fwd") = socksPhase /\ CopierOf(2, "fwd") = socksCopier["fwd"]
    /\ PhaseOf(1, "back") = socksPhase /\ CopierOf(1, "back") = socksCopier["back"]
    /\ PhaseOf(2, "back") = hostPhase /\ CopierOf(2, "back") = hostCopier["back"]
    /\ IsHost(1, "fwd") /\ IsHost(2, "back")
    /\ ~IsHost(1, "back") /\ ~IsHost(2, "fwd")
    /\ Q(1, "fwd") = link["firefox"]["fwd"] /\ Q(2, "fwd") = link["middle"]["fwd"]
    /\ Q(3, "fwd") = link["server"]["fwd"]
    /\ Q(1, "back") = link["server"]["back"] /\ Q(2, "back") = link["middle"]["back"]
    /\ Q(3, "back") = link["firefox"]["back"]
    /\ Place(1, "fwd") = "firefox" /\ Place(2, "fwd") = "middle"
    /\ Place(3, "fwd") = "server"
    /\ Place(1, "back") = "server" /\ Place(2, "back") = "middle"
    /\ Place(3, "back") = "firefox"
  BY DEF PhaseOf, CopierOf, IsHost, Place, Near, Far, Q

\* The relay on the host copies a chunk.
LEMMA HostCopies ==
    ASSUME Types, NEW e \in Dir, Host!Copy(e), UNCHANGED <<socksVars, endVars>>
    PROVE  \A d \in Dir : DirNext(d)
  <1>1. UNCHANGED <<hostVars, socksVars, endVars>> /\ hostPhase = "relay" /\ hostCopier[e]
    BY DEF Host!Copy, Host!Copying, hostVars
  <1> USE DEF Host!Copy, Host!HasData, Host!Inbox, Host!Src, Host!Dst, Host!Fin, Fin
  <1>2. CASE e = "fwd"
    <2>1. /\ Q(1, e) # <<>> /\ Head(Q(1, e)) # Fin /\ Len(Q(2, e)) < Cap
          /\ link' = [link EXCEPT ![Place(1, e)][e] = Tail(Q(1, e)),
                                  ![Place(2, e)][e] = Append(Q(2, e), Head(Q(1, e)))]
      BY <1>2, Copiers
    <2>2. PhaseOf(1, e) = "relay" /\ CopierOf(1, e)
      BY <1>1, <1>2, Copiers
    <2>3. 1 \in 1..2 /\ 1 + 1 = 2
      OBVIOUS
    <2>4. QED
      BY <1>1, <2>1, <2>2, <2>3, CopyIsMove
  <1>3. CASE e = "back"
    <2>1. /\ Q(2, e) # <<>> /\ Head(Q(2, e)) # Fin /\ Len(Q(3, e)) < Cap
          /\ link' = [link EXCEPT ![Place(2, e)][e] = Tail(Q(2, e)),
                                  ![Place(3, e)][e] = Append(Q(3, e), Head(Q(2, e)))]
      BY <1>3, Copiers
    <2>2. PhaseOf(2, e) = "relay" /\ CopierOf(2, e)
      BY <1>1, <1>3, Copiers
    <2>3. 2 \in 1..2 /\ 2 + 1 = 3
      OBVIOUS
    <2>4. QED
      BY <1>1, <2>1, <2>2, <2>3, CopyIsMove
  <1>4. QED
    BY <1>2, <1>3 DEF Dir

\* A copier of the relay on the host stops.
LEMMA HostStops ==
    ASSUME Types, NEW e \in Dir, Host!StopCopy(e), UNCHANGED <<socksVars, endVars>>
    PROVE  \A d \in Dir : DirNext(d)
  <1>1. /\ hostPhase = "relay" /\ hostCopier[e]
        /\ hostCopier' = [hostCopier EXCEPT ![e] = FALSE]
        /\ UNCHANGED <<hostPhase, socksPhase, socksCopier, endVars>>
    BY DEF Host!StopCopy, Host!Copying, socksVars
  <1> USE DEF Host!StopCopy, Host!Shutdown, Host!Inbox, Host!Src, Host!Dst, Host!Fin, Fin
  <1>2. CASE e = "fwd"
    <2>1. /\ \/ Q(1, e) # <<>> /\ Head(Q(1, e)) = Fin
             \/ link[Place(1, e)].reset
             \/ link[Place(2, e)].reset
          /\ link' = IF link[Place(2, e)].reset THEN link
                     ELSE [link EXCEPT ![Place(2, e)][e] = Append(Q(2, e), Fin)]
      BY <1>2, Copiers
    <2>2. PhaseOf(1, e) = "relay" /\ CopierOf(1, e) /\ IsHost(1, e)
      BY <1>1, <1>2, Copiers
    <2>3. 1 \in 1..2 /\ 1 + 1 = 2
      OBVIOUS
    <2>4. QED
      BY <1>1, <2>1, <2>2, <2>3, StopIsMove
  <1>3. CASE e = "back"
    <2>1. /\ \/ Q(2, e) # <<>> /\ Head(Q(2, e)) = Fin
             \/ link[Place(2, e)].reset
             \/ link[Place(3, e)].reset
          /\ link' = IF link[Place(3, e)].reset THEN link
                     ELSE [link EXCEPT ![Place(3, e)][e] = Append(Q(3, e), Fin)]
      BY <1>3, Copiers
    <2>2. PhaseOf(2, e) = "relay" /\ CopierOf(2, e) /\ IsHost(2, e)
      BY <1>1, <1>3, Copiers
    <2>3. 2 \in 1..2 /\ 2 + 1 = 3
      OBVIOUS
    <2>4. QED
      BY <1>1, <2>1, <2>2, <2>3, StopIsMove
  <1>4. QED
    BY <1>2, <1>3 DEF Dir

\* Where no queue changes, nothing is told to an end.
LEMMA StillIsMove ==
    ASSUME \A d \in Dir : SameQueues(d), \A d \in Dir : Lasting(d), UNCHANGED endVars
    PROVE  \A d \in Dir : DirNext(d)
  BY DEF DirNext, Rests, endVars

\* The relay on the host begins, closes, is killed, or is told of a closed end.
LEMMA HostRests ==
    ASSUME Types, UNCHANGED <<socksVars, endVars>>,
           \/ Host!Begin \/ Host!Close \/ Host!Killed
           \/ \E e \in Dir : Host!ResetLate(e)
    PROVE  \A d \in Dir : DirNext(d)
  <1>1. ASSUME \A d \in Dir : SameQueues(d),
               \A l \in Link : link[l].reset => link'[l].reset,
               \/ hostPhase' = hostPhase
               \/ hostPhase = "connect"
               \/ hostPhase = "relay" /\ hostPhase' = "closed",
               \A d \in Dir : hostCopier'[d] => hostCopier[d]
        PROVE  \A d \in Dir : DirNext(d)
    BY <1>1, LastingStep, StillIsMove DEF socksVars
  <1>2. CASE Host!Begin \/ Host!Close
    BY <1>1, <1>2, SameLinks DEF Host!Begin, Host!Close, SameResets
  <1>3. CASE Host!Killed
    <2>1. link' = [link EXCEPT !["firefox"].reset = TRUE, !["middle"].reset = TRUE]
      BY <1>3 DEF Host!Killed
    <2>2. ASSUME NEW l \in Link, NEW d \in Dir PROVE link'[l][d] = link[l][d]
      <3>1. CASE l = "firefox" \/ l = "middle"
        <4>1. link'[l] = [link[l] EXCEPT !.reset = TRUE]
          BY <2>1, <3>1 DEF Types, LinkType, Link
        <4>2. QED
          BY <4>1 DEF Types, LinkType, Dir
      <3>2. CASE l = "server"
        BY <2>1, <3>2 DEF Types, LinkType, Link
      <3>3. QED
        BY <3>1, <3>2 DEF Link
    <2>3. \A l \in Link : link[l].reset => link'[l].reset
      BY <2>1 DEF Types, LinkType
    <2>4. \A d \in Dir : SameQueues(d)
      BY <2>2, Copiers DEF SameQueues, Q, Dir, Place, Near, Far, Link
    <2>5. \A d \in Dir : hostCopier'[d] => hostCopier[d]
      BY <1>3 DEF Host!Killed, Host!Dir, Dir
    <2>6. QED
      BY <1>1, <1>3, <2>3, <2>4, <2>5 DEF Host!Killed
  <1>4. CASE \E e \in Dir : Host!ResetLate(e)
    <2>1. PICK e \in Dir : Host!ResetLate(e)
      BY <1>4
    <2>2. Host!Src(e) \in Link /\ link' = [link EXCEPT ![Host!Src(e)].reset = TRUE]
      BY <2>1 DEF Host!ResetLate, Host!Src, Link
    <2>3. QED
      BY <1>1, <2>1, <2>2, ResetUpdate DEF Host!ResetLate
  <1>5. QED
    BY <1>2, <1>3, <1>4

\* What a refusal tells Firefox is an end of file that stands for nothing.
LEMMA HostRefusal ==
    ASSUME Types, Host!Refuse, UNCHANGED <<socksVars, endVars>>
    PROVE  \A d \in Dir : DirNext(d)
  <1>1. /\ hostPhase = "connect" /\ hostPhase' = "refused"
        /\ link' = [link EXCEPT ![Place(3, "back")]["back"] = Append(Q(3, "back"), Fin)]
        /\ UNCHANGED <<hostCopier, socksPhase, socksCopier, sent, ended, got, over>>
    BY Copiers DEF Host!Refuse, Host!Fin, Fin, socksVars, endVars
  <1>2. /\ Q(3, "back")' = Append(Q(3, "back"), Fin)
        /\ \A m \in (1..3) \ {3} : Q(m, "back")' = Q(m, "back")
        /\ SameQueues("fwd")
        /\ SameResets
    <2>1. 3 \in 1..3 /\ "back" \in Dir /\ "fwd" \in Dir \ {"back"}
      BY DEF Dir
    <2>2. QED
      BY <1>1, <2>1, OneUpdate
  <1>3. \A d \in Dir : Lasting(d)
    BY <1>1, <1>2, LastingStep DEF SameResets
  <1>4. ~Stopped(2, "back") /\ Stopped(2, "back")' /\ Broken'
    BY <1>1 DEF Stopped, PhaseOf, IsHost, Broken
  <1>5. PassesEnd(2, "back")
    BY <1>1, <1>2, <1>4 DEF PassesEnd, SameEnds
  <1>6. Rests("fwd")
    BY <1>1, <1>2 DEF Rests
  <1>7. QED
    BY <1>3, <1>5, <1>6 DEF DirNext, Dir
-----------------------------------------------------------------------------
(* Each step of the relay in the socks child, likewise *)

\* The relay of the socks child copies a chunk.
LEMMA SocksCopies ==
    ASSUME Types, NEW e \in Dir, Socks!Copy(e), UNCHANGED <<hostVars, endVars>>
    PROVE  \A d \in Dir : DirNext(d)
  <1>1. UNCHANGED <<socksVars, hostVars, endVars>> /\ socksPhase = "relay" /\ socksCopier[e]
    BY DEF Socks!Copy, Socks!Copying, socksVars
  <1> USE DEF Socks!Copy, Socks!HasData, Socks!Inbox, Socks!Src, Socks!Dst, Socks!Fin, Fin
  <1>2. CASE e = "fwd"
    <2>1. /\ Q(2, e) # <<>> /\ Head(Q(2, e)) # Fin /\ Len(Q(3, e)) < Cap
          /\ link' = [link EXCEPT ![Place(2, e)][e] = Tail(Q(2, e)),
                                  ![Place(3, e)][e] = Append(Q(3, e), Head(Q(2, e)))]
      BY <1>2, Copiers
    <2>2. PhaseOf(2, e) = "relay" /\ CopierOf(2, e)
      BY <1>1, <1>2, Copiers
    <2>3. 2 \in 1..2 /\ 2 + 1 = 3
      OBVIOUS
    <2>4. QED
      BY <1>1, <2>1, <2>2, <2>3, CopyIsMove
  <1>3. CASE e = "back"
    <2>1. /\ Q(1, e) # <<>> /\ Head(Q(1, e)) # Fin /\ Len(Q(2, e)) < Cap
          /\ link' = [link EXCEPT ![Place(1, e)][e] = Tail(Q(1, e)),
                                  ![Place(2, e)][e] = Append(Q(2, e), Head(Q(1, e)))]
      BY <1>3, Copiers
    <2>2. PhaseOf(1, e) = "relay" /\ CopierOf(1, e)
      BY <1>1, <1>3, Copiers
    <2>3. 1 \in 1..2 /\ 1 + 1 = 2
      OBVIOUS
    <2>4. QED
      BY <1>1, <2>1, <2>2, <2>3, CopyIsMove
  <1>4. QED
    BY <1>2, <1>3 DEF Dir

\* A copier of the socks child's relay stops.
LEMMA SocksStops ==
    ASSUME Types, NEW e \in Dir, Socks!StopCopy(e), UNCHANGED <<hostVars, endVars>>
    PROVE  \A d \in Dir : DirNext(d)
  <1>1. /\ socksPhase = "relay" /\ socksCopier[e]
        /\ socksCopier' = [socksCopier EXCEPT ![e] = FALSE]
        /\ UNCHANGED <<socksPhase, hostPhase, hostCopier, endVars>>
    BY DEF Socks!StopCopy, Socks!Copying, hostVars
  <1> USE DEF Socks!StopCopy, Socks!Shutdown, Socks!Inbox, Socks!Src, Socks!Dst, Socks!Fin, Fin
  <1>2. CASE e = "fwd"
    <2>1. /\ \/ Q(2, e) # <<>> /\ Head(Q(2, e)) = Fin
             \/ link[Place(2, e)].reset
             \/ link[Place(3, e)].reset
          /\ link' = IF link[Place(3, e)].reset THEN link
                     ELSE [link EXCEPT ![Place(3, e)][e] = Append(Q(3, e), Fin)]
      BY <1>2, Copiers
    <2>2. PhaseOf(2, e) = "relay" /\ CopierOf(2, e) /\ ~IsHost(2, e)
      BY <1>1, <1>2, Copiers
    <2>3. 2 \in 1..2 /\ 2 + 1 = 3
      OBVIOUS
    <2>4. QED
      BY <1>1, <2>1, <2>2, <2>3, StopIsMove
  <1>3. CASE e = "back"
    <2>1. /\ \/ Q(1, e) # <<>> /\ Head(Q(1, e)) = Fin
             \/ link[Place(1, e)].reset
             \/ link[Place(2, e)].reset
          /\ link' = IF link[Place(2, e)].reset THEN link
                     ELSE [link EXCEPT ![Place(2, e)][e] = Append(Q(2, e), Fin)]
      BY <1>3, Copiers
    <2>2. PhaseOf(1, e) = "relay" /\ CopierOf(1, e) /\ ~IsHost(1, e)
      BY <1>1, <1>3, Copiers
    <2>3. 1 \in 1..2 /\ 1 + 1 = 2
      OBVIOUS
    <2>4. QED
      BY <1>1, <2>1, <2>2, <2>3, StopIsMove
  <1>4. QED
    BY <1>2, <1>3 DEF Dir

\* The socks child's relay begins, closes, is killed, or is told of a closed end.
LEMMA SocksRests ==
    ASSUME Types, UNCHANGED <<hostVars, endVars>>,
           \/ Socks!Begin \/ Socks!Close \/ Socks!Killed
           \/ \E e \in Dir : Socks!ResetLate(e)
    PROVE  \A d \in Dir : DirNext(d)
  <1>1. ASSUME \A d \in Dir : SameQueues(d),
               \A l \in Link : link[l].reset => link'[l].reset,
               \/ socksPhase' = socksPhase
               \/ socksPhase = "connect"
               \/ socksPhase = "relay" /\ socksPhase' = "closed",
               \A d \in Dir : socksCopier'[d] => socksCopier[d]
        PROVE  \A d \in Dir : DirNext(d)
    BY <1>1, LastingStep, StillIsMove DEF hostVars
  <1>2. CASE Socks!Begin \/ Socks!Close
    BY <1>1, <1>2, SameLinks DEF Socks!Begin, Socks!Close, SameResets
  <1>3. CASE Socks!Killed
    <2>1. link' = [link EXCEPT !["middle"].reset = TRUE, !["server"].reset = TRUE]
      BY <1>3 DEF Socks!Killed
    <2>2. ASSUME NEW l \in Link, NEW d \in Dir PROVE link'[l][d] = link[l][d]
      <3>1. CASE l = "middle" \/ l = "server"
        <4>1. link'[l] = [link[l] EXCEPT !.reset = TRUE]
          BY <2>1, <3>1 DEF Types, LinkType, Link
        <4>2. QED
          BY <4>1 DEF Types, LinkType, Dir
      <3>2. CASE l = "firefox"
        BY <2>1, <3>2 DEF Types, LinkType, Link
      <3>3. QED
        BY <3>1, <3>2 DEF Link
    <2>3. \A l \in Link : link[l].reset => link'[l].reset
      BY <2>1 DEF Types, LinkType
    <2>4. \A d \in Dir : SameQueues(d)
      BY <2>2, Copiers DEF SameQueues, Q, Dir, Place, Near, Far, Link
    <2>5. \A d \in Dir : socksCopier'[d] => socksCopier[d]
      BY <1>3 DEF Socks!Killed, Socks!Dir, Dir
    <2>6. QED
      BY <1>1, <1>3, <2>3, <2>4, <2>5 DEF Socks!Killed
  <1>4. CASE \E e \in Dir : Socks!ResetLate(e)
    <2>1. PICK e \in Dir : Socks!ResetLate(e)
      BY <1>4
    <2>2. Socks!Src(e) \in Link /\ link' = [link EXCEPT ![Socks!Src(e)].reset = TRUE]
      BY <2>1 DEF Socks!ResetLate, Socks!Src, Link
    <2>3. QED
      BY <1>1, <2>1, <2>2, ResetUpdate DEF Socks!ResetLate
  <1>5. QED
    BY <1>2, <1>3, <1>4

\* That of the socks child tells it to the supervisor, which passes it on.
LEMMA SocksRefusal ==
    ASSUME Types, Socks!Refuse, UNCHANGED <<hostVars, endVars>>
    PROVE  \A d \in Dir : DirNext(d)
  <1>1. /\ socksPhase = "connect" /\ socksPhase' = "refused"
        /\ link' = [link EXCEPT ![Place(2, "back")]["back"] = Append(Q(2, "back"), Fin)]
        /\ UNCHANGED <<socksCopier, hostPhase, hostCopier, sent, ended, got, over>>
    BY Copiers DEF Socks!Refuse, Socks!Fin, Fin, hostVars, endVars
  <1>2. /\ Q(2, "back")' = Append(Q(2, "back"), Fin)
        /\ \A m \in (1..3) \ {2} : Q(m, "back")' = Q(m, "back")
        /\ SameQueues("fwd")
        /\ SameResets
    <2>1. 2 \in 1..3 /\ "back" \in Dir /\ "fwd" \in Dir \ {"back"}
      BY DEF Dir
    <2>2. QED
      BY <1>1, <2>1, OneUpdate
  <1>3. \A d \in Dir : Lasting(d)
    BY <1>1, <1>2, LastingStep DEF SameResets
  <1>4. ~Stopped(1, "back") /\ Stopped(1, "back")' /\ Broken'
    BY <1>1 DEF Stopped, PhaseOf, IsHost, Broken
  <1>5. PassesEnd(1, "back")
    BY <1>1, <1>2, <1>4 DEF PassesEnd, SameEnds
  <1>6. Rests("fwd")
    BY <1>1, <1>2 DEF Rests
  <1>7. QED
    BY <1>3, <1>5, <1>6 DEF DirNext, Dir

-----------------------------------------------------------------------------
(* Each step of an end is a move of each direction *)

\* What the ends do starts no copier again and mends nothing.
LEMMA OnlyEnds ==
    ASSUME UNCHANGED <<hostVars, socksVars>>,
           \A l \in Link : link[l].reset => link'[l].reset
    PROVE  \A d \in Dir : Lasting(d)
  BY LastingStep DEF hostVars, socksVars

\* And where no reset changes, nothing breaks either.
LEMMA SameBroken ==
    ASSUME UNCHANGED <<hostVars, socksVars>>, SameResets
    PROVE  (\A d \in Dir : Lasting(d)) /\ (Broken' <=> Broken)
  <1>1. \A d \in Dir : Lasting(d)
    BY OnlyEnds DEF SameResets
  <1>2. Broken' <=> Broken
    BY DEF Broken, SameResets, hostVars, socksVars
  <1>3. QED
    BY <1>1, <1>2

\* An end writes a chunk.
LEMMA SendIsMove ==
    ASSUME Types, NEW d \in Dir, Send(d)
    PROVE  \A e \in Dir : DirNext(e)
  <1>1. /\ ~ended[d] /\ sent[d] < MaxData /\ Len(Q(1, d)) < Cap
        /\ sent' = [sent EXCEPT ![d] = @ + 1]
        /\ link' = [link EXCEPT ![Place(1, d)][d] = Append(Q(1, d), sent[d] + 1)]
        /\ UNCHANGED <<hostVars, socksVars, ended, got, over>>
    BY DEF Send, Writes, Q, Place
  <1>2. /\ Q(1, d)' = Append(Q(1, d), sent[d] + 1)
        /\ \A m \in (1..3) \ {1} : Q(m, d)' = Q(m, d)
        /\ \A e \in Dir \ {d} : SameQueues(e)
        /\ SameResets
    <2>1. 1 \in 1..3
      OBVIOUS
    <2>2. QED
      BY <1>1, <2>1, OneUpdate
  <1>3. /\ sent'[d] = sent[d] + 1 /\ sent'[d] \in 0..MaxData
        /\ \A e \in Dir \ {d} : sent'[e] = sent[e]
    BY <1>1, MaxDataIsNat DEF Types
  <1>4. (\A e \in Dir : Lasting(e)) /\ (Broken' <=> Broken)
    BY <1>1, <1>2, SameBroken
  <1>5. Sends(d)
    BY <1>1, <1>2, <1>3, <1>4 DEF Sends
  <1>6. \A e \in Dir \ {d} : Rests(e)
    BY <1>1, <1>2, <1>3 DEF Rests
  <1>7. QED
    BY <1>4, <1>5, <1>6 DEF DirNext

\* An end closes its direction.
LEMMA FinishIsMove ==
    ASSUME Types, NEW d \in Dir, Finish(d)
    PROVE  \A e \in Dir : DirNext(e)
  <1>1. /\ ~ended[d]
        /\ ended' = [ended EXCEPT ![d] = TRUE]
        /\ link' = [link EXCEPT ![Place(1, d)][d] = Append(Q(1, d), Fin)]
        /\ UNCHANGED <<hostVars, socksVars, sent, got, over>>
    BY DEF Finish, Writes, Q, Place
  <1>2. /\ Q(1, d)' = Append(Q(1, d), Fin)
        /\ \A m \in (1..3) \ {1} : Q(m, d)' = Q(m, d)
        /\ \A e \in Dir \ {d} : SameQueues(e)
        /\ SameResets
    <2>1. 1 \in 1..3
      OBVIOUS
    <2>2. QED
      BY <1>1, <2>1, OneUpdate
  <1>3. ended'[d] = TRUE /\ \A e \in Dir \ {d} : ended'[e] = ended[e]
    BY <1>1 DEF Types
  <1>4. (\A e \in Dir : Lasting(e)) /\ (Broken' <=> Broken)
    BY <1>1, <1>2, SameBroken
  <1>5. Finishes(d)
    BY <1>1, <1>2, <1>3, <1>4 DEF Finishes
  <1>6. \A e \in Dir \ {d} : Rests(e)
    BY <1>1, <1>2, <1>3 DEF Rests
  <1>7. QED
    BY <1>4, <1>5, <1>6 DEF DirNext

\* An end takes a chunk or the end of file.
LEMMA ReadIsMove ==
    ASSUME Types, NEW d \in Dir, Read(d)
    PROVE  \A e \in Dir : DirNext(e)
  <1>1. /\ over[d] = "no" /\ Q(3, d) # <<>>
        /\ IF Head(Q(3, d)) = Fin
           THEN over' = [over EXCEPT ![d] = "eof"] /\ UNCHANGED got
           ELSE got' = [got EXCEPT ![d] = Append(@, Head(Q(3, d)))] /\ UNCHANGED over
        /\ link' = [link EXCEPT ![Place(3, d)][d] = Tail(Q(3, d))]
        /\ UNCHANGED <<hostVars, socksVars, sent, ended>>
    BY DEF Read, Reads, Q, Place
  <1>2. /\ Q(3, d)' = Tail(Q(3, d))
        /\ \A m \in (1..3) \ {3} : Q(m, d)' = Q(m, d)
        /\ \A e \in Dir \ {d} : SameQueues(e)
        /\ SameResets
    <2>1. 3 \in 1..3
      OBVIOUS
    <2>2. QED
      BY <1>1, <2>1, OneUpdate
  <1>3. /\ Head(Q(3, d)) # Fin =>
            got'[d] = Append(got[d], Head(Q(3, d))) /\ over' = over
        /\ Head(Q(3, d)) = Fin => got' = got /\ over'[d] = "eof"
        /\ \A e \in Dir \ {d} : got'[e] = got[e] /\ over'[e] = over[e]
    BY <1>1 DEF Types
  <1>4. (\A e \in Dir : Lasting(e)) /\ (Broken' <=> Broken)
    BY <1>1, <1>2, SameBroken
  <1>5. Takes(d)
    BY <1>1, <1>2, <1>3, <1>4 DEF Takes
  <1>6. \A e \in Dir \ {d} : Rests(e)
    BY <1>1, <1>2, <1>3 DEF Rests
  <1>7. QED
    BY <1>4, <1>5, <1>6 DEF DirNext

\* An end meets a reset.
LEMMA ReadFailsIsMove ==
    ASSUME Types, NEW d \in Dir, ReadFails(d)
    PROVE  \A e \in Dir : DirNext(e)
  <1>1. /\ over[d] = "no" /\ link[Far(d)].reset
        /\ over' = [over EXCEPT ![d] = "error"]
        /\ UNCHANGED <<link, hostVars, socksVars, sent, ended, got>>
    BY DEF ReadFails, Reads
  <1>2. (\A e \in Dir : SameQueues(e)) /\ SameResets
    BY <1>1, SameLinks
  <1>3. (\A e \in Dir : Lasting(e)) /\ Broken /\ (Broken' <=> Broken)
    BY <1>1, <1>2, SameBroken DEF Broken, Far, Link, Dir
  <1>4. over'[d] = "error" /\ \A e \in Dir \ {d} : over'[e] = over[e]
    BY <1>1 DEF Types
  <1>5. \A e \in Dir : Rests(e)
    BY <1>1, <1>2, <1>3, <1>4 DEF Rests
  <1>6. QED
    BY <1>3, <1>5 DEF DirNext

\* An end resets its link.
LEMMA AbortIsMove ==
    ASSUME Types, NEW d \in Dir, Abort(d)
    PROVE  \A e \in Dir : DirNext(e)
  <1>1. /\ Near(d) \in Link /\ link' = [link EXCEPT ![Near(d)].reset = TRUE]
        /\ ended' = [ended EXCEPT ![d] = TRUE]
        /\ over' = [e \in Dir |-> IF e # d /\ over[e] = "no" THEN "error" ELSE over[e]]
        /\ UNCHANGED <<hostVars, socksVars, sent, got>>
    BY DEF Abort, Near, Link
  <1>2. /\ \A e \in Dir : SameQueues(e)
        /\ link'[Near(d)].reset = TRUE
        /\ \A l \in Link : link[l].reset => link'[l].reset
    BY <1>1, ResetUpdate
  <1>3. (\A e \in Dir : Lasting(e)) /\ Broken'
    BY <1>1, <1>2, OnlyEnds DEF Broken
  <1>4. \A e \in Dir : /\ ended'[e] \in {ended[e], TRUE}
                       /\ over'[e] \in {over[e], IF over[e] = "no" THEN "error" ELSE over[e]}
    BY <1>1 DEF Types
  <1>5. \A e \in Dir : Rests(e)
    BY <1>1, <1>2, <1>3, <1>4 DEF Rests
  <1>6. QED
    BY <1>3, <1>5 DEF DirNext

-----------------------------------------------------------------------------
\* Every step of the connection is a move of each direction.
LEMMA NextIsMoves == Types /\ [Next]_vars => \A d \in Dir : DirNext(d)
<1> SUFFICES ASSUME Types, [Next]_vars PROVE \A d \in Dir : DirNext(d)
  OBVIOUS
<1>1. CASE HostBegins \/ HostRelays \/ HostKilled
  BY <1>1, HostCopies, HostStops, HostRests
     DEF HostBegins, HostRelays, HostKilled, Host!Thread, Host!Dir, Dir
<1>2. CASE SocksBegins \/ SocksRelays \/ SocksKilled
  BY <1>2, SocksCopies, SocksStops, SocksRests
     DEF SocksBegins, SocksRelays, SocksKilled, Socks!Thread, Socks!Dir, Dir
<1>3. CASE HostRefuses
  BY <1>3, HostRefusal DEF HostRefuses
<1>4. CASE SocksRefuses
  BY <1>4, SocksRefusal DEF SocksRefuses
<1>5. CASE Ends
  BY <1>5, SendIsMove, FinishIsMove, ReadIsMove, ReadFailsIsMove, AbortIsMove DEF Ends
<1>6. CASE Vanish \/ UNCHANGED vars
  <2>1. UNCHANGED <<link, hostVars, socksVars, sent, ended, got, over>>
    BY <1>6 DEF Vanish, vars, endVars
  <2>2. (\A d \in Dir : SameQueues(d)) /\ SameResets
    BY <2>1, SameLinks
  <2>3. \A d \in Dir : Lasting(d)
    BY <2>1, <2>2, SameBroken
  <2>4. QED
    BY <2>1, <2>2, <2>3 DEF DirNext, Rests
<1>7. QED
  BY <1>1, <1>2, <1>3, <1>4, <1>5, <1>6 DEF Next
-----------------------------------------------------------------------------
(* The types *)

\* An update of one field of a link is a link.
LEMMA RecordUpdates ==
    /\ \A r \in LinkType, d \in Dir, q \in Seq(0..MaxData) :
            [r EXCEPT ![d] = q] \in LinkType
    /\ \A r \in LinkType : [r EXCEPT !.reset = TRUE] \in LinkType
<1>1. \A r \in LinkType, d \in Dir, q \in Seq(0..MaxData) :
            [r EXCEPT ![d] = q] \in LinkType
  BY DEF LinkType, Dir
<1>2. \A r \in LinkType : [r EXCEPT !.reset = TRUE] \in LinkType
  BY DEF LinkType
<1>3. QED
  BY <1>1, <1>2

\* The links stay links when one queue changes,
LEMMA OneCell ==
    ASSUME Types, NEW l \in Link, NEW d \in Dir, NEW x \in Seq(0..MaxData)
    PROVE  [link EXCEPT ![l][d] = x] \in [Link -> LinkType]
  BY RecordUpdates DEF Types

\* when two do,
LEMMA TwoCells ==
    ASSUME Types, NEW l \in Link, NEW d \in Dir, NEW x \in Seq(0..MaxData),
           NEW k \in Link, NEW y \in Seq(0..MaxData)
    PROVE  [link EXCEPT ![l][d] = x, ![k][d] = y] \in [Link -> LinkType]
  BY RecordUpdates DEF Types

\* when one is reset,
LEMMA OneReset ==
    ASSUME Types, NEW l \in Link
    PROVE  [link EXCEPT ![l].reset = TRUE] \in [Link -> LinkType]
  BY RecordUpdates DEF Types

\* and when two are.
LEMMA TwoResets ==
    ASSUME Types, NEW l \in Link, NEW k \in Link
    PROVE  [link EXCEPT ![l].reset = TRUE, ![k].reset = TRUE] \in [Link -> LinkType]
  BY RecordUpdates DEF Types

\* What is appended to a queue or left of it is a queue.
LEMMA QueueCells ==
    ASSUME Types, NEW l \in Link, NEW d \in Dir
    PROVE  /\ link[l][d] \in Seq(0..MaxData)
           /\ Append(link[l][d], Fin) \in Seq(0..MaxData)
           /\ link[l][d] # <<>> =>
                Tail(link[l][d]) \in Seq(0..MaxData) /\ Head(link[l][d]) \in 0..MaxData
  <1>1. link[l][d] \in Seq(0..MaxData) /\ Fin \in 0..MaxData
    BY MaxDataIsNat DEF Types, LinkType, Dir, Fin
  <1>2. QED
    BY <1>1, AppendProperties, HeadTailProperties

\* Each step of the relay on the host keeps the types.
LEMMA HostTypes ==
    ASSUME Types, UNCHANGED <<socksVars, endVars>>,
           \/ Host!Begin \/ Host!Refuse \/ Host!Close \/ Host!Killed
           \/ \E e \in Dir : Host!Copy(e) \/ Host!StopCopy(e) \/ Host!ResetLate(e)
    PROVE  Types'
  <1> USE DEF socksVars, endVars
  <1>1. ASSUME link' \in [Link -> LinkType],
               hostPhase' \in Phase, hostCopier' \in [Dir -> BOOLEAN]
        PROVE  Types'
    BY <1>1 DEF Types
  <1>2. "firefox" \in Link /\ "middle" \in Link /\ "back" \in Dir
    BY DEF Link, Dir
  <1>3. CASE Host!Begin \/ Host!Close
    BY <1>1, <1>3 DEF Host!Begin, Host!Close, Types, Phase
  <1>4. CASE Host!Refuse
    <2>1. link' \in [Link -> LinkType]
      BY <1>2, <1>4, QueueCells, OneCell DEF Host!Refuse, Host!Fin, Fin
    <2>2. QED
      BY <1>1, <1>4, <2>1 DEF Host!Refuse, Types, Phase
  <1>5. CASE Host!Killed
    <2>1. link' \in [Link -> LinkType]
      BY <1>2, <1>5, QueueCells, TwoResets DEF Host!Killed
    <2>2. hostCopier' \in [Dir -> BOOLEAN]
      BY <1>5 DEF Host!Killed, Host!Dir, Dir
    <2>3. QED
      BY <1>1, <1>5, <2>1, <2>2 DEF Host!Killed, Phase
  <1>6. ASSUME NEW e \in Dir, Host!Copy(e) PROVE Types'
    <2> DEFINE x == Tail(link[Host!Src(e)][e])
               y == Append(link[Host!Dst(e)][e], Head(link[Host!Src(e)][e]))
    <2>1. Host!Src(e) \in Link /\ Host!Dst(e) \in Link
      BY <1>2 DEF Host!Src, Host!Dst
    <2>2. x \in Seq(0..MaxData) /\ y \in Seq(0..MaxData)
      BY <1>6, <2>1, QueueCells, AppendProperties DEF Host!Copy, Host!HasData, Host!Inbox
    <2>3. link' = [link EXCEPT ![Host!Src(e)][e] = x, ![Host!Dst(e)][e] = y]
      BY <1>6 DEF Host!Copy, Host!Inbox
    <2>4. link' \in [Link -> LinkType]
      <3> HIDE DEF x, y
      <3>1. QED
        BY <2>1, <2>2, <2>3, TwoCells
    <2>5. QED
      BY <1>1, <1>6, <2>4 DEF Host!Copy, Types
  <1>7. ASSUME NEW e \in Dir, Host!StopCopy(e) PROVE Types'
    <2>1. Host!Src(e) \in Link /\ Host!Dst(e) \in Link
      BY <1>2 DEF Host!Src, Host!Dst
    <2>2. link' \in [Link -> LinkType]
      <3>1. CASE link[Host!Dst(e)].reset
        BY <1>7, <3>1 DEF Host!StopCopy, Host!Shutdown, Types
      <3>2. CASE ~link[Host!Dst(e)].reset
        <4>1. link' = [link EXCEPT ![Host!Dst(e)][e] = Append(link[Host!Dst(e)][e], Fin)]
          BY <1>7, <3>2 DEF Host!StopCopy, Host!Shutdown, Host!Fin, Fin
        <4>2. QED
          BY <2>1, <4>1, QueueCells, OneCell
      <3>3. QED
        BY <3>1, <3>2
    <2>3. QED
      BY <1>1, <1>7, <2>2 DEF Host!StopCopy, Types
  <1>8. ASSUME NEW e \in Dir, Host!ResetLate(e) PROVE Types'
    <2>1. Host!Src(e) \in Link
      BY <1>2 DEF Host!Src
    <2>2. link' \in [Link -> LinkType]
      BY <1>2, <1>8, <2>1, QueueCells, OneReset DEF Host!ResetLate
    <2>3. QED
      BY <1>1, <1>8, <2>2 DEF Host!ResetLate, Types
  <1>9. QED
    BY <1>3, <1>4, <1>5, <1>6, <1>7, <1>8

\* Each step of the socks child's relay keeps the types.
LEMMA SocksTypes ==
    ASSUME Types, UNCHANGED <<hostVars, endVars>>,
           \/ Socks!Begin \/ Socks!Refuse \/ Socks!Close \/ Socks!Killed
           \/ \E e \in Dir : Socks!Copy(e) \/ Socks!StopCopy(e) \/ Socks!ResetLate(e)
    PROVE  Types'
  <1> USE DEF hostVars, endVars
  <1>1. ASSUME link' \in [Link -> LinkType],
               socksPhase' \in Phase, socksCopier' \in [Dir -> BOOLEAN]
        PROVE  Types'
    BY <1>1 DEF Types
  <1>2. "server" \in Link /\ "middle" \in Link /\ "back" \in Dir
    BY DEF Link, Dir
  <1>3. CASE Socks!Begin \/ Socks!Close
    BY <1>1, <1>3 DEF Socks!Begin, Socks!Close, Types, Phase
  <1>4. CASE Socks!Refuse
    <2>1. link' \in [Link -> LinkType]
      BY <1>2, <1>4, QueueCells, OneCell DEF Socks!Refuse, Socks!Fin, Fin
    <2>2. QED
      BY <1>1, <1>4, <2>1 DEF Socks!Refuse, Types, Phase
  <1>5. CASE Socks!Killed
    <2>1. link' \in [Link -> LinkType]
      BY <1>2, <1>5, QueueCells, TwoResets DEF Socks!Killed
    <2>2. socksCopier' \in [Dir -> BOOLEAN]
      BY <1>5 DEF Socks!Killed, Socks!Dir, Dir
    <2>3. QED
      BY <1>1, <1>5, <2>1, <2>2 DEF Socks!Killed, Phase
  <1>6. ASSUME NEW e \in Dir, Socks!Copy(e) PROVE Types'
    <2> DEFINE x == Tail(link[Socks!Src(e)][e])
               y == Append(link[Socks!Dst(e)][e], Head(link[Socks!Src(e)][e]))
    <2>1. Socks!Src(e) \in Link /\ Socks!Dst(e) \in Link
      BY <1>2 DEF Socks!Src, Socks!Dst
    <2>2. x \in Seq(0..MaxData) /\ y \in Seq(0..MaxData)
      BY <1>6, <2>1, QueueCells, AppendProperties DEF Socks!Copy, Socks!HasData, Socks!Inbox
    <2>3. link' = [link EXCEPT ![Socks!Src(e)][e] = x, ![Socks!Dst(e)][e] = y]
      BY <1>6 DEF Socks!Copy, Socks!Inbox
    <2>4. link' \in [Link -> LinkType]
      <3> HIDE DEF x, y
      <3>1. QED
        BY <2>1, <2>2, <2>3, TwoCells
    <2>5. QED
      BY <1>1, <1>6, <2>4 DEF Socks!Copy, Types
  <1>7. ASSUME NEW e \in Dir, Socks!StopCopy(e) PROVE Types'
    <2>1. Socks!Src(e) \in Link /\ Socks!Dst(e) \in Link
      BY <1>2 DEF Socks!Src, Socks!Dst
    <2>2. link' \in [Link -> LinkType]
      <3>1. CASE link[Socks!Dst(e)].reset
        BY <1>7, <3>1 DEF Socks!StopCopy, Socks!Shutdown, Types
      <3>2. CASE ~link[Socks!Dst(e)].reset
        <4>1. link' = [link EXCEPT ![Socks!Dst(e)][e] = Append(link[Socks!Dst(e)][e], Fin)]
          BY <1>7, <3>2 DEF Socks!StopCopy, Socks!Shutdown, Socks!Fin, Fin
        <4>2. QED
          BY <2>1, <4>1, QueueCells, OneCell
      <3>3. QED
        BY <3>1, <3>2
    <2>3. QED
      BY <1>1, <1>7, <2>2 DEF Socks!StopCopy, Types
  <1>8. ASSUME NEW e \in Dir, Socks!ResetLate(e) PROVE Types'
    <2>1. Socks!Src(e) \in Link
      BY <1>2 DEF Socks!Src
    <2>2. link' \in [Link -> LinkType]
      BY <1>2, <1>8, <2>1, QueueCells, OneReset DEF Socks!ResetLate
    <2>3. QED
      BY <1>1, <1>8, <2>2 DEF Socks!ResetLate, Types
  <1>9. QED
    BY <1>3, <1>4, <1>5, <1>6, <1>7, <1>8

\* Each step of an end, and of the tunnel under it, keeps the types.
LEMMA EndTypes ==
    ASSUME Types, UNCHANGED <<hostVars, socksVars>>,
           Ends \/ Vanish \/ UNCHANGED <<link, endVars>>
    PROVE  Types'
  <1> USE DEF hostVars, socksVars
  <1>1. ASSUME link' \in [Link -> LinkType],
               sent' \in [Dir -> 0..MaxData], ended' \in [Dir -> BOOLEAN],
               got' \in [Dir -> Seq(1..MaxData)],
               over' \in [Dir -> {"no", "eof", "error"}], vanished' \in BOOLEAN
        PROVE  Types'
    BY <1>1 DEF Types
  <1>2. \A d \in Dir : Near(d) \in Link /\ Far(d) \in Link
    BY DEF Near, Far, Link
  <1>3. ASSUME NEW d \in Dir, Send(d) PROVE Types'
    <2>1. sent[d] + 1 \in 0..MaxData /\ sent' = [sent EXCEPT ![d] = sent[d] + 1]
      BY <1>3, MaxDataIsNat DEF Send, Types
    <2>2. Append(link[Near(d)][d], sent[d] + 1) \in Seq(0..MaxData)
      BY <1>2, <2>1, QueueCells, AppendProperties
    <2>3. link' \in [Link -> LinkType]
      BY <1>2, <1>3, <2>2, OneCell DEF Send
    <2>4. sent' \in [Dir -> 0..MaxData]
      BY <2>1 DEF Types
    <2>5. QED
      BY <1>1, <1>3, <2>3, <2>4 DEF Send, Types
  <1>4. ASSUME NEW d \in Dir, Finish(d) PROVE Types'
    <2>1. link' \in [Link -> LinkType]
      BY <1>2, <1>4, QueueCells, OneCell DEF Finish
    <2>2. QED
      BY <1>1, <1>4, <2>1 DEF Finish, Types
  <1>5. ASSUME NEW d \in Dir, Read(d) PROVE Types'
    <2> DEFINE q == link[Far(d)][d]
    <2>1. q # <<>> /\ Tail(q) \in Seq(0..MaxData) /\ Head(q) \in 0..MaxData
      BY <1>2, <1>5, QueueCells DEF Read
    <2>2. link' \in [Link -> LinkType]
      BY <1>2, <1>5, <2>1, OneCell DEF Read
    <2>3. CASE Head(q) = Fin
      <3>1. over' \in [Dir -> {"no", "eof", "error"}] /\ UNCHANGED got
        BY <1>5, <2>3 DEF Read, Types
      <3>2. QED
        BY <1>1, <1>5, <2>2, <3>1 DEF Read, Types
    <2>4. CASE Head(q) # Fin
      <3>1. Head(q) \in 1..MaxData
        BY <2>1, <2>4, MaxDataIsNat DEF Fin
      <3>2. Append(got[d], Head(q)) \in Seq(1..MaxData)
        BY <3>1, AppendProperties DEF Types
      <3>3. got' \in [Dir -> Seq(1..MaxData)] /\ UNCHANGED over
        BY <1>5, <2>4, <3>2 DEF Read, Types
      <3>4. QED
        BY <1>1, <1>5, <2>2, <3>3 DEF Read, Types
    <2>5. QED
      BY <2>3, <2>4
  <1>6. ASSUME NEW d \in Dir, ReadFails(d) PROVE Types'
    BY <1>1, <1>6 DEF ReadFails, Types
  <1>7. ASSUME NEW d \in Dir, Abort(d) PROVE Types'
    <2>1. link' \in [Link -> LinkType]
      BY <1>2, <1>7, QueueCells, OneReset DEF Abort
    <2>2. over' \in [Dir -> {"no", "eof", "error"}]
      BY <1>7 DEF Abort, Types
    <2>3. QED
      BY <1>1, <1>7, <2>1, <2>2 DEF Abort, Types
  <1>8. CASE Vanish
    BY <1>1, <1>8 DEF Vanish, Types
  <1>9. CASE UNCHANGED <<link, endVars>>
    BY <1>1, <1>9 DEF endVars, Types
  <1>10. QED
    BY <1>3, <1>4, <1>5, <1>6, <1>7, <1>8, <1>9 DEF Ends

\* The types are inductive by themselves.
LEMMA TypesStep == Types /\ [Next]_vars => Types'
<1> SUFFICES ASSUME Types, [Next]_vars PROVE Types'
  OBVIOUS
<1>1. CASE HostBegins \/ HostRefuses \/ HostRelays \/ HostKilled
  BY <1>1, HostTypes
     DEF HostBegins, HostRefuses, HostRelays, HostKilled, Host!Thread, Host!Dir, Dir
<1>2. CASE SocksBegins \/ SocksRefuses \/ SocksRelays \/ SocksKilled
  BY <1>2, SocksTypes
     DEF SocksBegins, SocksRefuses, SocksRelays, SocksKilled, Socks!Thread, Socks!Dir, Dir
<1>3. CASE Ends \/ Vanish \/ UNCHANGED vars
  BY <1>3, EndTypes
     DEF Ends, Send, Finish, Read, ReadFails, Abort, Vanish, vars
<1>4. QED
  BY <1>1, <1>2, <1>3 DEF Next

-----------------------------------------------------------------------------
(* The invariant *)

\* A connection starts with them.
LEMMA TypesInit == Init => Types
<1> SUFFICES ASSUME Init PROVE Types
  OBVIOUS
<1>1. <<>> \in Seq(0..MaxData) /\ <<>> \in Seq(1..MaxData) /\ 0 \in 0..MaxData
  BY MaxDataIsNat, EmptySeq
<1>2. link \in [Link -> LinkType]
  BY <1>1 DEF Init, LinkType
<1>3. QED
  BY <1>1, <1>2 DEF Init, Types, Phase

\* A direction starts empty.
LEMMA DirInvInit ==
    ASSUME Init, NEW d \in Dir
    PROVE  DirInv(d)
  <1>1. Q(1, d) = <<>> /\ Q(2, d) = <<>> /\ Q(3, d) = <<>>
    BY DEF Init, Q, Place, Near, Far, Link, Dir
  <1>2. got[d] = <<>> /\ sent[d] = 0 /\ over[d] = "no"
    BY DEF Init
  <1>3. Len(<<>>) = 0 /\ ~HasEnd(<<>>) /\ ChunksIn(<<>>) = 0
    BY EmptySeq DEF HasEnd, ChunksIn
  <1>4. RunInv(d)
    BY <1>1, <1>2, <1>3 DEF RunInv, Run
  <1>5. EndInv(d) /\ CleanInv(d) /\ RoomInv(d)
    BY <1>1, <1>2, <1>3, CapIsPositive DEF EndInv, CleanInv, RoomInv
  <1>6. QED
    BY <1>4, <1>5 DEF DirInv

\* What the links hold, what was sent and what was received agree in every
\* reachable state: the invariant is inductive.
THEOREM Invariance == Spec => []IInv
<1>1. Init => IInv
  BY TypesInit, DirInvInit DEF IInv
<1>2. IInv /\ [Next]_vars => IInv'
  <2> SUFFICES ASSUME IInv, [Next]_vars PROVE IInv'
    OBVIOUS
  <2>1. Types /\ Types'
    BY TypesStep DEF IInv
  <2>2. ASSUME NEW d \in Dir PROVE DirInv(d)'
    <3>1. DirInv(d) /\ DirNext(d)
      BY <2>1, NextIsMoves DEF IInv
    <3>2. QED
      BY <2>1, <3>1, DirStep
  <2>3. QED
    BY <2>1, <2>2 DEF IInv
<1>3. QED
  BY <1>1, <1>2, PTL DEF Spec

\* Every link is one of the three of either direction.
LEMMA EveryQueue ==
    ASSUME NEW l \in Link, NEW d \in Dir
    PROVE  \E n \in 1..3 : Place(n, d) = l
  <1>1. Place(1, d) = l \/ Place(2, d) = l \/ Place(3, d) = l
    BY DEF Place, Near, Far, Link, Dir
  <1>2. 1 \in 1..3 /\ 2 \in 1..3 /\ 3 \in 1..3
    OBVIOUS
  <1>3. QED
    BY <1>1, <1>2

\* Every variable has its type, and a link never holds more than its Cap chunks
\* and an end of file: a relay reads no more than it can write (util.rs:160-177).
THEOREM TypeCorrect == Spec => []TypeOK
<1>1. ASSUME IInv, NEW l \in Link, NEW d \in Dir
      PROVE  Len(link[l][d]) <= Cap + 1
  <2>1. PICK n \in 1..3 : Place(n, d) = l
    BY EveryQueue
  <2>2. Q(n, d) = link[l][d]
    BY <2>1 DEF Q
  <2>3. Q(n, d) \in Seq(Nat)
    BY <1>1, QueueType DEF IInv
  <2>4. ChunksIn(Q(n, d)) <= Cap
    BY <1>1 DEF IInv, DirInv, RoomInv
  <2>5. /\ Len(Q(n, d)) \in Nat /\ ChunksIn(Q(n, d)) \in Nat
        /\ Len(Q(n, d)) <= ChunksIn(Q(n, d)) + 1
    BY <2>3, ChunkCount
  <2>6. Len(Q(n, d)) <= Cap + 1
    <3> DEFINE k == Len(Q(n, d))
               c == ChunksIn(Q(n, d))
    <3>1. k \in Nat /\ c \in Nat /\ c <= Cap /\ k <= c + 1
      BY <2>4, <2>5
    <3> HIDE DEF k, c
    <3>2. k <= Cap + 1
      BY <3>1, CapIsPositive
    <3>3. QED
      BY <3>2 DEF k
  <2>7. QED
    BY <2>2, <2>6
<1>2. IInv => TypeOK
  BY <1>1 DEF IInv, Types, TypeOK, LinkType
<1>3. QED
  BY <1>2, Invariance, PTL

-----------------------------------------------------------------------------
(* Each direction is a pipe *)

EndsSame(d) == UNCHANGED <<sent[d], ended[d], got[d], over[d]>>

\* A step of Pipe, written for direction d.
PipeStep(d) ==
    \/ EndsSame(d) /\ (Broken' <=> Broken)
    \/ /\ ~ended[d] /\ sent'[d] = sent[d] + 1
       /\ UNCHANGED <<ended[d], got[d], over[d]>> /\ (Broken' <=> Broken)
    \/ /\ ended'[d] = TRUE
       /\ UNCHANGED <<sent[d], got[d], over[d]>> /\ (Broken' <=> Broken)
    \/ /\ over[d] = "no" /\ Len(got[d]) < sent[d]
       /\ got'[d] = Append(got[d], Len(got[d]) + 1)
       /\ UNCHANGED <<sent[d], ended[d], over[d]>> /\ (Broken' <=> Broken)
    \/ /\ over[d] = "no"
       /\ Broken \/ (ended[d] /\ Len(got[d]) = sent[d])
       /\ over'[d] = "eof"
       /\ UNCHANGED <<sent[d], ended[d], got[d]>> /\ (Broken' <=> Broken)
    \/ /\ Broken'
       /\ ended'[d] \in {ended[d], TRUE}
       /\ over'[d] \in {over[d], IF over[d] = "no" THEN "error" ELSE over[d]}
       /\ UNCHANGED <<sent[d], got[d]>>

\* The reader takes the next chunk, or an end of file behind the last.
LEMMA TakesIsPipeStep ==
    ASSUME Types, NEW d \in Dir, DirInv(d), Takes(d)
    PROVE  PipeStep(d)
  <1> DEFINE g == Len(got[d])
             c1 == ChunksIn(Q(1, d))
             c2 == ChunksIn(Q(2, d))
             c3 == ChunksIn(Q(3, d))
  <1>1. /\ Q(3, d) \in Seq(Nat) /\ g \in Nat /\ c1 \in Nat /\ c2 \in Nat /\ c3 \in Nat
        /\ sent[d] = g + c3 + c2 + c1 /\ Run(Q(3, d), g)
    BY DirCounts DEF DirInv, RunInv
  <1>2. CASE Head(Q(3, d)) # Fin
    <2>1. Head(Q(3, d)) = g + 1 /\ c3 > 0
      BY <1>1, <1>2, Popped DEF Takes
    <2>2. g < sent[d]
      <3> HIDE DEF g, c1, c2, c3
      <3>1. QED
        BY <1>1, <2>1
    <2>3. QED
      BY <1>2, <2>1, <2>2 DEF Takes, PipeStep
  <1>3. CASE Head(Q(3, d)) = Fin
    <2>1. HasEnd(Q(3, d)) /\ c3 = 0
      BY <1>1, <1>3, PoppedEnd DEF Takes
    <2>2. ~Broken => ended[d] /\ c2 = 0 /\ c1 = 0
      BY <2>1 DEF DirInv, CleanInv, EndInv
    <2>3. c1 = 0 /\ c2 = 0 /\ c3 = 0 => g = sent[d]
      <3> HIDE DEF g, c1, c2, c3
      <3>1. QED
        BY <1>1
    <2>4. Broken \/ (ended[d] /\ g = sent[d])
      BY <2>1, <2>2, <2>3
    <2>5. QED
      BY <1>3, <2>4 DEF Takes, PipeStep
  <1>4. QED
    BY <1>2, <1>3

\* Every step of the connection is, in each direction, a step of the pipe.
LEMMA DirIsPipe ==
    ASSUME IInv, [Next]_vars, NEW d \in Dir
    PROVE  PipeStep(d)
  <1>1. Types /\ DirInv(d) /\ DirNext(d)
    BY NextIsMoves DEF IInv
  <1>2. Broken => Broken'
    BY <1>1 DEF DirNext, Lasting
  <1>3. CASE EndsSame(d)
    BY <1>2, <1>3 DEF PipeStep, EndsSame
  <1>4. CASE Rests(d)
    BY <1>3, <1>4 DEF Rests, PipeStep, EndsSame
  <1>5. CASE Sends(d)
    BY <1>5 DEF Sends, PipeStep
  <1>6. CASE Finishes(d)
    BY <1>6 DEF Finishes, PipeStep
  <1>7. CASE Takes(d)
    BY <1>1, <1>7, TakesIsPipeStep
  <1>8. CASE \E n \in 1..2 : Moves(n, d) \/ PassesEnd(n, d)
    BY <1>3, <1>8 DEF Moves, PassesEnd, SameEnds, EndsSame
  <1>9. QED
    BY <1>1, <1>4, <1>5, <1>6, <1>7, <1>8 DEF DirNext

\* No connection starts broken.
LEMMA NothingBroken == Init => ~Broken
  BY DEF Init, Broken

\* What Firefox sends reaches the server as through a pipe: the connection
\* implements Pipe in that direction, through both relays and three links.
THEOREM UpRefinement == Spec => UpIsPipe
<1>1. Init => Up!Init
  BY NothingBroken DEF Init, Up!Init, Dir
<1>2. ASSUME IInv, [Next]_vars PROVE [Up!Next]_(Up!vars)
  <2>1. PipeStep("fwd")
    BY <1>2, DirIsPipe DEF Dir
  <2>2. Broken \in BOOLEAN /\ Broken' \in BOOLEAN
    BY ZenonT(20) DEF Broken
  <2>3. /\ (Broken' <=> Broken) => (Broken' = Broken)
        /\ Broken' => (Broken' = TRUE)
    BY <2>2
  <2>4. QED
    BY <2>1, <2>3 DEF PipeStep, EndsSame, Up!Next, Up!Send, Up!Finish, Up!Deliver,
                      Up!EndOfFile, Up!Break, Up!vars
<1>3. QED
  BY <1>1, <1>2, Invariance, PTL DEF Spec, UpIsPipe, Up!Spec

\* And what the server sends reaches Firefox so.
THEOREM DownRefinement == Spec => DownIsPipe
<1>1. Init => Down!Init
  BY NothingBroken DEF Init, Down!Init, Dir
<1>2. ASSUME IInv, [Next]_vars PROVE [Down!Next]_(Down!vars)
  <2>1. PipeStep("back")
    BY <1>2, DirIsPipe DEF Dir
  <2>2. Broken \in BOOLEAN /\ Broken' \in BOOLEAN
    BY ZenonT(20) DEF Broken
  <2>3. /\ (Broken' <=> Broken) => (Broken' = Broken)
        /\ Broken' => (Broken' = TRUE)
    BY <2>2
  <2>4. QED
    BY <2>1, <2>3 DEF PipeStep, EndsSame, Down!Next, Down!Send, Down!Finish, Down!Deliver,
                      Down!EndOfFile, Down!Break, Down!vars
<1>3. QED
  BY <1>1, <1>2, Invariance, PTL DEF Spec, DownIsPipe, Down!Spec
=============================================================================
