-------------------------- MODULE VideoFramesProofs --------------------------
(***************************************************************************)
(* Proofs about VideoFrames for every chain of nodes and every number of   *)
(* texture names: the pools lose no texture and give none away twice, and  *)
(* no texture is deleted under a frame that references it.                 *)
(***************************************************************************)
EXTENDS VideoFrames, TLAPS

-----------------------------------------------------------------------------
(* One pool, seen alone: all and free are its entries, C the names carried *)
(* by frames that somebody holds.                                          *)
PoolOK(all, free, C) ==
  /\ free \subseteq all
  /\ Ids(free) \cap C = {}
  /\ Ids(all) = Ids(free) \cup C
  /\ \A d, e \in all : d.id = e.id => d = e

(* Frames let go of: their textures become free, and the pool stays sound. *)
LEMMA LetGo ==
  ASSUME NEW all, NEW free, NEW C, NEW D, D \subseteq C, PoolOK(all, free, C)
  PROVE  PoolOK(all, free \cup {e \in all : e.id \in C \ D}, D)
  BY DEF PoolOK, Ids

(* Drawing into a texture that was free, or into a new one, when the       *)
(* frames held carried B.                                                  *)
Named(entries, names) == {e \in entries : e.id \in names}

LEMMA DrawnReused ==
  ASSUME NEW all, NEW free, NEW C, NEW B, NEW D, NEW freed, NEW e \in freed,
         PoolOK(all, free, C), B \subseteq C, D \subseteq B \cup {e.id},
         freed = free \cup Named(all, C \ B)
  PROVE  PoolOK(all, (freed \ {e}) \cup Named(all, C \ D) \cup Named(all, {e.id} \ D), D)
  BY DEF PoolOK, Ids, Named

LEMMA DrawnNew ==
  ASSUME NEW all, NEW free, NEW C, NEW B, NEW D, NEW e,
         PoolOK(all, free, C), B \subseteq C, D \subseteq B \cup {e.id},
         free \cup Named(all, C \ B) = {}, e.id \notin Ids(all)
  PROVE  PoolOK(all \cup {e}, {} \cup Named(all, C \ D) \cup Named(all \cup {e}, {e.id} \ D), D)
  BY DEF PoolOK, Ids, Named
-----------------------------------------------------------------------------
(* The inductive invariant.  What flows is always held by somebody, or     *)
(* carries no texture of a pool; nothing flows to a node that is gone.     *)
Pools == \A k \in Node : PoolOK(m_all[k], m_free[k], Carried(k, Held))

Alive ==
  /\ \A k \in Node : \A n \in Ids(m_all[k]) :
       /\ tex[n] # Deleted /\ n # src.up
       /\ \A j \in Node \ {k} : n \notin Ids(m_all[j])
  /\ src.up # None => tex[src.up] # Deleted

Flow ==
  /\ arg \in Held \cup {None, Src, Cpu}
  /\ \A g \in gone : g \notin connected /\ g + 1 \notin connected
  /\ pos \notin gone
  /\ pos = 0 => arg = None

IInv == TypeOK /\ Pools /\ Alive /\ Flow

PoolTypes ==
  /\ tex \in [Name -> Content \cup {Deleted}]
  /\ m_all \in [Node -> SUBSET Entry] /\ m_free \in [Node -> SUBSET Entry]

(* Frames that carry no pool texture change nothing of what is carried.    *)
LEMMA CarriedWithin ==
  ASSUME NEW k \in Node, NEW more, NEW held, more \subseteq held \cup {None, Src, Cpu}
  PROVE  Carried(k, more) \subseteq Carried(k, held)
<1> SUFFICES ASSUME NEW n \in Name, NEW s \in Size, <<k, n, s>> \in more
             PROVE  <<k, n, s>> \in held
  BY DEF Carried
<1>1. <<k, n, s>> \in PoolFrame
  BY DEF PoolFrame
<1> QED BY <1>1, FramesAssumption

(* Entries of a pool have names, which the contents are defined for.       *)
LEMMA IdsAreNames ==
  ASSUME NEW entries \in SUBSET Entry
  PROVE  Ids(entries) \in SUBSET Name
  BY DEF Ids, Entry

(* A step that only lets go of frames, and perhaps of nodes.               *)
LEMMA HoldStep ==
  ASSUME TypeOK, Pools, Alive, NEW held, NEW dead,
         \A k \in Node : Carried(k, held) \subseteq Carried(k, Held),
         m_all' = AllAfter(held, dead), m_free' = FreeAfter(held, dead),
         tex' = TexAfter(held, dead), src' = src, Held' = held
  PROVE  PoolTypes' /\ Pools' /\ Alive'
<1>1. PoolTypes'
  <2>1. tex' \in [Name -> Content \cup {Deleted}]
    BY DEF TypeOK, TexAfter
  <2>2. m_all' \in [Node -> SUBSET Entry]
    BY DEF TypeOK, AllAfter
  <2>3. m_free' \in [Node -> SUBSET Entry]
    BY DEF TypeOK, FreeAfter, Released
  <2> QED BY <2>1, <2>2, <2>3 DEF PoolTypes
<1>2. ASSUME NEW k \in Node
      PROVE  PoolOK(m_all'[k], m_free'[k], Carried(k, held))
  <2>1. CASE Orphaned(k, held, dead)
    <3>1. m_all'[k] = {} /\ m_free'[k] = {} /\ Carried(k, held) = {}
      BY <2>1 DEF AllAfter, FreeAfter, Orphaned
    <3> QED BY <3>1 DEF PoolOK, Ids
  <2>2. CASE ~Orphaned(k, held, dead)
    <3>1. m_all'[k] = m_all[k] /\ m_free'[k] = m_free[k] \cup Released(k, held)
      BY <2>2 DEF AllAfter, FreeAfter
    <3>2. PoolOK(m_all[k], m_free[k], Carried(k, Held))
      BY DEF Pools
    <3> QED BY <3>1, <3>2, LetGo DEF Released
  <2> QED BY <2>1, <2>2
<1>3. Pools'
  BY <1>2 DEF Pools
<1>4. ASSUME NEW k \in Node, NEW n \in Ids(m_all'[k])
      PROVE  /\ tex'[n] # Deleted /\ n # src.up
             /\ \A j \in Node \ {k} : n \notin Ids(m_all'[j])
  <2>1. ~Orphaned(k, held, dead) /\ m_all'[k] = m_all[k]
    BY DEF AllAfter, Ids
  <2>2. n \in Ids(m_all[k]) /\ n \in Name
    BY <2>1, IdsAreNames DEF TypeOK
  <2>3. /\ tex[n] # Deleted /\ n # src.up
        /\ \A j \in Node \ {k} : n \notin Ids(m_all[j])
    BY <2>2 DEF Alive
  <2>4. \A j \in Node : Orphaned(j, held, dead) => n \notin Ids(m_all[j])
    BY <2>1, <2>3
  <2>5. tex'[n] = tex[n]
    BY <2>2, <2>4 DEF TexAfter
  <2>6. \A j \in Node : Ids(m_all'[j]) \subseteq Ids(m_all[j])
    BY DEF AllAfter, Ids
  <2> QED BY <2>3, <2>5, <2>6
<1>5. src.up # None => tex'[src.up] # Deleted
  <2> SUFFICES ASSUME src.up # None PROVE tex'[src.up] # Deleted
    OBVIOUS
  <2>1. src.up \in Name /\ tex[src.up] # Deleted
    BY DEF TypeOK, Alive
  <2>2. \A k \in Node : src.up \notin Ids(m_all[k])
    BY DEF Alive
  <2> QED BY <2>1, <2>2 DEF TexAfter
<1>6. Alive'
  BY <1>4, <1>5 DEF Alive
<1> QED BY <1>1, <1>3, <1>6
-----------------------------------------------------------------------------
(* What acquire gives: a free texture of the pool, or a new one if none is *)
(* free.                                                                   *)
LEMMA AcquireGives ==
  ASSUME TypeOK, NEW k \in Node, NEW s \in Size, NEW free \in SUBSET Entry,
         NEW a \in acquire(k, s, free)
  PROVE  /\ a.id \in Name /\ a.exact \in BOOLEAN
         /\ a.all \in SUBSET Entry /\ a.free \in SUBSET Entry
         /\ \/ \E e \in free : a.id = e.id /\ a.free = free \ {e} /\ a.all = m_all[k]
            \/ /\ free = {} /\ a.free = {} /\ tex[a.id] = Deleted
               /\ a.all = m_all[k] \cup {[id |-> a.id, size |-> s]}
         /\ a.exact => \E e \in free : a.id = e.id
<1> DEFINE fits == {e \in free : e.size = s}
<1>1. m_all[k] \in SUBSET Entry
  BY DEF TypeOK
<1>2. CASE fits # {}
  <2>1. PICK e \in fits : a = [id |-> e.id, exact |-> TRUE, free |-> free \ {e}, all |-> m_all[k]]
    BY <1>2 DEF acquire
  <2> QED BY <1>1, <2>1 DEF Entry
<1>3. CASE fits = {} /\ free # {}
  <2>1. PICK e \in free : a = [id |-> e.id, exact |-> FALSE, free |-> free \ {e}, all |-> m_all[k]]
    BY <1>3 DEF acquire
  <2> QED BY <1>1, <2>1 DEF Entry
<1>4. CASE free = {}
  <2>1. a \in New(k, s, free)
    BY <1>4 DEF acquire
  <2>2. PICK n \in Name : /\ tex[n] = Deleted
                          /\ a = [id |-> n, exact |-> FALSE, free |-> free,
                                  all |-> m_all[k] \cup {[id |-> n, size |-> s]}]
    BY <2>1 DEF New
  <2> QED BY <1>1, <1>4, <2>2 DEF Entry
<1> QED BY <1>2, <1>3, <1>4

(* A step that draws into a texture of the pool of node k, which was       *)
(* acquired when the frames before were held.                              *)
LEMMA DrawStep ==
  ASSUME TypeOK, Pools, Alive, NEW k \in Node \ gone, NEW before, NEW held,
         NEW h \in [tex : Name, size : Size],
         tex[h.tex] # Deleted,
         NEW a \in acquire(k, h.size, FreeAfter(before, gone)[k]),
         \A j \in Node : Carried(j, before) \subseteq Carried(j, Held),
         \A j \in Node \ {k} : Carried(j, held) \subseteq Carried(j, Held),
         Carried(k, held) \subseteq Carried(k, before) \cup {a.id},
         processTexture(k, h, a, held), src' = src, Held' = held
  PROVE  PoolTypes' /\ Pools' /\ Alive'
<1> DEFINE free1 == FreeAfter(before, gone)[k]
<1>1. free1 = m_free[k] \cup Released(k, before) /\ free1 \in SUBSET Entry
  <2>1. ~Orphaned(k, before, gone)
    BY DEF Orphaned
  <2>2. free1 = m_free[k] \cup Released(k, before)
    BY <2>1 DEF FreeAfter
  <2>3. m_free[k] \in SUBSET Entry /\ m_all[k] \in SUBSET Entry
    BY DEF TypeOK
  <2> QED BY <2>2, <2>3 DEF Released
<1>2. /\ a.id \in Name /\ a.exact \in BOOLEAN
      /\ a.all \in SUBSET Entry /\ a.free \in SUBSET Entry
      /\ \/ \E e \in free1 : a.id = e.id /\ a.free = free1 \ {e} /\ a.all = m_all[k]
         \/ /\ free1 = {} /\ a.free = {} /\ tex[a.id] = Deleted
            /\ a.all = m_all[k] \cup {[id |-> a.id, size |-> h.size]}
      /\ a.exact => \E e \in free1 : a.id = e.id
  <2> HIDE DEF free1
  <2>1. a \in acquire(k, h.size, free1)
    BY DEF free1
  <2> QED BY <1>1, <2>1, AcquireGives
<1>3. PoolOK(m_all[k], m_free[k], Carried(k, Held))
  BY DEF Pools
<1>4. /\ m_all' = [AllAfter(held, gone) EXCEPT ![k] = a.all]
      /\ m_free' = [FreeAfter(held, gone) EXCEPT ![k] =
                      a.free \cup Released(k, held)
                             \cup {e \in a.all : e.id = a.id /\ a.id \notin Carried(k, held)}]
      /\ tex' = [TexAfter(held, gone) EXCEPT ![a.id] =
                   [size |-> IF a.exact THEN tex[a.id].size ELSE h.size, pic |-> tex[h.tex].pic]]
  BY DEF processTexture
<1> HIDE DEF free1
<1>20. free1 \subseteq m_all[k]
  BY <1>1, <1>3 DEF PoolOK, Released
<1>5. Ids(a.all) = Ids(m_all[k]) \cup {a.id}
  <2>1. CASE \E e \in free1 : a.id = e.id /\ a.all = m_all[k]
    BY <1>20, <2>1 DEF Ids
  <2>2. CASE a.all = m_all[k] \cup {[id |-> a.id, size |-> h.size]}
    <3> DEFINE e == [id |-> a.id, size |-> h.size]
    <3>1. e.id = a.id
      OBVIOUS
    <3> HIDE DEF e
    <3>2. a.all = m_all[k] \cup {e}
      BY <2>2 DEF e
    <3> QED BY <3>1, <3>2 DEF Ids
  <2> QED BY <1>2, <2>1, <2>2
<1>6. a.id \in Ids(m_all[k]) \/ tex[a.id] = Deleted
  BY <1>2, <1>20 DEF Ids
<1>7. tex[a.id] = Deleted => \A j \in Node : a.id \notin Ids(m_all[j])
  BY DEF Alive
<1>8. a.id # src.up
  BY <1>2, <1>6, FramesAssumption DEF Alive
<1>9. [size |-> IF a.exact THEN tex[a.id].size ELSE h.size, pic |-> tex[h.tex].pic] \in Content
  <2>1. tex[h.tex].pic \in Pic
    BY DEF TypeOK, Content
  <2>2. a.exact => tex[a.id] # Deleted
    BY <1>1, <1>2, <1>3 DEF Alive, Ids, PoolOK, Released
  <2>3. a.exact => tex[a.id].size \in Size
    BY <1>2, <2>2 DEF TypeOK, Content
  <2> QED BY <2>1, <2>3 DEF Content
<1>10. PoolTypes'
  <2>1. tex' \in [Name -> Content \cup {Deleted}]
    BY <1>4, <1>9 DEF TypeOK, TexAfter
  <2>2. m_all' \in [Node -> SUBSET Entry]
    BY <1>2, <1>4 DEF TypeOK, AllAfter
  <2>3. m_free' \in [Node -> SUBSET Entry]
    BY <1>2, <1>4 DEF TypeOK, FreeAfter, Released
  <2> QED BY <2>1, <2>2, <2>3 DEF PoolTypes
<1>11. ASSUME NEW j \in Node
       PROVE  PoolOK(m_all'[j], m_free'[j], Carried(j, held))
  <2>1. CASE j = k
    <3>1. m_all'[k] = a.all
      BY <1>4 DEF AllAfter
    <3>2. m_free'[k] = a.free \cup Named(m_all[k], Carried(k, Held) \ Carried(k, held))
                              \cup Named(a.all, {a.id} \ Carried(k, held))
      BY <1>4 DEF FreeAfter, Released, Named
    <3>3. \/ /\ \E e \in free1 : a.id = e.id /\ a.free = free1 \ {e}
             /\ a.all = m_all[k]
          \/ /\ free1 = {} /\ a.free = {} /\ a.id \notin Ids(m_all[k])
             /\ \E e : e.id = a.id /\ a.all = m_all[k] \cup {e}
      BY <1>2, <1>7
    <3>4. free1 = m_free[k] \cup Named(m_all[k], Carried(k, Held) \ Carried(k, before))
      BY <1>1 DEF Released, Named
    <3>5. Carried(k, before) \subseteq Carried(k, Held)
      OBVIOUS
    <3>6. PoolOK(a.all, a.free \cup Named(m_all[k], Carried(k, Held) \ Carried(k, held))
                               \cup Named(a.all, {a.id} \ Carried(k, held)),
                 Carried(k, held))
      <4> DEFINE D == Carried(k, held)
                 B == Carried(k, before)
                 C == Carried(k, Held)
      <4>1. D \subseteq B \cup {a.id} /\ B \subseteq C /\ PoolOK(m_all[k], m_free[k], C)
        BY <1>3
      <4>2. free1 = m_free[k] \cup Named(m_all[k], C \ B)
        BY <3>4
      <4> HIDE DEF D, B, C
      <4>3. PoolOK(a.all, a.free \cup Named(m_all[k], C \ D) \cup Named(a.all, {a.id} \ D), D)
        <5>1. CASE \E e \in free1 : a.id = e.id /\ a.free = free1 \ {e} /\ a.all = m_all[k]
          <6>1. PICK e \in free1 : a.id = e.id /\ a.free = free1 \ {e} /\ a.all = m_all[k]
            BY <5>1
          <6>2. D \subseteq B \cup {e.id}
            BY <4>1, <6>1
          <6>3. PoolOK(m_all[k], (free1 \ {e}) \cup Named(m_all[k], C \ D) \cup Named(m_all[k], {e.id} \ D), D)
            BY <4>1, <4>2, <6>2, DrawnReused
          <6> QED BY <6>1, <6>3
        <5>2. CASE /\ free1 = {} /\ a.free = {} /\ a.id \notin Ids(m_all[k])
                   /\ \E e : e.id = a.id /\ a.all = m_all[k] \cup {e}
          <6>1. PICK e : e.id = a.id /\ a.all = m_all[k] \cup {e}
            BY <5>2
          <6>2. PoolOK(m_all[k] \cup {e},
                       {} \cup Named(m_all[k], C \ D) \cup Named(m_all[k] \cup {e}, {e.id} \ D), D)
            <7>1. e.id \notin Ids(m_all[k]) /\ D \subseteq B \cup {e.id}
              BY <4>1, <5>2, <6>1
            <7>2. m_free[k] \cup Named(m_all[k], C \ B) = {}
              BY <4>2, <5>2
            <7> QED BY <4>1, <7>1, <7>2, DrawnNew
          <6> QED BY <5>2, <6>1, <6>2
        <5> QED BY <3>3, <5>1, <5>2
      <4> QED BY <4>3 DEF C, D
    <3> QED BY <2>1, <3>1, <3>2, <3>6
  <2>2. CASE j # k /\ Orphaned(j, held, gone)
    <3>1. m_all'[j] = {} /\ m_free'[j] = {} /\ Carried(j, held) = {}
      BY <1>4, <2>2 DEF AllAfter, FreeAfter, Orphaned
    <3> QED BY <3>1 DEF PoolOK, Ids
  <2>3. CASE j # k /\ ~Orphaned(j, held, gone)
    <3>1. m_all'[j] = m_all[j] /\ m_free'[j] = m_free[j] \cup Released(j, held)
      BY <1>4, <2>3 DEF AllAfter, FreeAfter
    <3>2. PoolOK(m_all[j], m_free[j], Carried(j, Held))
      BY DEF Pools
    <3> QED BY <2>3, <3>1, <3>2, LetGo DEF Released
  <2> QED BY <2>1, <2>2, <2>3
<1>12. Pools'
  BY <1>11 DEF Pools
<1>13. ~Orphaned(k, held, gone)
  BY DEF Orphaned
<1>14. \A j \in Node \ {k} : m_all'[j] = IF Orphaned(j, held, gone) THEN {} ELSE m_all[j]
  BY <1>4 DEF AllAfter
<1>15. m_all'[k] = a.all
  BY <1>4 DEF AllAfter
<1>16. \A j \in Node : Ids(m_all'[j]) \subseteq Ids(m_all[j]) \cup (IF j = k THEN {a.id} ELSE {})
  BY <1>5, <1>14, <1>15 DEF Ids
<1>17. ASSUME NEW j \in Node, NEW n \in Ids(m_all'[j])
       PROVE  /\ n \in Name
              /\ tex'[n] # Deleted /\ n # src.up
              /\ \A i \in Node \ {j} : n \notin Ids(m_all'[i])
  <2>1. n \in Name
    BY <1>10, IdsAreNames DEF PoolTypes
  <2>2. CASE n = a.id
    <3>1. tex'[n] # Deleted
      BY <1>2, <1>4, <1>9, <2>2, FramesAssumption DEF TexAfter
    <3>2. j = k
      BY <1>6, <1>7, <1>16, <2>2 DEF Alive
    <3>3. \A i \in Node \ {k} : n \notin Ids(m_all[i])
      BY <1>6, <1>7, <2>2 DEF Alive
    <3> QED BY <1>8, <1>16, <2>1, <2>2, <3>1, <3>2, <3>3
  <2>3. CASE n # a.id
    <3>1. n \in Ids(m_all[j])
      BY <1>16, <2>3
    <3>2. /\ tex[n] # Deleted /\ n # src.up
          /\ \A i \in Node \ {j} : n \notin Ids(m_all[i])
      BY <3>1 DEF Alive
    <3>3. ~Orphaned(j, held, gone)
      BY <1>13, <1>14 DEF Ids
    <3>4. \A i \in Node : Orphaned(i, held, gone) => n \notin Ids(m_all[i])
      BY <3>2, <3>3
    <3>5. tex'[n] = tex[n]
      BY <1>4, <2>1, <2>3, <3>4 DEF TexAfter
    <3> QED BY <1>16, <2>1, <2>3, <3>2, <3>5
  <2> QED BY <2>2, <2>3
<1>18. src.up # None => tex'[src.up] # Deleted
  <2> SUFFICES ASSUME src.up # None PROVE tex'[src.up] # Deleted
    OBVIOUS
  <2>1. src.up \in Name /\ tex[src.up] # Deleted
    BY DEF TypeOK, Alive
  <2>2. \A j \in Node : src.up \notin Ids(m_all[j])
    BY DEF Alive
  <2> QED BY <1>4, <1>8, <2>1, <2>2 DEF TexAfter
<1>19. Alive'
  BY <1>17, <1>18 DEF Alive
<1> QED BY <1>10, <1>12, <1>19
-----------------------------------------------------------------------------
(* What a step needs to know of handles, of frames held and of calls.      *)
LEMMA Numbers == /\ Out \in Nat /\ Out \in Node /\ 0 \notin Node
                 /\ Stage \subseteq Node /\ Out \notin Stage
                 /\ \A i \in Stage : i + 1 \in Node
                 /\ Node \subseteq 0 .. Out
  BY FramesAssumption DEF Out, Node, Stage

LEMMA HandleType ==
  ASSUME TypeOK, NEW f \in Frame, Handle(f) # None
  PROVE  /\ Handle(f) \in [tex : Name, size : Size]
         /\ \/ f \in PoolFrame /\ Handle(f).tex = f[2]
            \/ f = Src /\ src.up # None /\ Handle(f).tex = src.up
<1>1. CASE f \in PoolFrame
  <2>1. f[2] \in Name /\ f[3] \in Size
    BY <1>1 DEF PoolFrame
  <2>2. Handle(f) = [tex |-> f[2], size |-> f[3]]
    BY <1>1, FramesAssumption DEF Handle
  <2> QED BY <1>1, <2>1, <2>2
<1>2. CASE f \notin PoolFrame
  <2>1. f = Src /\ src.up # None /\ Handle(f) = [tex |-> src.up, size |-> src.size]
    BY <1>2 DEF Handle
  <2> QED BY <2>1 DEF TypeOK
<1> QED BY <1>1, <1>2

LEMMA HeldIsAlive ==
  ASSUME TypeOK, Pools, Alive, NEW f \in Held \cap PoolFrame
  PROVE  tex[f[2]] # Deleted
<1>1. PICK k \in Node, n \in Name, s \in Size : f = <<k, n, s>>
  BY DEF PoolFrame
<1>2. n \in Carried(k, Held)
  BY <1>1 DEF Carried
<1>3. n \in Ids(m_all[k])
  BY <1>2 DEF Pools, PoolOK
<1> QED BY <1>1, <1>3 DEF Alive

LEMMA ArgIsAlive ==
  ASSUME IInv, Handle(arg) # None
  PROVE  Handle(arg) \in [tex : Name, size : Size] /\ tex[Handle(arg).tex] # Deleted
<1>1. arg \in Frame
  BY DEF IInv, TypeOK
<1>2. CASE arg \in PoolFrame
  <2>1. arg \in Held
    BY <1>2, FramesAssumption DEF IInv, Flow
  <2> QED BY <1>1, <1>2, <2>1, HandleType, HeldIsAlive, FramesAssumption DEF IInv
<1>3. CASE arg \notin PoolFrame
  BY <1>1, <1>3, HandleType DEF IInv, Alive
<1> QED BY <1>2, <1>3

LEMMA HeldAfter ==
  ASSUME TypeOK, NEW k \in Node, NEW f, NEW g, NEW owner
  PROVE  HeldBy([m_lastInput EXCEPT ![k] = f], [m_output EXCEPT ![k] = g], owner)
           \subseteq Held \cup {f, g, owner}
<1> DEFINE in  == [m_lastInput EXCEPT ![k] = f]
           out == [m_output EXCEPT ![k] = g]
<1>1. \A j \in Node : in[j] \in {m_lastInput[j], f} /\ out[j] \in {m_output[j], g}
  BY DEF TypeOK
<1>2. \A j \in Node : m_lastInput[j] \in Held /\ m_output[j] \in Held
  BY DEF Held, HeldBy
<1> HIDE DEF in, out
<1>3. HeldBy(in, out, owner) \subseteq Held \cup {f, g, owner}
  BY <1>1, <1>2 DEF HeldBy
<1> QED BY <1>3 DEF in, out

LEMMA OwnerIsHeld == m_textureOwner \in Held
  BY DEF Held, HeldBy

LEMMA OutputIsHeld == \A k \in Node : m_output[k] \in Held /\ m_lastInput[k] \in Held
  BY DEF Held, HeldBy

(* Calls go to connected nodes, which are not gone.                        *)
LEMMA CallFlow ==
  ASSUME IInv, NEW k, NEW f, Call(k, f) \/ Invalidate(k) \/ Idle
  PROVE  pos' \in 0 .. Out /\ pos' \notin gone /\ arg' \in {f, None} /\ (pos' = 0 => arg' = None)
<1>1. connected \subseteq Node /\ gone \subseteq Stage /\ \A g \in gone : g \notin connected
  BY DEF IInv, TypeOK, Flow
<1>2. CASE pos' = 0 /\ arg' = None
  BY <1>1, <1>2, Numbers
<1>3. CASE k \in connected /\ pos' = k /\ arg' \in {f, None}
  BY <1>1, <1>3, Numbers
<1> QED BY <1>2, <1>3 DEF Call, Invalidate, Idle

(* The part of the types that no texture is about.                         *)
RestTypes ==
  /\ src \in [valid : BOOLEAN, size : Size, pic : Pic, up : Name \cup {None}]
  /\ m_lastInput \in [Node -> Frame] /\ m_output \in [Node -> Frame]
  /\ window \in {"none", "shown", "hidden"}
  /\ m_textureOwner \in Frame
  /\ m_textureHandle \in [tex : Name, pic : Pic] \cup {None}
  /\ connected \in SUBSET Node /\ m_outputConnectionCount \in {0, 1}
  /\ gone \in SUBSET Stage
  /\ pos \in 0 .. Out /\ arg \in Frame

LEMMA TypesSplit == TypeOK <=> PoolTypes /\ RestTypes
  BY DEF TypeOK, PoolTypes, RestTypes

LEMMA InitIInv == Init => IInv
<1> SUFFICES ASSUME Init PROVE IInv
  OBVIOUS
<1>1. TypeOK
  BY FramesAssumption DEF Init, TypeOK, Frame, Node, Out
<1>2. Held = {None}
  BY Numbers DEF Init, Held, HeldBy
<1>3. \A k \in Node : Carried(k, Held) = {}
  BY <1>2, FramesAssumption DEF Carried, PoolFrame
<1>4. Pools
  BY <1>3 DEF Init, Pools, PoolOK, Ids
<1>5. Alive
  BY DEF Init, Alive, Ids
<1>6. Flow
  BY DEF Init, Flow
<1> QED BY <1>1, <1>4, <1>5, <1>6 DEF IInv
-----------------------------------------------------------------------------
(* Every action preserves the invariant.                                   *)

(* A step that holds nothing new.                                          *)
LEMMA HoldKeeps ==
  ASSUME IInv, NEW in, NEW out, NEW owner, Hold(in, out, owner), src' = src,
         HeldBy(in, out, owner) \subseteq Held \cup {None, Src, Cpu}
  PROVE  PoolTypes' /\ Pools' /\ Alive'
<1> DEFINE held == HeldBy(in, out, owner)
<1>1. \A k \in Node : Carried(k, held) \subseteq Carried(k, Held)
  BY CarriedWithin
<1>2. Held' = held
  BY DEF Hold, Held
<1>3. /\ m_all' = AllAfter(held, gone) /\ m_free' = FreeAfter(held, gone)
      /\ tex' = TexAfter(held, gone)
  BY DEF Hold
<1> HIDE DEF held
<1> QED BY <1>1, <1>2, <1>3, HoldStep DEF IInv

LEMMA SourceKeeps ==
  ASSUME IInv, NEW valid \in BOOLEAN, NEW c \in Shots, onFrameAvailable(valid, c)
  PROVE  IInv'
<1>1. /\ src' = [valid |-> valid, size |-> c[1], pic |-> c[2], up |-> None]
      /\ tex' = DeleteUpload
      /\ UNCHANGED <<m_all, m_free, m_lastInput, m_output, winVars, userVars>>
  BY DEF onFrameAvailable, setFrame
<1>2. c[1] \in Size /\ c[2] \in Pic
  BY FramesAssumption
<1>3. tex' \in [Name -> Content \cup {Deleted}]
  BY <1>1 DEF DeleteUpload, IInv, TypeOK
<1>4. pos' \in 0 .. Out /\ pos' \notin gone /\ arg' \in {Src, None} /\ (pos' = 0 => arg' = None)
  BY CallFlow DEF onFrameAvailable
<1>5. TypeOK'
  BY <1>1, <1>2, <1>3, <1>4 DEF IInv, TypeOK, winVars, userVars, Frame
<1>6. Held' = Held
  BY <1>1 DEF Held, winVars
<1>7. Pools'
  BY <1>1, <1>6 DEF IInv, Pools
<1>8. Alive'
  <2>1. \A k \in Node : \A n \in Ids(m_all[k]) : n \in Name /\ n # src.up
    BY IdsAreNames DEF IInv, TypeOK, Alive
  <2>2. \A k \in Node : \A n \in Ids(m_all[k]) : tex'[n] = tex[n] /\ n # None
    BY <1>1, <2>1, FramesAssumption DEF DeleteUpload, IInv, TypeOK
  <2> QED BY <1>1, <2>2 DEF IInv, Alive
<1>9. Flow'
  BY <1>1, <1>4, <1>6 DEF IInv, Flow, userVars
<1> QED BY <1>5, <1>7, <1>8, <1>9 DEF IInv

LEMMA UploadKeeps ==
  ASSUME IInv, asTexture
  PROVE  IInv'
<1>1. PICK n \in Name :
        /\ tex[n] = Deleted /\ src.up = None
        /\ tex' = [tex EXCEPT ![n] = [size |-> src.size, pic |-> src.pic]]
        /\ src' = [src EXCEPT !.up = n]
        /\ UNCHANGED <<m_all, m_free, m_lastInput, m_output, winVars, userVars, pos, arg>>
  BY DEF asTexture
<1>2. [size |-> src.size, pic |-> src.pic] \in Content
  BY DEF IInv, TypeOK, Content
<1>3. TypeOK'
  <2>1. tex' \in [Name -> Content \cup {Deleted}]
    BY <1>1, <1>2 DEF IInv, TypeOK
  <2>2. src' \in [valid : BOOLEAN, size : Size, pic : Pic, up : Name \cup {None}]
    BY <1>1 DEF IInv, TypeOK
  <2> QED BY <1>1, <2>1, <2>2 DEF IInv, TypeOK, winVars, userVars
<1>4. Held' = Held
  BY <1>1 DEF Held, winVars
<1>5. Pools'
  BY <1>1, <1>4 DEF IInv, Pools
<1>6. Alive'
  <2>1. src'.up = n
    BY <1>1 DEF IInv, TypeOK
  <2>2. tex'[n] # Deleted
    BY <1>1, <1>2, FramesAssumption DEF IInv, TypeOK
  <2>3. \A k \in Node : n \notin Ids(m_all[k])
    BY <1>1 DEF IInv, Alive
  <2>4. \A k \in Node : \A m \in Ids(m_all[k]) : tex'[m] = tex[m]
    BY <1>1, <2>3, IdsAreNames DEF IInv, TypeOK
  <2> QED BY <1>1, <2>1, <2>2, <2>3, <2>4 DEF IInv, Alive
<1>7. Flow'
  BY <1>1, <1>4 DEF IInv, Flow, userVars
<1> QED BY <1>3, <1>5, <1>6, <1>7 DEF IInv

(* What a node does with a frame that is given on or dropped.              *)
LEMMA PassKeeps ==
  ASSUME IInv, NEW i \in Stage, NEW f \in {arg, None, Cpu, m_output[i]},
         Hold([m_lastInput EXCEPT ![i] = arg], [m_output EXCEPT ![i] = f], m_textureOwner),
         Call(i + 1, f) \/ Invalidate(i + 1) \/ Idle,
         UNCHANGED <<src, window, m_textureHandle, userVars>>
  PROVE  IInv'
<1> DEFINE in   == [m_lastInput EXCEPT ![i] = arg]
           out  == [m_output EXCEPT ![i] = f]
           held == HeldBy(in, out, m_textureOwner)
<1>1. i \in Node /\ m_textureOwner \in Held /\ m_output[i] \in Held
  BY Numbers, OwnerIsHeld, OutputIsHeld
<1>2. held \subseteq Held \cup {None, Src, Cpu}
  <2>1. held \subseteq Held \cup {arg, f, m_textureOwner}
    BY <1>1, HeldAfter DEF IInv
  <2> QED BY <1>1, <2>1 DEF IInv, Flow
<1>3. PoolTypes' /\ Pools' /\ Alive'
  BY <1>2, HoldKeeps
<1>4. m_lastInput' = in /\ m_output' = out /\ m_textureOwner' = m_textureOwner
  BY DEF Hold
<1>5. f \in Frame /\ arg \in Frame
  BY <1>1 DEF IInv, TypeOK, Frame
<1>6. pos' \in 0 .. Out /\ pos' \notin gone /\ arg' \in {f, None} /\ (pos' = 0 => arg' = None)
  BY CallFlow
<1>7. RestTypes'
  BY <1>1, <1>4, <1>5, <1>6 DEF IInv, TypeOK, RestTypes, userVars, Frame
<1>8. f \in Held'
  BY <1>1, <1>4 DEF Held, HeldBy, IInv, TypeOK
<1>9. Flow'
  BY <1>6, <1>8 DEF IInv, Flow, userVars
<1> QED BY <1>3, <1>7, <1>9, TypesSplit DEF IInv, TypeOK, PoolTypes, RestTypes

LEMMA SamplerKeeps ==
  ASSUME IInv, NEW i \in Stage, FrameSamplerNode(i)
  PROVE  IInv'
<1>1. PICK f \in {arg, None, m_output[i]} :
        /\ Hold([m_lastInput EXCEPT ![i] = arg], [m_output EXCEPT ![i] = f], m_textureOwner)
        /\ Call(i + 1, f) \/ Invalidate(i + 1) \/ Idle
  BY DEF FrameSamplerNode
<1> QED BY <1>1, PassKeeps DEF FrameSamplerNode

(* One more frame held, of the pool of node k, carries one more texture.   *)
LEMMA NewFrame ==
  ASSUME NEW k, NEW id, NEW s, NEW more, NEW held, NEW f \in {<<k, id, s>>, Cpu, None},
         more \subseteq held \cup {f}
  PROVE  /\ \A j \in Node \ {k} : Carried(j, more) \subseteq Carried(j, held)
         /\ k \in Node => Carried(k, more) \subseteq Carried(k, held) \cup {id}
<1>1. ASSUME NEW j \in Node, NEW n \in Name, NEW z \in Size, <<j, n, z>> = f
      PROVE  j = k /\ n = id
  <2>1. f \in PoolFrame
    BY <1>1 DEF PoolFrame
  <2>2. f = <<k, id, s>>
    BY <2>1, FramesAssumption
  <2> QED BY <1>1, <2>2
<1> QED BY <1>1 DEF Carried

LEMMA EffectDraws ==
  ASSUME IInv, NEW i \in Stage, pos = i, EffectOnTexture(i), UNCHANGED <<src, userVars>>
  PROVE  IInv'
<1> DEFINE h      == Handle(arg)
           in     == [m_lastInput EXCEPT ![i] = arg]
           before == HeldBy(in, [m_output EXCEPT ![i] = None], m_textureOwner)
<1>20. PICK a \in acquire(i, h.size, FreeAfter(before, gone)[i]) :
        \E f \in {<<i, a.id, h.size>>, Cpu, None} :
          LET out == [m_output EXCEPT ![i] = f]
          IN /\ m_lastInput' = in /\ m_output' = out
             /\ processTexture(i, h, a, HeldBy(in, out, m_textureOwner))
             /\ EffectEmits(i, f)
  BY DEF EffectOnTexture
<1>1. PICK f \in {<<i, a.id, h.size>>, Cpu, None} :
        LET out == [m_output EXCEPT ![i] = f]
        IN /\ m_lastInput' = in /\ m_output' = out
           /\ processTexture(i, h, a, HeldBy(in, out, m_textureOwner))
           /\ EffectEmits(i, f)
  BY <1>20
<1> DEFINE out  == [m_output EXCEPT ![i] = f]
           held == HeldBy(in, out, m_textureOwner)
<1>2. h \in [tex : Name, size : Size] /\ tex[h.tex] # Deleted
  BY ArgIsAlive DEF EffectOnTexture
<1>3. i \in Node /\ i \notin gone /\ m_textureOwner \in Held
  BY Numbers, OwnerIsHeld DEF IInv, Flow
<1>4. arg \in Held \cup {None, Src, Cpu}
  BY DEF IInv, Flow
<1>5. before \subseteq Held \cup {None, Src, Cpu}
  <2>1. before \subseteq Held \cup {arg, None, m_textureOwner}
    BY <1>3, HeldAfter DEF IInv
  <2> QED BY <1>3, <1>4, <2>1
<1>6. held \subseteq before \cup {f}
  <2> DEFINE none == [m_output EXCEPT ![i] = None]
  <2>1. \A j \in Node : out[j] \in {none[j], f}
    BY <1>3 DEF IInv, TypeOK
  <2> HIDE DEF in, out, none
  <2>2. HeldBy(in, out, m_textureOwner) \subseteq HeldBy(in, none, m_textureOwner) \cup {f}
    BY <2>1 DEF HeldBy
  <2> QED BY <2>2 DEF none
<1>7. \A j \in Node : Carried(j, before) \subseteq Carried(j, Held)
  BY <1>5, CarriedWithin
<1>21. /\ \A j \in Node \ {i} : Carried(j, held) \subseteq Carried(j, before)
       /\ i \in Node => Carried(i, held) \subseteq Carried(i, before) \cup {a.id}
  <2> DEFINE id == a.id
             s  == h.size
  <2>1. f \in {<<i, id, s>>, Cpu, None}
    OBVIOUS
  <2> HIDE DEF held, before, id, s
  <2>2. /\ \A j \in Node \ {i} : Carried(j, held) \subseteq Carried(j, before)
        /\ i \in Node => Carried(i, held) \subseteq Carried(i, before) \cup {id}
    BY <1>6, <2>1, NewFrame
  <2> QED BY <2>2 DEF id
<1>8. \A j \in Node \ {i} : Carried(j, held) \subseteq Carried(j, Held)
  BY <1>7, <1>21
<1>9. Carried(i, held) \subseteq Carried(i, before) \cup {a.id}
  BY <1>3, <1>21
<1>10. Held' = held /\ src' = src
  BY <1>1 DEF Held, EffectOnTexture, winVars
<1>11. processTexture(i, h, a, held)
  BY <1>1
<1>12. PoolTypes' /\ Pools' /\ Alive'
  <2> HIDE DEF h, before, held
  <2> QED BY <1>1, <1>2, <1>3, <1>7, <1>8, <1>9, <1>10, <1>11, DrawStep DEF IInv
<1>13. a.id \in Name
  <2>1. FreeAfter(before, gone)[i] \in SUBSET Entry
    BY <1>3 DEF FreeAfter, Released, IInv, TypeOK
  <2> HIDE DEF h, before
  <2> QED BY <1>1, <1>2, <1>3, <2>1, AcquireGives DEF IInv
<1>14. f \in Frame /\ arg \in Frame
  BY <1>2, <1>3, <1>13 DEF IInv, TypeOK, Frame, PoolFrame
<1>15. pos' \in 0 .. Out /\ pos' \notin gone /\ arg' \in {f, None} /\ (pos' = 0 => arg' = None)
  BY <1>1, CallFlow DEF EffectEmits
<1>16. RestTypes'
  BY <1>1, <1>3, <1>14, <1>15 DEF EffectOnTexture, IInv, TypeOK, RestTypes, userVars, winVars, Frame
<1>17. f \in Held'
  BY <1>3, <1>10 DEF HeldBy, IInv, TypeOK
<1>18. Flow'
  BY <1>15, <1>17 DEF IInv, Flow, userVars
<1> QED BY <1>12, <1>16, <1>18 DEF IInv, TypeOK, PoolTypes, RestTypes

LEMMA EffectKeeps ==
  ASSUME IInv, NEW i \in Stage, VideoEffectNode(i)
  PROVE  IInv'
<1>1. CASE HasFrame(arg) /\ EffectOnTexture(i)
  BY <1>1, EffectDraws DEF VideoEffectNode
<1>2. CASE HasFrame(arg) /\ EffectOnCpu(i)
  <2>1. PICK f \in {Cpu, None} :
          /\ Hold([m_lastInput EXCEPT ![i] = arg], [m_output EXCEPT ![i] = f], m_textureOwner)
          /\ EffectEmits(i, f)
    BY <1>2 DEF EffectOnCpu
  <2> QED BY <1>2, <2>1, PassKeeps DEF VideoEffectNode, EffectOnCpu, EffectEmits
<1>3. CASE ~HasFrame(arg)
  BY <1>3, PassKeeps DEF VideoEffectNode, EffectEmits
<1> QED BY <1>1, <1>2, <1>3 DEF VideoEffectNode
-----------------------------------------------------------------------------
(* The output: what it presents it also holds.                             *)
LEMMA PresentTypes ==
  ASSUME IInv, NEW f \in Frame, Present(f), PoolTypes', Idle, UNCHANGED <<src, userVars>>,
         Handle(f) # None => tex'[Handle(f).tex] # Deleted
  PROVE  RestTypes' /\ Flow'
<1>1. m_textureHandle' \in [tex : Name, pic : Pic] \cup {None}
  <2>1. CASE Handle(f) = None
    BY <2>1 DEF Present
  <2>2. CASE Handle(f) # None
    <3>1. Handle(f).tex \in Name
      BY <2>2, HandleType DEF IInv
    <3>2. tex'[Handle(f).tex] \in Content
      BY <2>2, <3>1 DEF PoolTypes
    <3> QED BY <2>2, <3>1, <3>2 DEF Present, Content
  <2> QED BY <2>1, <2>2
<1>2. Out \in Node /\ arg \in Frame /\ None \in Frame
  BY Numbers DEF IInv, TypeOK, Frame
<1>3. m_lastInput' \in [Node -> Frame] /\ m_output' \in [Node -> Frame]
  BY <1>2 DEF Present, InputTaken, PassedOn, IInv, TypeOK
<1>4. m_textureOwner' \in Frame /\ window' \in {"none", "shown", "hidden"}
  BY <1>2 DEF Present, Owner, IInv, TypeOK
<1>5. RestTypes'
  BY <1>1, <1>2, <1>3, <1>4, Numbers DEF RestTypes, IInv, TypeOK, userVars, Idle
<1>6. Flow'
  BY Numbers DEF Flow, IInv, TypeOK, userVars, Idle
<1> QED BY <1>5, <1>6

(* The frames held after a frame f was presented.                          *)
LEMMA HeldPresenting ==
  ASSUME IInv, NEW f
  PROVE  HeldBy(InputTaken, PassedOn(f), Owner(f)) \subseteq Held \cup {None, Src, Cpu} \cup {f}
<1>1. Out \in Node /\ arg \in Held \cup {None, Src, Cpu}
  BY Numbers DEF IInv, Flow
<1>2. \A j \in Node : InputTaken[j] \in {m_lastInput[j], arg} /\ PassedOn(f)[j] \in {m_output[j], f}
  BY DEF InputTaken, PassedOn, IInv, TypeOK
<1>3. \A j \in Node : m_lastInput[j] \in Held /\ m_output[j] \in Held
  BY OutputIsHeld
<1>4. Owner(f) \in {None, f}
  BY DEF Owner
<1> QED BY <1>1, <1>2, <1>3, <1>4 DEF HeldBy

LEMMA PresentedIsAlive ==
  ASSUME IInv, NEW f \in Frame, Present(f), Pools', Alive', src' = src, Handle(f) # None
  PROVE  tex'[Handle(f).tex] # Deleted
<1>1. CASE f \in PoolFrame
  <2>1. f \in Held'
    BY DEF Present, Owner, Held, HeldBy
  <2>2. PICK k \in Node, n \in Name, s \in Size : f = <<k, n, s>>
    BY <1>1 DEF PoolFrame
  <2>3. n \in Carried(k, Held')
    BY <2>1, <2>2 DEF Carried
  <2>4. n \in Ids(m_all'[k])
    BY <2>3 DEF Pools, PoolOK
  <2>5. Handle(f).tex = n
    BY <1>1, <2>2, HandleType, FramesAssumption DEF IInv
  <2> QED BY <2>2, <2>4, <2>5 DEF Alive
<1>2. CASE f \notin PoolFrame
  BY <1>2, HandleType DEF IInv, Alive
<1> QED BY <1>1, <1>2

LEMMA OutputAsIsKeeps ==
  ASSUME IInv, OutputAsIs, Idle, UNCHANGED <<src, userVars>>
  PROVE  IInv'
<1>1. PICK f \in WithoutDrawing : Hold(InputTaken, PassedOn(f), Owner(f)) /\ Present(f)
  BY DEF OutputAsIs
<1>2. f \in {arg, Cpu} /\ f \in Frame /\ arg \in Held \cup {None, Src, Cpu}
  BY DEF WithoutDrawing, IInv, TypeOK, Frame, Flow
<1>3. HeldBy(InputTaken, PassedOn(f), Owner(f)) \subseteq Held \cup {None, Src, Cpu}
  BY <1>2, HeldPresenting
<1>4. PoolTypes' /\ Pools' /\ Alive'
  BY <1>1, <1>3, HoldKeeps
<1>5. RestTypes' /\ Flow'
  BY <1>1, <1>2, <1>4, PresentedIsAlive, PresentTypes
<1> QED BY <1>4, <1>5 DEF IInv, TypeOK, PoolTypes, RestTypes

LEMMA OutputDraws ==
  ASSUME IInv, OutputOnTexture, Idle, UNCHANGED <<src, userVars>>
  PROVE  IInv'
<1> DEFINE h      == Handle(arg)
           before == HeldBy(InputTaken, m_output, m_textureOwner)
<1>1. PICK a \in acquire(Out, h.size, FreeAfter(before, gone)[Out]) :
        \E f \in {<<Out, a.id, h.size>>} \cup WithoutDrawing :
          /\ processTexture(Out, h, a, HeldBy(InputTaken, PassedOn(f), Owner(f)))
          /\ Present(f)
  BY DEF OutputOnTexture
<1>2. PICK f \in {<<Out, a.id, h.size>>} \cup WithoutDrawing :
        /\ processTexture(Out, h, a, HeldBy(InputTaken, PassedOn(f), Owner(f)))
        /\ Present(f)
  BY <1>1
<1> DEFINE held == HeldBy(InputTaken, PassedOn(f), Owner(f))
           id   == a.id
           s    == h.size
<1>3. h \in [tex : Name, size : Size] /\ tex[h.tex] # Deleted
  BY ArgIsAlive DEF OutputOnTexture
<1>4. /\ Out \in Node /\ Out \notin gone /\ m_textureOwner \in Held
      /\ arg \in Held \cup {None, Src, Cpu}
  BY Numbers, OwnerIsHeld DEF IInv, Flow, TypeOK
<1>5. InputTaken[Out] = arg
  BY <1>4 DEF InputTaken, IInv, TypeOK
<1>6. \A j \in Node : m_lastInput[j] \in Held /\ m_output[j] \in Held
  BY OutputIsHeld
<1>7. \A j \in Node : InputTaken[j] \in {m_lastInput[j], arg} /\ PassedOn(f)[j] \in {m_output[j], f}
  BY <1>4 DEF InputTaken, PassedOn, IInv, TypeOK
<1>8. before \subseteq Held \cup {None, Src, Cpu}
  BY <1>4, <1>6, <1>7 DEF HeldBy
<1>9. held \subseteq before \cup {f, None}
  <2>1. Owner(f) \in {None, f}
    BY DEF Owner
  <2> QED BY <1>7, <2>1 DEF HeldBy
<1>10. f \in before \cup {<<Out, id, s>>, Cpu}
  <2>1. arg \in before
    BY <1>4, <1>5 DEF HeldBy
  <2> QED BY <2>1 DEF WithoutDrawing
<1>11. held \subseteq before \cup {<<Out, id, s>>, None, Cpu}
  BY <1>9, <1>10
<1>12. /\ \A j \in Node \ {Out} : Carried(j, held) \subseteq Carried(j, before)
       /\ Carried(Out, held) \subseteq Carried(Out, before) \cup {id}
  <2> HIDE DEF held, before, id, s, h
  <2>1. ASSUME NEW j \in Node, NEW n \in Name, NEW z \in Size, <<j, n, z>> \in held
        PROVE  <<j, n, z>> \in before \/ (j = Out /\ n = id)
    <3>1. <<j, n, z>> \in PoolFrame
      BY DEF PoolFrame
    <3>2. <<j, n, z>> \notin {None, Cpu}
      BY <3>1, FramesAssumption
    <3> QED BY <1>11, <2>1, <3>2
  <2> QED BY <1>4, <2>1 DEF Carried
<1>13. \A j \in Node : Carried(j, before) \subseteq Carried(j, Held)
  BY <1>8, CarriedWithin
<1>14. \A j \in Node \ {Out} : Carried(j, held) \subseteq Carried(j, Held)
  BY <1>12, <1>13
<1>15. Held' = held /\ src' = src
  BY <1>2 DEF Held, Present
<1>16. processTexture(Out, h, a, held) /\ Present(f)
  BY <1>2
<1>17. PoolTypes' /\ Pools' /\ Alive'
  <2>1. Carried(Out, held) \subseteq Carried(Out, before) \cup {a.id}
    BY <1>12
  <2> HIDE DEF h, before, held
  <2> QED BY <1>3, <1>4, <1>13, <1>14, <1>15, <1>16, <2>1, DrawStep DEF IInv
<1>18. id \in Name
  <2>1. FreeAfter(before, gone)[Out] \in SUBSET Entry
    BY <1>4 DEF FreeAfter, Released, IInv, TypeOK
  <2> HIDE DEF h, before
  <2> QED BY <1>3, <1>4, <2>1, AcquireGives DEF IInv
<1>19. f \in Frame
  BY <1>3, <1>4, <1>18 DEF WithoutDrawing, IInv, TypeOK, Frame, PoolFrame
<1>20. RestTypes' /\ Flow'
  BY <1>15, <1>16, <1>17, <1>19, PresentedIsAlive, PresentTypes
<1> QED BY <1>17, <1>20 DEF IInv, TypeOK, PoolTypes, RestTypes

LEMMA OutputKeeps ==
  ASSUME IInv, VideoOutputNode
  PROVE  IInv'
<1>1. Idle /\ UNCHANGED <<src, userVars>>
  BY DEF VideoOutputNode
<1>2. CASE ~HasFrame(arg)
  <2>1. OutputNoFrame
    BY <1>2 DEF VideoOutputNode
  <2> DEFINE in   == [m_lastInput EXCEPT ![Out] = None]
             out  == [m_output EXCEPT ![Out] = None]
  <2>2. Out \in Node /\ m_textureOwner \in Held
    BY Numbers, OwnerIsHeld
  <2>3. HeldBy(in, out, m_textureOwner) \subseteq Held \cup {None, m_textureOwner}
    BY <2>2, HeldAfter DEF IInv
  <2>4. PoolTypes' /\ Pools' /\ Alive'
    BY <1>1, <2>1, <2>2, <2>3, HoldKeeps DEF OutputNoFrame
  <2>5. m_lastInput' = in /\ m_output' = out /\ m_textureOwner' = m_textureOwner
    BY <2>1 DEF OutputNoFrame, Hold
  <2>6. RestTypes'
    BY <1>1, <2>1, <2>2, <2>5, Numbers
       DEF OutputNoFrame, RestTypes, IInv, TypeOK, userVars, Idle, Frame
  <2>7. Flow'
    BY <1>1, Numbers DEF Flow, IInv, TypeOK, userVars, Idle
  <2> QED BY <2>4, <2>6, <2>7 DEF IInv, TypeOK, PoolTypes, RestTypes
<1>3. CASE HasFrame(arg) /\ Out \notin connected
  <2>1. UNCHANGED <<poolVars, m_lastInput, m_output, winVars>>
    BY <1>3 DEF VideoOutputNode
  <2>2. Held' = Held
    BY <2>1 DEF Held, winVars
  <2>3. TypeOK'
    BY <1>1, <2>1, Numbers DEF IInv, TypeOK, poolVars, winVars, userVars, Idle, Frame
  <2>4. Pools' /\ Alive'
    BY <1>1, <2>1, <2>2 DEF IInv, Pools, Alive, poolVars
  <2>5. Flow'
    BY <1>1, Numbers DEF Flow, IInv, TypeOK, userVars, Idle
  <2> QED BY <2>3, <2>4, <2>5 DEF IInv
<1>4. CASE HasFrame(arg) /\ Out \in connected
  <2>1. OutputAsIs \/ OutputOnTexture
    BY <1>4 DEF VideoOutputNode
  <2> QED BY <1>1, <2>1, OutputAsIsKeeps, OutputDraws
<1> QED BY <1>2, <1>3, <1>4
-----------------------------------------------------------------------------
(* What the user does.                                                     *)

(* A step that leaves the frames alone.                                    *)
LEMMA FramesAlone ==
  ASSUME IInv, UNCHANGED <<poolVars, src, m_lastInput, m_output, winVars>>
  PROVE  PoolTypes' /\ Pools' /\ Alive' /\ Held' = Held
<1>1. Held' = Held
  BY DEF Held, winVars
<1> QED BY <1>1 DEF IInv, Pools, Alive, TypeOK, PoolTypes, poolVars

LEMMA ReprocessKeeps ==
  ASSUME IInv, NEW k \in Node, reprocessCurrentFrame(k)
  PROVE  IInv'
<1>1. PoolTypes' /\ Pools' /\ Alive' /\ Held' = Held
  BY FramesAlone DEF reprocessCurrentFrame
<1>2. RestTypes'
  BY Numbers DEF reprocessCurrentFrame, IInv, TypeOK, RestTypes, winVars, userVars
<1>3. Flow'
  BY <1>1, OutputIsHeld, Numbers DEF reprocessCurrentFrame, IInv, Flow, userVars
<1> QED BY <1>1, <1>2, <1>3 DEF IInv, TypeOK, PoolTypes, RestTypes

LEMMA ConnectKeeps ==
  ASSUME IInv, NEW k \in Node, connectInput(k)
  PROVE  IInv'
<1>1. PoolTypes' /\ Pools' /\ Alive' /\ Held' = Held
  BY FramesAlone DEF connectInput
<1>2. Before(k) \in Frame /\ Before(k) \in Held \cup {Src}
  <2>1. k = 1 \/ k - 1 \in Node
    BY FramesAssumption DEF Node, Out
  <2> QED BY <2>1, OutputIsHeld DEF Before, IInv, TypeOK, Frame
<1>3. RestTypes'
  BY <1>2, Numbers DEF connectInput, IInv, TypeOK, RestTypes, winVars
<1>4. Flow'
  <2>1. \A g \in gone : g # k /\ g + 1 # k
    BY FramesAssumption DEF connectInput, IInv, TypeOK, Stage, Node, Out
  <2> QED BY <1>1, <1>2, <2>1, Numbers DEF connectInput, IInv, Flow
<1> QED BY <1>1, <1>3, <1>4 DEF IInv, TypeOK, PoolTypes, RestTypes

LEMMA DisconnectKeeps ==
  ASSUME IInv, NEW k \in Node, inputConnectionDeleted(k)
  PROVE  IInv'
<1>1. /\ connected' = connected \ {k} /\ k \in connected /\ pos' = k /\ arg' = None
      /\ UNCHANGED <<src, m_outputConnectionCount, gone>>
  BY DEF inputConnectionDeleted
<1>2. PoolTypes' /\ Pools' /\ Alive'
  <2>1. CASE k = Out
    <3>1. Hold([m_lastInput EXCEPT ![Out] = None], [m_output EXCEPT ![Out] = None], None)
      BY <2>1 DEF inputConnectionDeleted
    <3>2. HeldBy([m_lastInput EXCEPT ![Out] = None], [m_output EXCEPT ![Out] = None], None)
            \subseteq Held \cup {None, None, None}
      <4>1. Out \in Node /\ TypeOK
        BY Numbers DEF IInv
      <4> QED BY <4>1, HeldAfter
    <3> QED BY <1>1, <3>1, <3>2, HoldKeeps
  <2>2. CASE k # Out
    BY <1>1, <2>2, FramesAlone DEF inputConnectionDeleted
  <2> QED BY <2>1, <2>2
<1>3. RestTypes'
  BY <1>1, Numbers DEF inputConnectionDeleted, Hold, IInv, TypeOK, RestTypes, winVars, Frame
<1>4. Flow'
  BY <1>1, Numbers DEF IInv, Flow
<1> QED BY <1>2, <1>3, <1>4 DEF IInv, TypeOK, PoolTypes, RestTypes

LEMMA OutputConnectionKeeps ==
  ASSUME IInv, NEW c \in {0, 1}, outputConnection(c)
  PROVE  IInv'
<1>1. PoolTypes' /\ Pools' /\ Alive' /\ Held' = Held
  BY FramesAlone DEF outputConnection
<1>2. RestTypes'
  BY DEF outputConnection, IInv, TypeOK, RestTypes, winVars
<1>3. Flow'
  BY <1>1 DEF outputConnection, IInv, Flow
<1> QED BY <1>1, <1>2, <1>3 DEF IInv, TypeOK, PoolTypes, RestTypes

LEMMA DeleteKeeps ==
  ASSUME IInv, NEW i \in Stage, DeleteNode(i)
  PROVE  IInv'
<1> DEFINE in   == [m_lastInput EXCEPT ![i] = None]
           out  == [m_output EXCEPT ![i] = None]
           held == HeldBy(in, out, m_textureOwner)
           dead == gone \cup {i}
<1>1. /\ gone' = dead /\ m_lastInput' = in /\ m_output' = out
      /\ m_all' = AllAfter(held, dead) /\ m_free' = FreeAfter(held, dead)
      /\ tex' = TexAfter(held, dead)
      /\ UNCHANGED <<src, winVars, connected, m_outputConnectionCount, pos, arg>>
      /\ pos = 0 /\ {i, i + 1} \cap connected = {}
  BY DEF DeleteNode
<1>2. i \in Node /\ m_textureOwner \in Held
  BY Numbers, OwnerIsHeld
<1>3. held \subseteq Held \cup {None, None, m_textureOwner}
  BY <1>2, HeldAfter DEF IInv
<1>4. \A k \in Node : Carried(k, held) \subseteq Carried(k, Held)
  <2> HIDE DEF held
  <2>1. held \subseteq Held \cup {None, Src, Cpu}
    BY <1>2, <1>3
  <2> QED BY <2>1, CarriedWithin
<1>5. Held' = held
  BY <1>1 DEF Held, winVars
<1>6. PoolTypes' /\ Pools' /\ Alive'
  <2> HIDE DEF held, dead
  <2> QED BY <1>1, <1>4, <1>5, HoldStep DEF IInv
<1>7. RestTypes'
  BY <1>1, <1>2 DEF IInv, TypeOK, RestTypes, winVars, Frame
<1>8. Flow'
  BY <1>1, Numbers DEF IInv, Flow
<1> QED BY <1>6, <1>7, <1>8 DEF IInv, TypeOK, PoolTypes, RestTypes

LEMMA NextIInv == IInv /\ [Next]_vars => IInv'
<1> SUFFICES ASSUME IInv, [Next]_vars PROVE IInv'
  OBVIOUS
<1>1. CASE Next
  BY <1>1, SourceKeeps, UploadKeeps, EffectKeeps, SamplerKeeps, OutputKeeps, ReprocessKeeps,
     ConnectKeeps, DisconnectKeeps, OutputConnectionKeeps, DeleteKeeps DEF Next
<1>2. CASE UNCHANGED vars
  <2>1. PoolTypes' /\ Pools' /\ Alive' /\ Held' = Held
    BY <1>2, FramesAlone DEF vars, poolVars, winVars
  <2>2. RestTypes' /\ Flow'
    BY <1>2, <2>1 DEF vars, winVars, userVars, IInv, TypeOK, RestTypes, Flow
  <2> QED BY <2>1, <2>2 DEF IInv, TypeOK, PoolTypes, RestTypes
<1> QED BY <1>1, <1>2
-----------------------------------------------------------------------------
(* Pools, frames and textures fit together after every step of the chain:  *)
(* what the theorems below rest on.                                        *)
THEOREM InductiveInvariant == Spec => []IInv
  BY InitIInv, NextIInv, PTL DEF Spec

(* The frames, textures, pools and calls of every chain have their types.  *)
THEOREM TypeCorrect == Spec => []TypeOK
<1>1. IInv => TypeOK
  BY DEF IInv
<1> QED BY <1>1, InductiveInvariant, PTL

(* In every chain of effects and samplers, with any failure of the GL and  *)
(* any edges made and deleted on the way, a texture of a pool is free or   *)
(* carried by a frame, never both and never neither (TexturePool.h:13-21). *)
THEOREM PoolsAreSound == Spec => []PoolSound
<1>1. IInv => PoolSound
  BY DEF IInv, Pools, PoolOK, PoolSound
<1> QED BY <1>1, InductiveInvariant, PTL

(* No node's deletion, and no new picture of the source, deletes a texture *)
(* that a frame of a pool still references (TexturePool.h:20).             *)
THEOREM TexturesStayAlive == Spec => []TexturesAlive
<1>1. ASSUME IInv PROVE TexturesAlive
  <2>1. \A f \in Held \cap PoolFrame : tex[f[2]] # Deleted
    BY <1>1, HeldIsAlive DEF IInv
  <2> QED BY <1>1, <2>1 DEF IInv, Alive, TexturesAlive
<1> QED BY <1>1, InductiveInvariant, PTL

(* In every chain each texture of every pool is free or alive in a frame.  *)
THEOREM TexturesStayAccounted == Spec => []TexturesAccounted
<1>1. PoolSound /\ TexturesAlive => TexturesAccounted
  BY DEF TexturesAccounted
<1> QED BY <1>1, PoolsAreSound, TexturesStayAlive, PTL

-----------------------------------------------------------------------------
(* What the window paints.  The source's frame never gets beyond the first *)
(* effect of the chain, which gives frames of its own ...                  *)
SourceStaysBefore ==
  \A e \in Stage : Kind[e] = "effect" =>
    /\ \A k \in Node : k > e => m_lastInput[k] # Src
    /\ \A k \in Node : k >= e => m_output[k] # Src
    /\ pos > e => arg # Src

(* ... so that it gets to the window, shown or hidden, only if there is    *)
(* none.  The texture of any other frame is the one that is painted, as it *)
(* was when presented.                                                     *)
NoEffects == \A i \in Stage : Kind[i] = "sampler"

PaintsItsFrame ==
  CASE m_textureOwner = None -> m_textureHandle = None
    [] m_textureOwner = Src  -> NoEffects
    [] OTHER                 ->
         /\ m_textureOwner \in PoolFrame
         /\ m_textureHandle = [tex |-> m_textureOwner[2], pic |-> tex[m_textureOwner[2]].pic]

LEMMA StageNumbers ==
  /\ Stage \subseteq Nat /\ Node \subseteq Nat /\ Out \in Nat
  /\ \A e \in Stage : e >= 1 /\ e < Out /\ e + 1 \in Node
  /\ \A k \in Node : k = 1 \/ (k > 1 /\ k - 1 \in Node)
  BY FramesAssumption DEF Stage, Node, Out

(* A node has taken f for its output, and perhaps called the next with g.  *)
LEMMA StageStays ==
  ASSUME IInv, SourceStaysBefore, NEW i \in Stage, pos = i, NEW f, NEW g,
         Kind[i] = "effect" => f # Src /\ g # Src,
         f = Src => f \in {arg, m_output[i]}, g = Src => g = arg,
         m_lastInput' = [m_lastInput EXCEPT ![i] = arg], m_output' = [m_output EXCEPT ![i] = f],
         Call(i + 1, g) \/ Invalidate(i + 1) \/ Idle
  PROVE  SourceStaysBefore'
<1> SUFFICES ASSUME NEW e \in Stage, Kind[e] = "effect"
             PROVE  /\ \A k \in Node : k > e => m_lastInput'[k] # Src
                    /\ \A k \in Node : k >= e => m_output'[k] # Src
                    /\ pos' > e => arg' # Src
  BY DEF SourceStaysBefore
<1>1. /\ \A k \in Node : k > e => m_lastInput[k] # Src
      /\ \A k \in Node : k >= e => m_output[k] # Src
      /\ pos > e => arg # Src
  BY DEF SourceStaysBefore
<1>2. i \in Node /\ i \in Nat /\ e \in Nat /\ e >= 1
  BY StageNumbers, Numbers
<1>3. \A k \in Node : /\ m_lastInput'[k] = IF k = i THEN arg ELSE m_lastInput[k]
                      /\ m_output'[k] = IF k = i THEN f ELSE m_output[k]
  BY DEF IInv, TypeOK
<1>4. i > e => arg # Src /\ f # Src /\ g # Src
  BY <1>1, <1>2
<1>5. i = e => f # Src /\ g # Src
  OBVIOUS
<1>6. (pos' = 0 \/ pos' = i + 1) /\ arg' \in {g, None}
  BY DEF Call, Invalidate, Idle
<1>7. pos' > e => arg' # Src
  BY <1>2, <1>4, <1>5, <1>6, FramesAssumption
<1>8. \A k \in Node : k > e => m_lastInput'[k] # Src
  BY <1>1, <1>3, <1>4
<1>9. \A k \in Node : k >= e => m_output'[k] # Src
  <2>1. ASSUME NEW k \in Node, k >= e PROVE m_output'[k] # Src
    <3>1. CASE k # i
      BY <1>1, <1>3, <2>1, <3>1
    <3>2. CASE k = i
      BY <1>2, <1>3, <1>4, <1>5, <2>1, <3>2
    <3> QED BY <3>1, <3>2
  <2> QED BY <2>1
<1> QED BY <1>7, <1>8, <1>9

LEMMA SourceStays ==
  ASSUME IInv, SourceStaysBefore, Next
  PROVE  SourceStaysBefore'
<1> USE DEF SourceStaysBefore
<1>0. None # Src /\ Cpu # Src /\ Src \notin PoolFrame
  BY FramesAssumption
<1>1. ASSUME NEW valid \in BOOLEAN, NEW c \in Shots, onFrameAvailable(valid, c)
      PROVE  SourceStaysBefore'
  <2>1. UNCHANGED <<m_lastInput, m_output>> /\ (pos' = 1 \/ arg' = None)
    BY <1>1 DEF onFrameAvailable, Call, Idle
  <2>2. \A e \in Stage : ~(1 > e)
    BY StageNumbers
  <2> QED BY <1>0, <2>1, <2>2
<1>2. CASE asTexture
  BY <1>2 DEF asTexture
<1>3. ASSUME NEW i \in Stage, VideoEffectNode(i)
      PROVE  SourceStaysBefore'
  <2>1. pos = i /\ Kind[i] = "effect"
    BY <1>3 DEF VideoEffectNode
  <2>2. PICK f : /\ f # Src
                 /\ m_lastInput' = [m_lastInput EXCEPT ![i] = arg] /\ m_output' = [m_output EXCEPT ![i] = f]
                 /\ EffectEmits(i, f)
    <3>1. CASE HasFrame(arg) /\ EffectOnTexture(i)
      <4>1. PICK a \in acquire(i, Handle(arg).size,
                               FreeAfter(HeldBy([m_lastInput EXCEPT ![i] = arg],
                                                [m_output EXCEPT ![i] = None], m_textureOwner), gone)[i]) :
              \E f \in {<<i, a.id, Handle(arg).size>>, Cpu, None} :
                /\ m_lastInput' = [m_lastInput EXCEPT ![i] = arg]
                /\ m_output' = [m_output EXCEPT ![i] = f]
                /\ EffectEmits(i, f)
        BY <3>1 DEF EffectOnTexture
      <4>2. PICK f \in {<<i, a.id, Handle(arg).size>>, Cpu, None} :
                /\ m_lastInput' = [m_lastInput EXCEPT ![i] = arg]
                /\ m_output' = [m_output EXCEPT ![i] = f]
                /\ EffectEmits(i, f)
        BY <4>1
      <4>3. <<i, a.id, Handle(arg).size>> # Src
        <5>1. Handle(arg) \in [tex : Name, size : Size]
          BY <3>1, ArgIsAlive DEF EffectOnTexture
        <5>2. a.id \in Name
          <6> DEFINE free == FreeAfter(HeldBy([m_lastInput EXCEPT ![i] = arg],
                                                [m_output EXCEPT ![i] = None], m_textureOwner), gone)[i]
          <6>1. free \in SUBSET Entry
            BY Numbers DEF FreeAfter, Released, IInv, TypeOK
          <6>2. i \in Node /\ Handle(arg).size \in Size
            BY <5>1, Numbers
          <6> HIDE DEF free
          <6>3. a \in acquire(i, Handle(arg).size, free)
            BY DEF free
          <6> QED BY <6>1, <6>2, <6>3, AcquireGives DEF IInv
        <5>3. <<i, a.id, Handle(arg).size>> \in PoolFrame
          BY <5>1, <5>2, Numbers DEF PoolFrame
        <5> QED BY <1>0, <5>3
      <4>4. f # Src
        BY <1>0, <4>2, <4>3
      <4> QED BY <4>2, <4>4
    <3>2. CASE HasFrame(arg) /\ EffectOnCpu(i)
      BY <1>0, <3>2 DEF EffectOnCpu, Hold
    <3>3. CASE ~HasFrame(arg)
      BY <1>0, <1>3, <3>3 DEF VideoEffectNode, Hold
    <3> QED BY <1>3, <3>1, <3>2, <3>3 DEF VideoEffectNode
  <2> HIDE DEF SourceStaysBefore
  <2>3. Call(i + 1, f) \/ Invalidate(i + 1) \/ Idle
    BY <2>2 DEF EffectEmits
  <2>4. PICK g : g = f
    OBVIOUS
  <2>5. /\ Kind[i] = "effect" => f # Src /\ g # Src
        /\ f = Src => f \in {arg, m_output[i]}
        /\ g = Src => g = arg
        /\ Call(i + 1, g) \/ Invalidate(i + 1) \/ Idle
    BY <2>2, <2>3, <2>4
  <2>6. /\ m_lastInput' = [m_lastInput EXCEPT ![i] = arg]
        /\ m_output' = [m_output EXCEPT ![i] = f]
    BY <2>2
  <2> QED BY <2>1, <2>5, <2>6, StageStays
<1>4. ASSUME NEW i \in Stage, FrameSamplerNode(i)
      PROVE  SourceStaysBefore'
  <2>1. PICK f \in {arg, None, m_output[i]} :
          /\ m_lastInput' = [m_lastInput EXCEPT ![i] = arg] /\ m_output' = [m_output EXCEPT ![i] = f]
          /\ Call(i + 1, arg) \/ Invalidate(i + 1) \/ Idle
    BY <1>4 DEF FrameSamplerNode, Hold
  <2>2. pos = i /\ Kind[i] # "effect"
    BY <1>4 DEF FrameSamplerNode
  <2>3. f = Src => f \in {arg, m_output[i]}
    BY <1>0, <2>1
  <2> HIDE DEF SourceStaysBefore
  <2> QED BY <2>1, <2>2, <2>3, StageStays
<1>5. CASE VideoOutputNode
  <2>1. pos = Out /\ pos' = 0 /\ \A e \in Stage : Out > e /\ ~(0 > e)
    BY <1>5, StageNumbers DEF VideoOutputNode, Idle
  <2>2. Out \in Node
    BY Numbers
  <2>3. CASE UNCHANGED <<m_lastInput, m_output>>
    BY <2>1, <2>3
  <2>4. ASSUME NEW f, \A e \in Stage : Kind[e] = "effect" => f # Src,
               NEW given, given \in {arg, None},
               m_lastInput' = [m_lastInput EXCEPT ![Out] = given],
               m_output' \in {m_output, [m_output EXCEPT ![Out] = f]}
        PROVE  SourceStaysBefore'
    <3>1. \A k \in Node : /\ m_lastInput'[k] = IF k = Out THEN given ELSE m_lastInput[k]
                          /\ m_output'[k] \in IF k = Out THEN {f, m_output[k]} ELSE {m_output[k]}
      BY <2>4 DEF IInv, TypeOK
    <3> QED BY <1>0, <2>1, <2>4, <3>1
  <2>5. CASE ~HasFrame(arg)
    BY <1>0, <1>5, <2>4, <2>5 DEF VideoOutputNode, OutputNoFrame, Hold
  <2>6. CASE HasFrame(arg) /\ Out \notin connected
    BY <1>5, <2>3, <2>6 DEF VideoOutputNode
  <2>7. CASE HasFrame(arg) /\ Out \in connected
    <3>1. PICK f : Present(f) /\ \A e \in Stage : Kind[e] = "effect" => f # Src
      <4>1. \A e \in Stage : Kind[e] = "effect" => arg # Src
        BY <2>1
      <4>2. \A f \in WithoutDrawing : f \in {arg, Cpu}
        BY DEF WithoutDrawing
      <4>3. CASE OutputAsIs
        BY <1>0, <4>1, <4>2, <4>3 DEF OutputAsIs
      <4>4. CASE OutputOnTexture
        <5>1. PICK a \in acquire(Out, Handle(arg).size,
                                 FreeAfter(HeldBy(InputTaken, m_output, m_textureOwner), gone)[Out]) :
                \E f \in {<<Out, a.id, Handle(arg).size>>} \cup WithoutDrawing : Present(f)
          BY <4>4 DEF OutputOnTexture
        <5>2. PICK f \in {<<Out, a.id, Handle(arg).size>>} \cup WithoutDrawing : Present(f)
          BY <5>1
        <5>3. Handle(arg) \in [tex : Name, size : Size]
          BY <4>4, ArgIsAlive DEF OutputOnTexture
        <5>4. a.id \in Name
          <6> DEFINE free == FreeAfter(HeldBy(InputTaken, m_output, m_textureOwner), gone)[Out]
          <6>1. free \in SUBSET Entry
            BY Numbers DEF FreeAfter, Released, IInv, TypeOK
          <6>2. Out \in Node /\ Handle(arg).size \in Size
            BY <5>3, Numbers
          <6> HIDE DEF free
          <6>3. a \in acquire(Out, Handle(arg).size, free)
            BY DEF free
          <6> QED BY <6>1, <6>2, <6>3, AcquireGives DEF IInv
        <5>5. <<Out, a.id, Handle(arg).size>> \in PoolFrame
          BY <5>3, <5>4, Numbers DEF PoolFrame
        <5> QED BY <1>0, <4>1, <4>2, <5>2, <5>5
      <4> QED BY <1>5, <2>7, <4>3, <4>4 DEF VideoOutputNode
    <3> QED BY <2>4, <3>1 DEF Present, InputTaken, PassedOn
  <2> QED BY <2>5, <2>6, <2>7
<1>6. ASSUME NEW i \in Stage, DeleteNode(i)
      PROVE  SourceStaysBefore'
  <2>1. /\ m_lastInput' = [m_lastInput EXCEPT ![i] = None] /\ m_output' = [m_output EXCEPT ![i] = None]
        /\ pos' = pos /\ arg' = arg
    BY <1>6 DEF DeleteNode
  <2>2. \A k \in Node : m_lastInput'[k] \in {m_lastInput[k], None} /\ m_output'[k] \in {m_output[k], None}
    BY <2>1 DEF IInv, TypeOK
  <2> QED BY <1>0, <2>1, <2>2
<1>7. ASSUME NEW k \in Node, reprocessCurrentFrame(k)
      PROVE  SourceStaysBefore'
  BY <1>7 DEF reprocessCurrentFrame
<1>8. ASSUME NEW k \in Node, connectInput(k)
      PROVE  SourceStaysBefore'
  <2>1. UNCHANGED <<m_lastInput, m_output>> /\ pos' = k /\ arg' = Before(k)
    BY <1>8 DEF connectInput
  <2>2. ASSUME NEW e \in Stage, Kind[e] = "effect", k > e PROVE Before(k) # Src
    <3>1. k # 1 /\ k - 1 \in Node /\ k - 1 >= e
      BY <2>2, StageNumbers
    <3> QED BY <2>2, <3>1 DEF Before
  <2> QED BY <2>1, <2>2
<1>9. ASSUME NEW k \in Node, inputConnectionDeleted(k)
      PROVE  SourceStaysBefore'
  <2>1. arg' = None
    BY <1>9 DEF inputConnectionDeleted
  <2>2. \A j \in Node : m_lastInput'[j] \in {m_lastInput[j], None} /\ m_output'[j] \in {m_output[j], None}
    BY <1>9 DEF inputConnectionDeleted, Hold, IInv, TypeOK
  <2> QED BY <1>0, <2>1, <2>2
<1>10. ASSUME NEW c \in {0, 1}, outputConnection(c)
       PROVE  SourceStaysBefore'
  BY <1>10 DEF outputConnection
<1> HIDE DEF SourceStaysBefore
<1> QED BY <1>1, <1>2, <1>3, <1>4, <1>5, <1>6, <1>7, <1>8, <1>9, <1>10 DEF Next
-----------------------------------------------------------------------------
(* A frame of a pool that is held: its texture is the pool's and no other's.*)
LEMMA HeldIsPooled ==
  ASSUME IInv, NEW f \in Held \cap PoolFrame
  PROVE  \E k \in Node, n \in Name, s \in Size :
           /\ f = <<k, n, s>> /\ n \in Ids(m_all[k]) /\ n \in Carried(k, Held)
           /\ \A j \in Node \ {k} : n \notin Ids(m_all[j])
           /\ tex[n] # Deleted /\ n # src.up
<1>1. PICK k \in Node, n \in Name, s \in Size : f = <<k, n, s>>
  BY DEF PoolFrame
<1>2. n \in Carried(k, Held)
  BY <1>1 DEF Carried
<1>3. n \in Ids(m_all[k])
  BY <1>2 DEF IInv, Pools, PoolOK
<1> QED BY <1>1, <1>2, <1>3 DEF IInv, Alive

(* Letting go of other frames and nodes leaves its texture alone, and so   *)
(* does drawing into a texture that was acquired while it was held.        *)
LEMMA LettingGoSpares ==
  ASSUME IInv, NEW f \in Held \cap PoolFrame, NEW held, f \in held, NEW dead
  PROVE  TexAfter(held, dead)[f[2]] = tex[f[2]]
<1>1. PICK k \in Node, n \in Name, s \in Size :
        /\ f = <<k, n, s>> /\ \A j \in Node \ {k} : n \notin Ids(m_all[j])
  BY HeldIsPooled
<1>2. n \in Carried(k, held)
  BY <1>1 DEF Carried
<1>3. \A j \in Node : ~(Orphaned(j, held, dead) /\ n \in Ids(m_all[j]))
  BY <1>1, <1>2 DEF Orphaned
<1>4. TexAfter(held, dead)[n] = tex[n]
  BY <1>3 DEF TexAfter
<1> QED BY <1>1, <1>4

LEMMA DrawingSpares ==
  ASSUME IInv, NEW f \in Held \cap PoolFrame, NEW k \in Node, NEW before, NEW held,
         f \in before, f \in held, NEW h, h.size \in Size,
         NEW free, free = FreeAfter(before, gone)[k], NEW a \in acquire(k, h.size, free),
         processTexture(k, h, a, held)
  PROVE  tex'[f[2]] = tex[f[2]]
<1>1. PICK i \in Node, n \in Name, s \in Size :
        /\ f = <<i, n, s>> /\ n \in Ids(m_all[i]) /\ n \in Carried(i, Held)
        /\ \A j \in Node \ {i} : n \notin Ids(m_all[j])
        /\ tex[n] # Deleted
  BY HeldIsPooled
<1>2. free \subseteq m_free[k] \cup Released(k, before) /\ free \in SUBSET Entry
  BY DEF FreeAfter, Released, IInv, TypeOK
<1>3. /\ a.id \in Name
      /\ (\E e \in free : a.id = e.id) \/ tex[a.id] = Deleted
  BY <1>2, AcquireGives DEF IInv
<1>4. a.id # n
  <2>1. CASE tex[a.id] = Deleted
    BY <1>1, <2>1
  <2>2. ASSUME NEW e \in free PROVE e.id # n
    <3>1. e \in m_all[k]
      BY <1>2 DEF Released, IInv, Pools, PoolOK
    <3>2. CASE i # k
      BY <1>1, <3>1, <3>2 DEF Ids
    <3>3. CASE i = k
      <4>1. n \in Carried(k, before)
        BY <1>1, <3>3 DEF Carried
      <4>2. e \in m_free[k] => e.id \notin Carried(k, Held)
        BY DEF IInv, Pools, PoolOK, Ids
      <4> QED BY <1>1, <1>2, <3>3, <4>1, <4>2 DEF Released
    <3> QED BY <3>2, <3>3
  <2> QED BY <1>3, <2>1, <2>2
<1>5. tex'[n] = TexAfter(held, gone)[n]
  BY <1>1, <1>3, <1>4 DEF processTexture, TexAfter
<1> QED BY <1>1, <1>5, LettingGoSpares

(* The window keeps its frame, whose texture nothing was drawn into, or is *)
(* given another.                                                          *)
LEMMA KeptIsPainted ==
  ASSUME PaintsItsFrame, UNCHANGED <<m_textureOwner, m_textureHandle>>,
         m_textureOwner \in PoolFrame => tex'[m_textureOwner[2]] = tex[m_textureOwner[2]]
  PROVE  PaintsItsFrame'
  BY FramesAssumption DEF PaintsItsFrame

LEMMA PresentedIsPainted ==
  ASSUME IInv, NEW f \in Frame, f = Src => NoEffects, Present(f)
  PROVE  PaintsItsFrame'
<1>0. None # Src /\ Src \notin PoolFrame
  BY FramesAssumption
<1>1. CASE Handle(f) = None
  BY <1>0, <1>1 DEF Present, Owner, PaintsItsFrame
<1>2. CASE Handle(f) # None /\ f = Src
  BY <1>0, <1>2 DEF Present, Owner, PaintsItsFrame
<1>3. CASE Handle(f) # None /\ f # Src
  <2>1. f \in PoolFrame /\ Handle(f).tex = f[2]
    BY <1>3, HandleType DEF IInv
  <2>2. f # None
    BY <2>1, FramesAssumption
  <2>3. m_textureOwner' = f /\ m_textureHandle' = [tex |-> f[2], pic |-> tex'[f[2]].pic]
    BY <1>3, <2>1 DEF Present, Owner
  <2> QED BY <1>0, <2>1, <2>2, <2>3 DEF PaintsItsFrame
<1> QED BY <1>1, <1>2, <1>3

LEMMA WindowPaints ==
  ASSUME IInv, SourceStaysBefore, PaintsItsFrame, Next
  PROVE  PaintsItsFrame'
<1>0. None # Src /\ Cpu # Src /\ Src \notin PoolFrame
  BY FramesAssumption
<1>1. m_textureOwner \in Held
  BY OwnerIsHeld
<1>2. ASSUME NEW in, NEW out, Hold(in, out, m_textureOwner), UNCHANGED m_textureHandle
      PROVE  PaintsItsFrame'
  <2>1. m_textureOwner \in HeldBy(in, out, m_textureOwner)
    BY DEF HeldBy
  <2>2. m_textureOwner \in PoolFrame => tex'[m_textureOwner[2]] = tex[m_textureOwner[2]]
    BY <1>1, <1>2, <2>1, LettingGoSpares DEF Hold
  <2> QED BY <1>2, <2>2, KeptIsPainted DEF Hold
<1>3. ASSUME NEW valid \in BOOLEAN, NEW c \in Shots, onFrameAvailable(valid, c)
      PROVE  PaintsItsFrame'
  <2>1. m_textureOwner \in PoolFrame => tex'[m_textureOwner[2]] = tex[m_textureOwner[2]]
    <3> SUFFICES ASSUME m_textureOwner \in PoolFrame PROVE tex'[m_textureOwner[2]] = tex[m_textureOwner[2]]
      OBVIOUS
    <3>1. PICK n \in Name : n = m_textureOwner[2] /\ n # src.up
      BY <1>1, HeldIsPooled
    <3> QED BY <1>3, <3>1 DEF onFrameAvailable, setFrame, DeleteUpload, IInv, TypeOK
  <2> QED BY <1>3, <2>1, KeptIsPainted DEF onFrameAvailable, winVars
<1>4. CASE asTexture
  <2>1. m_textureOwner \in PoolFrame => tex'[m_textureOwner[2]] = tex[m_textureOwner[2]]
    <3> SUFFICES ASSUME m_textureOwner \in PoolFrame PROVE tex'[m_textureOwner[2]] = tex[m_textureOwner[2]]
      OBVIOUS
    <3>1. PICK n \in Name : n = m_textureOwner[2] /\ tex[n] # Deleted
      BY <1>1, HeldIsPooled
    <3>2. PICK m \in Name :
            /\ tex[m] = Deleted
            /\ tex' = [tex EXCEPT ![m] = [size |-> src.size, pic |-> src.pic]]
      BY <1>4 DEF asTexture
    <3> QED BY <3>1, <3>2 DEF IInv, TypeOK
  <2> QED BY <1>4, <2>1, KeptIsPainted DEF asTexture, winVars
<1>5. ASSUME NEW i \in Stage, VideoEffectNode(i)
      PROVE  PaintsItsFrame'
  <2>1. CASE HasFrame(arg) /\ EffectOnTexture(i)
    <3> DEFINE in     == [m_lastInput EXCEPT ![i] = arg]
               before == HeldBy(in, [m_output EXCEPT ![i] = None], m_textureOwner)
               free   == FreeAfter(before, gone)[i]
    <3>1. PICK a \in acquire(i, Handle(arg).size, free) :
            \E out : processTexture(i, Handle(arg), a, HeldBy(in, out, m_textureOwner))
      BY <2>1 DEF EffectOnTexture
    <3>2. PICK out : processTexture(i, Handle(arg), a, HeldBy(in, out, m_textureOwner))
      BY <3>1
    <3>3. m_textureOwner \in before /\ m_textureOwner \in HeldBy(in, out, m_textureOwner)
      BY DEF HeldBy
    <3>4. Handle(arg).size \in Size /\ i \in Node
      BY <2>1, ArgIsAlive, Numbers DEF EffectOnTexture
    <3>5. m_textureOwner \in PoolFrame => tex'[m_textureOwner[2]] = tex[m_textureOwner[2]]
      <4> HIDE DEF in, before
      <4>1. PICK freed : freed = FreeAfter(before, gone)[i]
        OBVIOUS
      <4> QED BY <1>1, <3>2, <3>3, <3>4, <4>1, DrawingSpares
    <3>6. UNCHANGED <<m_textureOwner, m_textureHandle>>
      BY <2>1 DEF EffectOnTexture, winVars
    <3> QED BY <3>5, <3>6, KeptIsPainted
  <2>2. CASE HasFrame(arg) /\ EffectOnCpu(i)
    <3>1. UNCHANGED m_textureHandle
      BY <2>2 DEF EffectOnCpu
    <3> QED BY <1>2, <2>2, <3>1 DEF EffectOnCpu
  <2>3. CASE ~HasFrame(arg)
    BY <1>2, <1>5, <2>3 DEF VideoEffectNode
  <2> QED BY <1>5, <2>1, <2>2, <2>3 DEF VideoEffectNode
<1>6. ASSUME NEW i \in Stage, FrameSamplerNode(i)
      PROVE  PaintsItsFrame'
  BY <1>2, <1>6 DEF FrameSamplerNode
<1>7. CASE VideoOutputNode
  <2>1. pos = Out /\ arg \in Frame /\ Cpu \in Frame
    BY <1>7 DEF VideoOutputNode, IInv, TypeOK, Frame
  <2>2. arg = Src => NoEffects
    BY <2>1, StageNumbers, FramesAssumption DEF SourceStaysBefore, NoEffects
  <2>3. \A f \in WithoutDrawing : f \in Frame /\ (f = Src => NoEffects)
    BY <1>0, <2>1, <2>2 DEF WithoutDrawing
  <2>4. CASE ~HasFrame(arg)
    BY <1>2, <1>7, <2>4 DEF VideoOutputNode, OutputNoFrame
  <2>5. CASE HasFrame(arg) /\ Out \notin connected
    BY <1>7, <2>5, KeptIsPainted DEF VideoOutputNode, poolVars, winVars
  <2>6. CASE HasFrame(arg) /\ Out \in connected /\ OutputAsIs
    BY <2>3, <2>6, PresentedIsPainted DEF OutputAsIs
  <2>7. CASE HasFrame(arg) /\ Out \in connected /\ OutputOnTexture
    <3> DEFINE free == FreeAfter(HeldBy(InputTaken, m_output, m_textureOwner), gone)[Out]
    <3>1. PICK a \in acquire(Out, Handle(arg).size, free) :
            \E f \in {<<Out, a.id, Handle(arg).size>>} \cup WithoutDrawing : Present(f)
      BY <2>7 DEF OutputOnTexture
    <3>2. PICK f \in {<<Out, a.id, Handle(arg).size>>} \cup WithoutDrawing : Present(f)
      BY <3>1
    <3>3. Handle(arg) \in [tex : Name, size : Size] /\ Out \in Node
      BY <2>7, ArgIsAlive, Numbers DEF OutputOnTexture
    <3>4. free \in SUBSET Entry
      BY <3>3 DEF FreeAfter, Released, IInv, TypeOK
    <3>5. a.id \in Name
      <4> HIDE DEF free
      <4>1. Handle(arg).size \in Size
        BY <3>3
      <4> QED BY <3>1, <3>3, <3>4, <4>1, AcquireGives DEF IInv
    <3>6. <<Out, a.id, Handle(arg).size>> \in PoolFrame
      BY <3>3, <3>5 DEF PoolFrame
    <3>7. f \in Frame /\ (f = Src => NoEffects)
      BY <1>0, <2>3, <3>2, <3>6 DEF Frame
    <3> QED BY <3>2, <3>7, PresentedIsPainted
  <2> QED BY <1>7, <2>4, <2>5, <2>6, <2>7 DEF VideoOutputNode
<1>8. ASSUME NEW i \in Stage, DeleteNode(i)
      PROVE  PaintsItsFrame'
  <2> DEFINE held == HeldBy([m_lastInput EXCEPT ![i] = None], [m_output EXCEPT ![i] = None], m_textureOwner)
  <2>1. tex' = TexAfter(held, gone \cup {i}) /\ UNCHANGED <<m_textureOwner, m_textureHandle>>
    BY <1>8 DEF DeleteNode, winVars
  <2>2. m_textureOwner \in held
    BY DEF HeldBy
  <2>3. m_textureOwner \in PoolFrame => tex'[m_textureOwner[2]] = tex[m_textureOwner[2]]
    <3> HIDE DEF held
    <3> QED BY <1>1, <2>1, <2>2, LettingGoSpares
  <2> QED BY <2>1, <2>3, KeptIsPainted
<1>9. ASSUME NEW k \in Node, reprocessCurrentFrame(k)
      PROVE  PaintsItsFrame'
  BY <1>9, KeptIsPainted DEF reprocessCurrentFrame, poolVars, winVars
<1>10. ASSUME NEW k \in Node, connectInput(k)
       PROVE  PaintsItsFrame'
  BY <1>10, KeptIsPainted DEF connectInput, poolVars, winVars
<1>11. ASSUME NEW k \in Node, inputConnectionDeleted(k)
       PROVE  PaintsItsFrame'
  <2>1. CASE k = Out
    BY <1>0, <1>11, <2>1 DEF inputConnectionDeleted, Hold, PaintsItsFrame
  <2>2. CASE k # Out
    BY <1>11, <2>2, KeptIsPainted DEF inputConnectionDeleted, poolVars, winVars
  <2> QED BY <2>1, <2>2
<1>12. ASSUME NEW c \in {0, 1}, outputConnection(c)
       PROVE  PaintsItsFrame'
  BY <1>12, KeptIsPainted DEF outputConnection, poolVars, winVars
<1> QED BY <1>3, <1>4, <1>5, <1>6, <1>7, <1>8, <1>9, <1>10, <1>11, <1>12 DEF Next

(* Whatever the chain, a picture that the window was given in a frame of a *)
(* pool is the one it paints until the next is presented, and only without *)
(* an effect in the chain is it given the source's own frame, of which     *)
(* this does not hold (presentTexture; VideoGLBlitWidget.cpp:186).         *)
THEOREM PooledPicturesKept == Spec => []PooledPicturesStay
<1> DEFINE PaintInv == IInv /\ SourceStaysBefore /\ PaintsItsFrame
<1>1. Init => PaintInv
  <2> SUFFICES ASSUME Init PROVE PaintInv
    OBVIOUS
  <2>1. None # Src
    BY FramesAssumption
  <2> QED BY <2>1, InitIInv DEF Init, SourceStaysBefore, PaintsItsFrame
<1>2. PaintInv /\ [Next]_vars => PaintInv'
  <2> SUFFICES ASSUME PaintInv, [Next]_vars PROVE PaintInv'
    OBVIOUS
  <2>1. IInv'
    BY NextIInv
  <2>2. CASE Next
    BY <2>1, <2>2, SourceStays, WindowPaints
  <2>3. CASE UNCHANGED vars
    BY <2>1, <2>3 DEF vars, poolVars, winVars, SourceStaysBefore, PaintsItsFrame
  <2> QED BY <2>2, <2>3
<1>3. PaintInv => PooledPicturesStay
  <2> SUFFICES ASSUME PaintInv PROVE PooledPicturesStay
    OBVIOUS
  <2>1. None # Src
    BY FramesAssumption
  <2>2. m_textureOwner = Src => NoEffects
    BY <2>1 DEF PaintsItsFrame
  <2>3. ASSUME m_textureOwner # Src, m_textureHandle # None
        PROVE  /\ tex[m_textureHandle.tex] # Deleted
               /\ tex[m_textureHandle.tex].pic = m_textureHandle.pic
    <3>1. /\ m_textureOwner \in PoolFrame
          /\ m_textureHandle = [tex |-> m_textureOwner[2], pic |-> tex[m_textureOwner[2]].pic]
      BY <2>3 DEF PaintsItsFrame
    <3>2. tex[m_textureOwner[2]] # Deleted
      BY <3>1, OwnerIsHeld, HeldIsAlive DEF IInv
    <3> QED BY <3>1, <3>2
  <2> QED BY <2>2, <2>3 DEF PooledPicturesStay, NoEffects
<1> HIDE DEF PaintInv
<1> QED BY <1>1, <1>2, <1>3, PTL DEF Spec
=============================================================================
