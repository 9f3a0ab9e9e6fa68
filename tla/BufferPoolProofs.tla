------------------------- MODULE BufferPoolProofs -------------------------
(***************************************************************************)
(* The buffer pool accounts for every frame, keeps the frames of pinned     *)
(* pages, gives every id out once, and is the store of pages that its       *)
(* callers see: for any number of frames, pages, threads and pins and any   *)
(* contents.                                                                *)
(*                                                                          *)
(* PoolInv is about frames, lists, pins and pointers and does not look at   *)
(* what is in a page; StoreInv relates the frames to the file.              *)
(***************************************************************************)
EXTENDS BufferPool, Lemmas

Page == [page_id : Nat, pin_count : Nat, is_dirty : BOOLEAN, data : Data]

PoolTypes ==
  /\ pages \in [Frames -> Page]
  /\ page_table \in [PageIds -> Frames \cup {NoFrame}]
  /\ free_list \in Seq(Frames) /\ lru_list \in Seq(Frames)
  /\ pins \in [Threads -> [PageIds -> 0 .. MaxPins]]
  /\ ptr \in [Threads -> [PageIds -> Frames \cup {NoFrame}]]
  /\ wrote \in [Threads -> SUBSET PageIds]

StoreTypes ==
  /\ disk \in [PageIds -> Data]
  /\ file_size \in 0 .. MaxPages /\ next_page_id \in 0 .. MaxPages
  /\ failed \in BOOLEAN /\ lossy \in BOOLEAN
  /\ given \subseteq PageIds

\* who has written to a page has it pinned
WrotePinned == \A t \in Threads : \A p \in wrote[t] : pins[t][p] > 0

\* an id that NewPage has not given out yet has no frame
CachedIsAllocated == \A p \in PageIds : Cached(p) => p < next_page_id

\* the file has only zeros beyond its end
ZeroBeyond == \A p \in PageIds : p >= file_size => disk[p] = Zero

\* an id that was given out is behind next_page_id, and its page is in the
\* file or will be written to it
GivenAreKept ==
  /\ \A p \in given : p < next_page_id
  /\ ~failed => \A p \in given : p < file_size \/ p \in Dirty

\* a clean page that nobody has written to is what the file has
CleanIsOnDisk ==
  ~failed /\ ~lossy =>
    \A p \in PageIds :
      Cached(p) /\ ~Of(p).is_dirty /\ (\A t \in Threads : p \notin wrote[t]) => Of(p).data = disk[p]

PoolInv == PoolTypes /\ FramesPartitioned /\ PointersStayGood /\ WrotePinned

StoreInv == StoreTypes /\ CachedIsAllocated /\ ZeroBeyond /\ GivenAreKept /\ CleanIsOnDisk

IInv == PoolInv /\ StoreInv

-----------------------------------------------------------------------------
(* Pins.                                                                    *)

\* The pins on a page can be counted.
LEMMA PinsFinite ==
  ASSUME NEW p
  PROVE  IsFiniteSet(PinsOn(p)) /\ Cardinality(PinsOn(p)) \in Nat
<1>1. IsFiniteSet(1 .. MaxPins)
  BY PoolAssumption, FS_Interval
<1>2. IsFiniteSet(Threads \X (1 .. MaxPins))
  BY <1>1, PoolAssumption, FS_Product
<1>3. PinsOn(p) \in SUBSET (Threads \X (1 .. MaxPins))
  BY DEF PinsOn
<1>4. IsFiniteSet(PinsOn(p))
  BY <1>2, <1>3, FS_Subset
<1> QED
  BY <1>4, FS_CardinalityType

\* A page is pinned when some thread has a pin on it.
LEMMA NoPins ==
  ASSUME PoolTypes, NEW p \in PageIds
  PROVE  Cardinality(PinsOn(p)) = 0 <=> \A t \in Threads : pins[t][p] = 0
<1>1. Cardinality(PinsOn(p)) = 0 <=> PinsOn(p) = {}
  BY PinsFinite, FS_EmptySet
<1>2. ASSUME PinsOn(p) = {}, NEW t \in Threads PROVE pins[t][p] = 0
  <2>1. pins[t][p] \in 0 .. MaxPins /\ 1 \in 1 .. MaxPins
    BY PoolAssumption DEF PoolTypes
  <2>2. ~(1 <= pins[t][p])
    <3>1. <<t, 1>> \in Threads \X (1 .. MaxPins)
      BY <2>1
    <3> QED
      BY <1>2, <3>1 DEF PinsOn
  <2> QED
    BY <2>1, <2>2
<1>3. ASSUME \A t \in Threads : pins[t][p] = 0 PROVE PinsOn(p) = {}
  BY <1>3 DEF PinsOn
<1> QED
  BY <1>1, <1>2, <1>3

\* FetchPage adds one to the pins on its page and to no other.
LEMMA OnePinMore ==
  ASSUME PoolTypes, NEW t \in Threads, NEW p \in PageIds, pins[t][p] < MaxPins,
         pins' = [pins EXCEPT ![t][p] = @ + 1]
  PROVE  /\ Cardinality(PinsOn(p)') = Cardinality(PinsOn(p)) + 1
         /\ \A q \in PageIds \ {p} : PinsOn(q)' = PinsOn(q)
         /\ pins' \in [Threads -> [PageIds -> 0 .. MaxPins]]
<1> DEFINE k == <<t, pins[t][p] + 1>>
<1>1. pins[t][p] \in 0 .. MaxPins /\ pins[t][p] + 1 \in 1 .. MaxPins
  BY PoolAssumption DEF PoolTypes
<1>2. pins' \in [Threads -> [PageIds -> 0 .. MaxPins]]
  BY <1>1 DEF PoolTypes
<1>3. /\ pins'[t][p] = pins[t][p] + 1
      /\ \A u \in Threads, q \in PageIds : u # t \/ q # p => pins'[u][q] = pins[u][q]
  BY DEF PoolTypes
<1>4. PinsOn(p)' = PinsOn(p) \cup {k}
  <2>1. ASSUME NEW u \in Threads, NEW i \in 1 .. MaxPins
        PROVE  i <= pins'[u][p] <=> i <= pins[u][p] \/ <<u, i>> = k
    <3>1. CASE u = t
      <4>1. i <= pins[t][p] + 1 <=> i <= pins[t][p] \/ i = pins[t][p] + 1
        BY <1>1
      <4> QED
        BY <1>3, <3>1, <4>1
    <3>2. CASE u # t
      BY <1>3, <3>2
    <3> QED
      BY <3>1, <3>2
  <2>2. k \in Threads \X (1 .. MaxPins)
    BY <1>1
  <2> QED
    BY <2>1, <2>2 DEF PinsOn
<1>5. k \notin PinsOn(p)
  BY <1>1 DEF PinsOn
<1>6. Cardinality(PinsOn(p)') = Cardinality(PinsOn(p)) + 1
  BY <1>4, <1>5, PinsFinite, FS_AddElement
<1>7. \A q \in PageIds \ {p} : PinsOn(q)' = PinsOn(q)
  BY <1>3 DEF PinsOn
<1> QED
  BY <1>2, <1>6, <1>7

\* UnpinPage takes one away.
LEMMA OnePinLess ==
  ASSUME PoolTypes, NEW t \in Threads, NEW p \in PageIds, pins[t][p] > 0,
         pins' = [pins EXCEPT ![t][p] = @ - 1]
  PROVE  /\ Cardinality(PinsOn(p)') = Cardinality(PinsOn(p)) - 1
         /\ \A q \in PageIds \ {p} : PinsOn(q)' = PinsOn(q)
         /\ pins' \in [Threads -> [PageIds -> 0 .. MaxPins]]
<1> DEFINE k == <<t, pins[t][p]>>
<1>1. pins[t][p] \in 1 .. MaxPins /\ pins[t][p] - 1 \in 0 .. MaxPins
  BY PoolAssumption DEF PoolTypes
<1>2. pins' \in [Threads -> [PageIds -> 0 .. MaxPins]]
  BY <1>1 DEF PoolTypes
<1>3. /\ pins'[t][p] = pins[t][p] - 1
      /\ \A u \in Threads, q \in PageIds : u # t \/ q # p => pins'[u][q] = pins[u][q]
  BY DEF PoolTypes
<1>4. PinsOn(p)' = PinsOn(p) \ {k}
  <2>1. ASSUME NEW u \in Threads, NEW i \in 1 .. MaxPins
        PROVE  i <= pins'[u][p] <=> i <= pins[u][p] /\ <<u, i>> # k
    <3>1. CASE u = t
      <4>1. i <= pins[t][p] - 1 <=> i <= pins[t][p] /\ i # pins[t][p]
        BY <1>1
      <4> QED
        BY <1>3, <3>1, <4>1
    <3>2. CASE u # t
      BY <1>3, <3>2
    <3> QED
      BY <3>1, <3>2
  <2> QED
    BY <2>1 DEF PinsOn
<1>5. k \in PinsOn(p)
  BY <1>1 DEF PinsOn
<1> HIDE DEF k
<1>6. Cardinality(PinsOn(p)') = Cardinality(PinsOn(p)) - 1
  BY <1>4, <1>5, PinsFinite, FS_RemoveElement
<1>7. \A q \in PageIds \ {p} : PinsOn(q)' = PinsOn(q)
  BY <1>3 DEF PinsOn
<1> QED
  BY <1>2, <1>6, <1>7

\* The frame of a page that nobody has pinned counts no pins, and the other way.
LEMMA UnpinnedFrame ==
  ASSUME PoolInv, NEW p \in PageIds, Cached(p)
  PROVE  /\ page_table[p] \in Frames /\ Of(p) \in Page /\ Of(p).page_id = p
         /\ Of(p).pin_count = 0 <=> \A t \in Threads : pins[t][p] = 0
         /\ \A q \in PageIds : page_table[q] = page_table[p] => q = p
<1>1. page_table[p] \in Frames
  BY DEF PoolInv, PoolTypes, Cached
<1>2. Of(p) \in Page /\ Of(p).page_id = p
  BY <1>1 DEF PoolInv, PoolTypes, FramesPartitioned, Of
<1>3. Of(p).pin_count = 0 <=> \A t \in Threads : pins[t][p] = 0
  BY NoPins DEF PoolInv, PointersStayGood
<1>4. ASSUME NEW q \in PageIds, page_table[q] = page_table[p] PROVE q = p
  BY <1>2, <1>4 DEF PoolInv, FramesPartitioned, Cached, Of
<1> QED
  BY <1>1, <1>2, <1>3, <1>4

-----------------------------------------------------------------------------
(* The replacer's list.                                                     *)

\* Pin takes the frame out of the replacer's list, if it is there.
LEMMA PinTakesOut ==
  ASSUME PoolInv, NEW f \in Frames
  PROVE  /\ Pin(f) \in Seq(Frames) /\ IsInjective(Pin(f))
         /\ ToSet(Pin(f)) = ToSet(lru_list) \ {f}
<1> DEFINE s == lru_list
<1>1. s \in Seq(Frames) /\ IsInjective(s) /\ ToSet(s) = {s[i] : i \in 1 .. Len(s)}
  BY SetOfSeq DEF PoolInv, PoolTypes, FramesPartitioned
<1> HIDE DEF s
<1>2. CASE \E i \in 1 .. Len(s) : s[i] = f
  <2> DEFINE k == CHOOSE i \in 1 .. Len(s) : s[i] = f
  <2>1. k \in 1 .. Len(s) /\ s[k] = f
    BY <1>2
  <2>2. Pin(f) = RemoveAt(s, k)
    BY <1>2 DEF Pin, s
  <2> HIDE DEF k
  <2> QED
    BY <1>1, <2>1, <2>2, RemoveAtSet DEF s
<1>3. CASE ~ \E i \in 1 .. Len(s) : s[i] = f
  <2>1. Pin(f) = s /\ f \notin ToSet(s)
    BY <1>1, <1>3 DEF Pin, s
  <2> QED
    BY <1>1, <2>1 DEF s
<1> QED
  BY <1>2, <1>3

\* Unpin puts it in, if it is not.
LEMMA UnpinPutsIn ==
  ASSUME PoolInv, NEW f \in Frames
  PROVE  /\ Unpin(f) \in Seq(Frames) /\ IsInjective(Unpin(f))
         /\ ToSet(Unpin(f)) = ToSet(lru_list) \cup {f}
<1> DEFINE s == lru_list
<1>1. s \in Seq(Frames) /\ IsInjective(s) /\ ToSet(s) = {s[i] : i \in 1 .. Len(s)}
  BY SetOfSeq DEF PoolInv, PoolTypes, FramesPartitioned
<1> HIDE DEF s
<1>2. CASE \E i \in 1 .. Len(s) : s[i] = f
  <2>1. Unpin(f) = s /\ f \in ToSet(s)
    BY <1>1, <1>2 DEF Unpin, s
  <2> QED
    BY <1>1, <2>1 DEF s
<1>3. CASE ~ \E i \in 1 .. Len(s) : s[i] = f
  <2>1. Unpin(f) = <<f>> \o s /\ f \notin ToSet(s)
    BY <1>1, <1>3 DEF Unpin, s
  <2> QED
    BY <1>1, <2>1, ConsSet DEF s
<1> QED
  BY <1>2, <1>3

\* The victim is moved to the front when it cannot be written.
LEMMA VictimKept ==
  ASSUME PoolInv, lru_list # <<>>
  PROVE  /\ <<Last(lru_list)>> \o Front(lru_list) \in Seq(Frames)
         /\ IsInjective(<<Last(lru_list)>> \o Front(lru_list))
         /\ ToSet(<<Last(lru_list)>> \o Front(lru_list)) = ToSet(lru_list)
<1> DEFINE s == lru_list
           v == Last(s)
           r == Front(s)
<1>1. s \in Seq(Frames) /\ IsInjective(s) /\ ToSet(s) \subseteq Frames
  BY SetOfSeq DEF PoolInv, PoolTypes, FramesPartitioned
<1> HIDE DEF s
<1>2. v \in ToSet(s) /\ r \in Seq(Frames) /\ IsInjective(r) /\ ToSet(r) = ToSet(s) \ {v}
  BY <1>1, FrontSet DEF s
<1> HIDE DEF r, v
<1>3. /\ <<v>> \o r \in Seq(Frames) /\ IsInjective(<<v>> \o r)
      /\ ToSet(<<v>> \o r) = ToSet(r) \cup {v}
  BY <1>1, <1>2, ConsSet
<1> QED
  BY <1>2, <1>3 DEF r, v, s

\* The frame that FindFreeFrame returns has left the list it was in.
LEMMA FrameFound ==
  ASSUME PoolInv, NEW f, FindFreeFrame(f)
  PROVE  /\ f \in ToSet(free_list) \cup ToSet(lru_list) /\ f \in Frames
         /\ free_list' \in Seq(Frames) /\ IsInjective(free_list')
         /\ lru_list' \in Seq(Frames) /\ IsInjective(lru_list')
         /\ ToSet(free_list') = ToSet(free_list) \ {f}
         /\ ToSet(lru_list') = ToSet(lru_list) \ {f}
<1>1. /\ free_list \in Seq(Frames) /\ IsInjective(free_list) /\ ToSet(free_list) \subseteq Frames
      /\ lru_list \in Seq(Frames) /\ IsInjective(lru_list) /\ ToSet(lru_list) \subseteq Frames
      /\ ToSet(free_list) \cap ToSet(lru_list) = {}
      /\ free_list = <<>> => ToSet(free_list) = {}
  BY SetOfSeq DEF PoolInv, PoolTypes, FramesPartitioned
<1>2. CASE free_list # <<>>
  <2>1. f = Head(free_list) /\ free_list' = Tail(free_list) /\ lru_list' = lru_list
    BY <1>2 DEF FindFreeFrame
  <2>2. /\ f \in ToSet(free_list) /\ free_list' \in Seq(Frames) /\ IsInjective(free_list')
        /\ ToSet(free_list') = ToSet(free_list) \ {f}
    BY <1>1, <1>2, <2>1, TailSet
  <2> QED
    BY <1>1, <2>1, <2>2
<1>3. CASE free_list = <<>>
  <2>1. /\ lru_list # <<>> /\ f = Last(lru_list)
        /\ lru_list' = Front(lru_list) /\ free_list' = free_list
    BY <1>3 DEF FindFreeFrame
  <2>2. /\ f \in ToSet(lru_list) /\ lru_list' \in Seq(Frames) /\ IsInjective(lru_list')
        /\ ToSet(lru_list') = ToSet(lru_list) \ {f}
    BY <1>1, <2>1, FrontSet
  <2> QED
    BY <1>1, <1>3, <2>1, <2>2
<1> QED
  BY <1>2, <1>3

\* The victim of an eviction loses its page.
LEMMA TableWithoutVictim ==
  ASSUME PoolInv, NEW f \in Frames,
         IF free_list = <<>> THEN f \in ToSet(lru_list) ELSE f \in ToSet(free_list)
  PROVE  \A q \in PageIds :
           TableWithout(f)[q] = IF page_table[q] = f THEN NoFrame ELSE page_table[q]
<1> TAKE q \in PageIds
<1>1. f # NoFrame
  BY PoolAssumption DEF Frames, NoFrame
<1>2. CASE free_list # <<>>
  <2>1. page_table[q] # f
    BY <1>1, <1>2 DEF PoolInv, FramesPartitioned, Used
  <2> QED
    BY <1>2, <2>1 DEF TableWithout
<1>3. CASE free_list = <<>>
  <2>1. f \in Used
    BY <1>3 DEF PoolInv, FramesPartitioned
  <2>2. PICK p \in PageIds : page_table[p] = f
    BY <2>1 DEF Used
  <2>3. pages[f].page_id = p /\ (page_table[q] = f <=> q = p)
    BY <1>1, <2>2, UnpinnedFrame DEF Cached, Of
  <2> QED
    BY <1>3, <2>3 DEF TableWithout
<1> QED
  BY <1>2, <1>3

-----------------------------------------------------------------------------
(* What the methods do to the pool.                                         *)

\* A page that has no frame gets one, and the thread its pointer.
LEMMA FrameTaken ==
  ASSUME PoolInv, NEW t \in Threads, NEW p \in PageIds, ~Cached(p), NEW f, FindFreeFrame(f),
         page_table' = [TableWithout(f) EXCEPT ![p] = f],
         pages' \in [Frames -> Page], pages'[f].page_id = p, pages'[f].pin_count = 1,
         \A g \in Frames \ {f} : pages'[g] = pages[g],
         Pinned(t, p, f)
  PROVE  /\ PoolInv'
         /\ f \in Frames /\ page_table'[p] = f
         /\ \A q \in PageIds \ {p} :
              page_table'[q] = IF page_table[q] = f THEN NoFrame ELSE page_table[q]
         /\ \A u \in Threads, q \in PageIds : page_table[q] = f => pins[u][q] = 0
<1>1. /\ f \in ToSet(free_list) \cup ToSet(lru_list) /\ f \in Frames /\ f # NoFrame
      /\ free_list' \in Seq(Frames) /\ IsInjective(free_list')
      /\ lru_list' \in Seq(Frames) /\ IsInjective(lru_list')
      /\ ToSet(free_list') = ToSet(free_list) \ {f}
      /\ ToSet(lru_list') = ToSet(lru_list) \ {f}
  BY FrameFound, PoolAssumption DEF Frames, NoFrame
<1>2. /\ page_table' \in [PageIds -> Frames \cup {NoFrame}] /\ page_table'[p] = f
      /\ \A q \in PageIds \ {p} :
           page_table'[q] = IF page_table[q] = f THEN NoFrame ELSE page_table[q]
  <2>1. IF free_list = <<>> THEN f \in ToSet(lru_list) ELSE f \in ToSet(free_list)
    <3>1. /\ free_list \in Seq(Frames) /\ IsInjective(free_list)
          /\ lru_list \in Seq(Frames) /\ IsInjective(lru_list)
      BY DEF PoolInv, PoolTypes, FramesPartitioned
    <3> QED
      BY <3>1, TailSet, FrontSet DEF FindFreeFrame
  <2>2. \A q \in PageIds :
          TableWithout(f)[q] = IF page_table[q] = f THEN NoFrame ELSE page_table[q]
    BY <1>1, <2>1, TableWithoutVictim
  <2>3. TableWithout(f) \in [PageIds -> Frames \cup {NoFrame}]
    BY DEF TableWithout, PoolInv, PoolTypes
  <2> QED
    BY <1>1, <2>2, <2>3
<1>3. \A q \in PageIds : page_table[q] = f => pages[f].pin_count = 0 /\ \A u \in Threads : pins[u][q] = 0
  <2> TAKE q \in PageIds
  <2> HAVE page_table[q] = f
  <2>1. Cached(q) /\ f \in Used
    BY <1>1 DEF Cached, Used
  <2>2. pages[f].pin_count = 0
    BY <1>1, <2>1 DEF PoolInv, FramesPartitioned
  <2> QED
    BY <2>1, <2>2, UnpinnedFrame DEF Of
<1>4. \A u \in Threads : pins[u][p] = 0
  <2>1. \A u \in Threads : pins[u][p] \in 0 .. MaxPins /\ ~(pins[u][p] > 0)
    BY DEF PoolInv, PointersStayGood, PoolTypes
  <2> QED
    BY <2>1
<1>5. /\ pins' = [pins EXCEPT ![t][p] = @ + 1]
      /\ ptr' = [ptr EXCEPT ![t][p] = f] /\ wrote' = wrote
  BY DEF Pinned
<1>6. PoolTypes /\ pins[t][p] < MaxPins
  BY <1>4, PoolAssumption DEF PoolInv
<1>7. /\ Cardinality(PinsOn(p)') = 1
      /\ \A q \in PageIds \ {p} : PinsOn(q)' = PinsOn(q)
      /\ pins' \in [Threads -> [PageIds -> 0 .. MaxPins]]
  <2>1. Cardinality(PinsOn(p)) = 0
    BY <1>4, <1>6, NoPins
  <2>2. /\ Cardinality(PinsOn(p)') = Cardinality(PinsOn(p)) + 1
        /\ \A q \in PageIds \ {p} : PinsOn(q)' = PinsOn(q)
        /\ pins' \in [Threads -> [PageIds -> 0 .. MaxPins]]
    BY <1>5, <1>6, OnePinMore
  <2> QED
    BY <2>1, <2>2
<1>8. PoolTypes'
  BY <1>1, <1>2, <1>5, <1>7 DEF PoolInv, PoolTypes
<1>9. FramesPartitioned'
  <2>1. Used' = Used \cup {f}
    BY <1>1, <1>2 DEF Used, Cached
  <2>2. ToSet(free_list') = Frames \ Used'
    BY <1>1, <2>1 DEF PoolInv, FramesPartitioned
  <2>3. ToSet(lru_list') = {g \in Used' : pages'[g].pin_count = 0}
    <3>1. \A g \in Used : g \in Frames
      BY DEF Used, PoolInv, PoolTypes
    <3> QED
      BY <1>1, <2>1, <3>1 DEF PoolInv, FramesPartitioned
  <2>4. \A q \in PageIds : Cached(q)' => Of(q)'.page_id = q
    <3> TAKE q \in PageIds
    <3> HAVE Cached(q)'
    <3>1. CASE q = p
      BY <1>2, <3>1 DEF Of
    <3>2. CASE q # p
      <4>1. page_table'[q] = page_table[q] /\ page_table[q] \in Frames \ {f} /\ Cached(q)
        BY <1>2, <3>2 DEF Cached, PoolInv, PoolTypes
      <4> QED
        BY <4>1 DEF Of, PoolInv, FramesPartitioned
    <3> QED
      BY <3>1, <3>2
  <2> QED
    BY <1>1, <2>2, <2>3, <2>4 DEF FramesPartitioned
<1>10. PointersStayGood'
  <2>1. ASSUME NEW u \in Threads, NEW q \in PageIds, pins'[u][q] > 0
        PROVE  Cached(q)' /\ page_table'[q] = ptr'[u][q]
    <3>1. CASE q = p
      <4>1. u = t
        BY <1>4, <1>5, <2>1, <3>1, <1>6 DEF PoolTypes
      <4> QED
        BY <1>1, <1>2, <1>5, <3>1, <4>1, <1>6 DEF PoolTypes, Cached
    <3>2. CASE q # p
      <4>1. pins[u][q] > 0 /\ ptr'[u][q] = ptr[u][q]
        BY <1>5, <1>6, <2>1, <3>2 DEF PoolTypes
      <4>2. Cached(q) /\ page_table[q] = ptr[u][q] /\ page_table[q] # f
        BY <1>3, <4>1 DEF PoolInv, PointersStayGood
      <4> QED
        BY <1>2, <3>2, <4>1, <4>2 DEF Cached
    <3> QED
      BY <3>1, <3>2
  <2>2. ASSUME NEW q \in PageIds, Cached(q)'
        PROVE  Of(q)'.pin_count = Cardinality(PinsOn(q)')
    <3>1. CASE q = p
      BY <1>2, <1>7, <3>1 DEF Of
    <3>2. CASE q # p
      <4>1. page_table'[q] = page_table[q] /\ page_table[q] \in Frames \ {f} /\ Cached(q)
        BY <1>2, <2>2, <3>2 DEF Cached, PoolInv, PoolTypes
      <4>2. Of(q)' = Of(q) /\ PinsOn(q)' = PinsOn(q)
        BY <1>7, <3>2, <4>1 DEF Of
      <4> QED
        BY <4>1, <4>2 DEF PoolInv, PointersStayGood
    <3> QED
      BY <3>1, <3>2
  <2> QED
    BY <2>1, <2>2 DEF PointersStayGood
<1>11. WrotePinned'
  <2>1. \A u \in Threads : \A q \in wrote[u] : q \in PageIds /\ q # p
    BY <1>4, <1>6 DEF PoolInv, WrotePinned, PoolTypes
  <2> QED
    BY <1>5, <1>6, <2>1 DEF PoolInv, WrotePinned, PoolTypes
<1> QED
  BY <1>1, <1>2, <1>3, <1>8, <1>9, <1>10, <1>11 DEF PoolInv

\* The pool with the same frames, pointers and pins, whatever is in the pages.
LEMMA SamePool ==
  ASSUME PoolInv, UNCHANGED <<page_table, free_list, pins, ptr>>,
         wrote' \in [Threads -> SUBSET PageIds], WrotePinned',
         lru_list' \in Seq(Frames), IsInjective(lru_list'), ToSet(lru_list') = ToSet(lru_list),
         pages' \in [Frames -> Page],
         \A f \in Frames : /\ pages'[f].page_id = pages[f].page_id
                           /\ pages'[f].pin_count = pages[f].pin_count
  PROVE  PoolInv'
<1>1. UNCHANGED <<pins, ptr, page_table, free_list>>
  OBVIOUS
<1>2. PoolTypes'
  BY <1>1 DEF PoolInv, PoolTypes
<1>3. Used' = Used /\ \A f \in Used : f \in Frames
  BY <1>1 DEF Used, PoolInv, PoolTypes
<1>4. \A p \in PageIds : /\ Cached(p)' <=> Cached(p)
                         /\ PinsOn(p)' = PinsOn(p)
                         /\ Cached(p) => page_table[p] \in Frames
  BY <1>1 DEF Cached, PinsOn, PoolInv, PoolTypes
<1>5. \A p \in PageIds : Cached(p) => /\ Of(p)'.page_id = Of(p).page_id
                                      /\ Of(p)'.pin_count = Of(p).pin_count
  <2> TAKE p \in PageIds
  <2> HAVE Cached(p)
  <2>1. page_table[p] \in Frames /\ page_table'[p] = page_table[p]
    BY <1>1, <1>4
  <2>2. Of(p)' = pages'[page_table[p]] /\ Of(p) = pages[page_table[p]]
    BY <2>1 DEF Of
  <2> QED
    BY <2>1, <2>2
<1>6. FramesPartitioned'
  <2>1. ToSet(lru_list') = {f \in Used' : pages'[f].pin_count = 0}
    BY <1>3 DEF PoolInv, FramesPartitioned
  <2>2. \A p \in PageIds : Cached(p)' => Of(p)'.page_id = p
    BY <1>4, <1>5 DEF PoolInv, FramesPartitioned
  <2> QED
    BY <1>1, <1>3, <2>1, <2>2 DEF PoolInv, FramesPartitioned
<1>7. PointersStayGood'
  <2>1. ASSUME NEW t \in Threads, NEW p \in PageIds, pins'[t][p] > 0
        PROVE  Cached(p)' /\ page_table'[p] = ptr'[t][p]
    BY <1>1, <1>4, <2>1 DEF PoolInv, PointersStayGood
  <2>2. ASSUME NEW p \in PageIds, Cached(p)'
        PROVE  Of(p)'.pin_count = Cardinality(PinsOn(p)')
    BY <1>4, <1>5, <2>2 DEF PoolInv, PointersStayGood
  <2> QED
    BY <2>1, <2>2 DEF PointersStayGood
<1> QED
  BY <1>2, <1>6, <1>7 DEF PoolInv

\* FetchPage of a page that has a frame.
LEMMA FetchHitPool ==
  ASSUME PoolInv, NEW t \in Threads, NEW p \in PageIds, pins[t][p] < MaxPins, FetchHit(t, p)
  PROVE  /\ PoolInv' /\ page_table' = page_table
         /\ pages' = [pages EXCEPT ![page_table[p]].pin_count = @ + 1]
<1> DEFINE f == page_table[p]
<1>1. /\ f \in Frames /\ pages[f] \in Page /\ pages[f].page_id = p /\ f \in Used
      /\ \A q \in PageIds : page_table[q] = f => q = p
  BY UnpinnedFrame DEF FetchHit, Of, Cached, Used
<1>2. /\ page_table' = page_table /\ free_list' = free_list
      /\ lru_list' \in Seq(Frames) /\ IsInjective(lru_list')
      /\ ToSet(lru_list') = ToSet(lru_list) \ {f}
  BY <1>1, PinTakesOut DEF FetchHit
<1>3. /\ pins' = [pins EXCEPT ![t][p] = @ + 1]
      /\ ptr' = [ptr EXCEPT ![t][p] = f] /\ wrote' = wrote
  BY DEF FetchHit, Pinned
<1>4. /\ pages' = [pages EXCEPT ![f].pin_count = @ + 1]
      /\ pages' \in [Frames -> Page] /\ pages'[f].pin_count = pages[f].pin_count + 1
      /\ pages'[f].page_id = p
      /\ \A g \in Frames \ {f} : pages'[g] = pages[g]
  <2>1. pages' = [pages EXCEPT ![f].pin_count = @ + 1] /\ pages \in [Frames -> Page]
    BY DEF FetchHit, PoolInv, PoolTypes
  <2> HIDE DEF f
  <2>2. pages' = [pages EXCEPT ![f] = [pages[f] EXCEPT !.pin_count = @ + 1]]
    BY <1>1, <2>1
  <2>3. [pages[f] EXCEPT !.pin_count = @ + 1] \in Page
    BY <1>1 DEF Page
  <2> QED
    BY <1>1, <2>1, <2>2, <2>3 DEF Page
<1>5. PoolTypes
  BY DEF PoolInv
<1>6. /\ Cardinality(PinsOn(p)') = Cardinality(PinsOn(p)) + 1
      /\ \A q \in PageIds \ {p} : PinsOn(q)' = PinsOn(q)
      /\ pins' \in [Threads -> [PageIds -> 0 .. MaxPins]]
  BY <1>3, <1>5, OnePinMore
<1> HIDE DEF f
<1>7. PoolTypes' /\ WrotePinned'
  BY <1>1, <1>2, <1>3, <1>4, <1>5, <1>6 DEF PoolInv, PoolTypes, WrotePinned
<1>8. Used' = Used /\ \A q \in PageIds : Cached(q)' <=> Cached(q)
  BY <1>2 DEF Used, Cached
<1>9. ASSUME NEW q \in PageIds, Cached(q), q # p
      PROVE  Of(q)' = Of(q)
  BY <1>1, <1>2, <1>4, <1>9, UnpinnedFrame DEF Of
<1>10. FramesPartitioned'
  <2>1. ToSet(lru_list') = {g \in Used' : pages'[g].pin_count = 0}
    <3>1. pages'[f].pin_count # 0 /\ \A g \in Used : g \in Frames
      BY <1>1, <1>4, <1>5 DEF Page, Used, PoolTypes
    <3> QED
      BY <1>2, <1>4, <1>8, <3>1 DEF PoolInv, FramesPartitioned
  <2>2. \A q \in PageIds : Cached(q)' => Of(q)'.page_id = q
    BY <1>2, <1>4, <1>8, <1>9 DEF PoolInv, FramesPartitioned, Of, f
  <2> QED
    BY <1>2, <1>8, <2>1, <2>2 DEF PoolInv, FramesPartitioned
<1>11. PointersStayGood'
  <2>1. ASSUME NEW u \in Threads, NEW q \in PageIds, pins'[u][q] > 0
        PROVE  Cached(q)' /\ page_table'[q] = ptr'[u][q]
    <3>1. CASE q = p /\ u = t
      BY <1>2, <1>3, <1>5, <1>8, <3>1 DEF FetchHit, PoolTypes, f
    <3>2. CASE ~(q = p /\ u = t)
      <4>1. pins[u][q] > 0 /\ ptr'[u][q] = ptr[u][q]
        BY <1>3, <1>5, <2>1, <3>2 DEF PoolTypes
      <4> QED
        BY <1>2, <1>8, <4>1 DEF PoolInv, PointersStayGood
    <3> QED
      BY <3>1, <3>2
  <2>2. ASSUME NEW q \in PageIds, Cached(q)
        PROVE  Of(q)'.pin_count = Cardinality(PinsOn(q)')
    <3>1. CASE q = p
      <4>1. Of(p)' = pages'[f] /\ Of(p) = pages[f]
        BY <1>2 DEF Of, f
      <4> QED
        BY <1>4, <1>6, <2>2, <3>1, <4>1 DEF PoolInv, PointersStayGood
    <3>2. CASE q # p
      BY <1>6, <1>9, <2>2, <3>2 DEF PoolInv, PointersStayGood
    <3> QED
      BY <3>1, <3>2
  <2> QED
    BY <1>8, <2>1, <2>2 DEF PointersStayGood
<1> QED
  BY <1>2, <1>4, <1>7, <1>10, <1>11 DEF PoolInv, f

\* UnpinPage, which may make the frame evictable.
LEMMA UnpinPool ==
  ASSUME PoolInv, NEW t \in Threads, NEW p \in PageIds, pins[t][p] > 0,
         NEW is_dirty \in BOOLEAN, UnpinPage(t, p, is_dirty)
  PROVE  /\ PoolInv' /\ page_table' = page_table
         /\ \A q \in PageIds \ {p} : Cached(q) => Of(q)' = Of(q)
         /\ Of(p)'.is_dirty = DirtyAfter(p, is_dirty) /\ Of(p)'.data = Of(p).data
<1> DEFINE f == page_table[p]
           g == [pages[f] EXCEPT !.pin_count = @ - 1, !.is_dirty = DirtyAfter(p, is_dirty)]
<1>0. Cached(p) /\ Of(p).pin_count > 0
  BY DEF UnpinPage
<1>1. /\ f \in Frames /\ pages[f] \in Page /\ pages[f].page_id = p /\ f \in Used
      /\ \A q \in PageIds : page_table[q] = f => q = p
  BY <1>0, UnpinnedFrame DEF Of, Cached, Used
<1>2. /\ page_table' = page_table /\ free_list' = free_list
      /\ lru_list' \in Seq(Frames) /\ IsInjective(lru_list')
      /\ ToSet(lru_list') = ToSet(lru_list) \cup (IF pages[f].pin_count = 1 THEN {f} ELSE {})
  BY <1>1, UnpinPutsIn DEF UnpinPage, Of, PoolInv, PoolTypes, FramesPartitioned
<1>3. /\ pins' = [pins EXCEPT ![t][p] = @ - 1]
      /\ ptr' = [ptr EXCEPT ![t][p] = IF pins[t][p] > 1 THEN @ ELSE NoFrame]
      /\ wrote' = [wrote EXCEPT ![t] = @ \ {p}]
  BY DEF UnpinPage, Unpinned, PoolInv, PoolTypes
<1>4. /\ pages' = [pages EXCEPT ![f] = g] /\ g \in Page
      /\ g.page_id = p /\ g.pin_count = pages[f].pin_count - 1
      /\ g.is_dirty = DirtyAfter(p, is_dirty) /\ g.data = pages[f].data
  <2>1. pages[f].pin_count > 0 /\ DirtyAfter(p, is_dirty) \in BOOLEAN
    BY <1>0, <1>1 DEF Of, Page, DirtyAfter
  <2>2. pages' = [pages EXCEPT ![f].pin_count = @ - 1, ![f].is_dirty = DirtyAfter(p, is_dirty)]
    BY DEF UnpinPage
  <2>3. pages' = [pages EXCEPT ![f] = g]
    <3>1. pages \in [Frames -> Page]
      BY DEF PoolInv, PoolTypes
    <3> HIDE DEF f
    <3> QED
      BY <1>1, <2>2, <3>1
  <2>4. pages[f].pin_count - 1 \in Nat
    BY <1>1, <2>1 DEF Page
  <2> HIDE DEF f
  <2>5. /\ g \in Page
        /\ g.page_id = p /\ g.pin_count = pages[f].pin_count - 1
        /\ g.is_dirty = DirtyAfter(p, is_dirty) /\ g.data = pages[f].data
    <3>1. DirtyAfter(p, is_dirty) \in BOOLEAN
      BY <2>1
    <3> HIDE DEF DirtyAfter
    <3> QED
      BY <1>1, <2>4, <3>1 DEF Page
  <2> QED
    BY <2>3, <2>5
<1> HIDE DEF g
<1>5. PoolTypes /\ pages' \in [Frames -> Page] /\ pages'[f] = g /\ \A h \in Frames \ {f} : pages'[h] = pages[h]
  BY <1>1, <1>4 DEF PoolInv, PoolTypes
<1>6. /\ Cardinality(PinsOn(p)') = Cardinality(PinsOn(p)) - 1
      /\ \A q \in PageIds \ {p} : PinsOn(q)' = PinsOn(q)
      /\ pins' \in [Threads -> [PageIds -> 0 .. MaxPins]]
  BY <1>3, <1>5, OnePinLess
<1>7. PoolTypes'
  BY <1>2, <1>3, <1>5, <1>6 DEF PoolTypes
<1>8. WrotePinned'
  <2>1. ASSUME NEW u \in Threads, NEW q \in wrote'[u]
        PROVE  pins'[u][q] > 0
    <3>1. q \in wrote[u] /\ q \in PageIds /\ ~(u = t /\ q = p)
      BY <1>3, <1>5, <2>1 DEF PoolTypes
    <3>2. pins[u][q] > 0
      BY <3>1 DEF PoolInv, WrotePinned
    <3> QED
      BY <1>3, <1>5, <3>1, <3>2 DEF PoolTypes
  <2> QED
    BY <2>1 DEF WrotePinned
<1>9. Used' = Used /\ \A q \in PageIds : Cached(q)' <=> Cached(q)
  BY <1>2 DEF Used, Cached
<1>10. Of(p)' = g /\ Of(p) = pages[f]
  BY <1>2, <1>5 DEF Of
<1>11. \A q \in PageIds \ {p} : Cached(q) => Of(q)' = Of(q)
  <2> TAKE q \in PageIds \ {p}
  <2> HAVE Cached(q)
  <2>1. page_table[q] \in Frames \ {f}
    BY <1>1, UnpinnedFrame
  <2> QED
    BY <1>2, <1>5, <2>1 DEF Of
<1> HIDE DEF f
<1>12. FramesPartitioned'
  <2>1. ToSet(lru_list') = {h \in Used' : pages'[h].pin_count = 0}
    <3>1. \A h \in Used : h \in Frames
      BY <1>5 DEF Used, PoolTypes
    <3>2. pages'[f].pin_count = 0 <=> pages[f].pin_count = 1
      BY <1>1, <1>4, <1>5 DEF Page
    <3>3. pages[f].pin_count # 0
      BY <1>0, <1>10, <1>1 DEF Page
    <3> QED
      BY <1>1, <1>2, <1>5, <1>9, <3>1, <3>2, <3>3 DEF PoolInv, FramesPartitioned
  <2>2. \A q \in PageIds : Cached(q)' => Of(q)'.page_id = q
    BY <1>4, <1>9, <1>10, <1>11 DEF PoolInv, FramesPartitioned
  <2> QED
    BY <1>2, <1>9, <2>1, <2>2 DEF PoolInv, FramesPartitioned
<1>13. PointersStayGood'
  <2>1. ASSUME NEW u \in Threads, NEW q \in PageIds, pins'[u][q] > 0
        PROVE  Cached(q)' /\ page_table'[q] = ptr'[u][q]
    <3>1. pins[u][q] > 0 /\ ptr'[u][q] = ptr[u][q]
      BY <1>3, <1>5, <2>1 DEF PoolTypes
    <3> QED
      BY <1>2, <1>9, <3>1 DEF PoolInv, PointersStayGood
  <2>2. ASSUME NEW q \in PageIds, Cached(q)
        PROVE  Of(q)'.pin_count = Cardinality(PinsOn(q)')
    BY <1>4, <1>6, <1>10, <1>11, <2>2 DEF PoolInv, PointersStayGood
  <2> QED
    BY <1>9, <2>1, <2>2 DEF PointersStayGood
<1> QED
  BY <1>2, <1>4, <1>7, <1>8, <1>10, <1>11, <1>12, <1>13 DEF PoolInv

\* A frame that no thread has a pin on is emptied and is free.
LEMMA FrameFreed ==
  ASSUME PoolInv, NEW f \in Frames, UNCHANGED threads,
         \A q \in PageIds : page_table[q] = f => \A t \in Threads : pins[t][q] = 0,
         page_table' \in [PageIds -> Frames \cup {NoFrame}],
         \A q \in PageIds : page_table'[q] = IF page_table[q] = f THEN NoFrame ELSE page_table[q],
         free_list' \in Seq(Frames), IsInjective(free_list'),
         ToSet(free_list') = ToSet(free_list) \cup {f},
         lru_list' \in Seq(Frames), IsInjective(lru_list'),
         ToSet(lru_list') = ToSet(lru_list) \ {f},
         pages' \in [Frames -> Page], \A g \in Frames \ {f} : pages'[g] = pages[g]
  PROVE  PoolInv'
<1>1. UNCHANGED <<pins, ptr, wrote>>
  BY DEF threads
<1>2. PoolTypes'
  BY <1>1 DEF PoolInv, PoolTypes
<1>3. WrotePinned'
  BY <1>1 DEF PoolInv, WrotePinned
<1>4. f # NoFrame /\ \A p \in PageIds : page_table[p] \in Frames \cup {NoFrame}
  BY PoolAssumption DEF Frames, NoFrame, PoolInv, PoolTypes
<1>5. \A p \in PageIds : Cached(p)' <=> Cached(p) /\ page_table[p] # f
  BY <1>4 DEF Cached
<1>6. ASSUME NEW p \in PageIds, Cached(p)'
      PROVE  Cached(p) /\ page_table'[p] = page_table[p] /\ page_table[p] # f /\ Of(p)' = Of(p)
  <2>1. Cached(p) /\ page_table[p] \in Frames \ {f} /\ page_table'[p] = page_table[p]
    BY <1>4, <1>5, <1>6 DEF Cached
  <2> QED
    BY <2>1 DEF Of
<1>7. Used' = Used \ {f} /\ \A g \in Used : g \in Frames
  BY <1>4 DEF Used
<1>8. FramesPartitioned'
  <2>1. ToSet(free_list') = Frames \ Used'
    BY <1>7 DEF PoolInv, FramesPartitioned
  <2>2. ToSet(lru_list') = {g \in Used' : pages'[g].pin_count = 0}
    BY <1>7 DEF PoolInv, FramesPartitioned
  <2>3. \A p \in PageIds : Cached(p)' => Of(p)'.page_id = p
    BY <1>6 DEF PoolInv, FramesPartitioned
  <2> QED
    BY <2>1, <2>2, <2>3 DEF FramesPartitioned
<1>9. PointersStayGood'
  <2>1. ASSUME NEW t \in Threads, NEW p \in PageIds, pins'[t][p] > 0
        PROVE  Cached(p)' /\ page_table'[p] = ptr'[t][p]
    <3>1. pins[t][p] > 0 /\ Cached(p) /\ page_table[p] = ptr[t][p]
      BY <1>1, <2>1 DEF PoolInv, PointersStayGood
    <3>2. page_table[p] # f
      BY <3>1
    <3> QED
      BY <1>1, <1>5, <3>1, <3>2
  <2>2. ASSUME NEW p \in PageIds, Cached(p)'
        PROVE  Of(p)'.pin_count = Cardinality(PinsOn(p)')
    <3>1. PinsOn(p)' = PinsOn(p)
      BY <1>1 DEF PinsOn
    <3> QED
      BY <1>6, <2>2, <3>1 DEF PoolInv, PointersStayGood
  <2> QED
    BY <2>1, <2>2 DEF PointersStayGood
<1> QED
  BY <1>2, <1>3, <1>8, <1>9 DEF PoolInv

\* What a frame is reset to.
LEMMA ResetIsPage == ResetPage \in Page
BY PoolAssumption DEF ResetPage, Page

\* A read that throws leaves the frame free.
LEMMA FetchThrowsPool ==
  ASSUME PoolInv, NEW t \in Threads, NEW p \in PageIds, FetchThrows(t, p)
  PROVE  PoolInv'
<1>1. PICK f \in Frames :
        /\ IF free_list = <<>>
           THEN /\ lru_list # <<>> /\ f = Last(lru_list)
                /\ lru_list' = Front(lru_list) /\ free_list' = <<f>>
           ELSE f = Head(free_list) /\ UNCHANGED <<lru_list, free_list>>
        /\ page_table' = TableWithout(f) /\ pages' = [pages EXCEPT ![f] = ResetPage]
        /\ UNCHANGED threads
  BY DEF FetchThrows
<1>2. /\ free_list \in Seq(Frames) /\ IsInjective(free_list)
      /\ lru_list \in Seq(Frames) /\ IsInjective(lru_list)
      /\ ToSet(free_list) \cap ToSet(lru_list) = {}
  BY DEF PoolInv, PoolTypes, FramesPartitioned
<1>3. /\ IF free_list = <<>> THEN f \in ToSet(lru_list) ELSE f \in ToSet(free_list)
      /\ free_list' \in Seq(Frames) /\ IsInjective(free_list')
      /\ ToSet(free_list') = ToSet(free_list) \cup {f}
      /\ lru_list' \in Seq(Frames) /\ IsInjective(lru_list')
      /\ ToSet(lru_list') = ToSet(lru_list) \ {f}
  <2>1. CASE free_list # <<>>
    <3>1. f \in ToSet(free_list)
      BY <1>1, <1>2, <2>1, TailSet
    <3> QED
      BY <1>1, <1>2, <2>1, <3>1
  <2>2. CASE free_list = <<>>
    <3>1. /\ f \in ToSet(lru_list)
          /\ lru_list' \in Seq(Frames) /\ IsInjective(lru_list')
          /\ ToSet(lru_list') = ToSet(lru_list) \ {f}
      BY <1>1, <1>2, <2>2, FrontSet
    <3>2. ToSet(free_list) = {}
      BY <1>2, <2>2, SetOfSeq
    <3>3. <<f>> \in Seq(Frames) /\ IsInjective(<<f>>) /\ ToSet(<<f>>) = {f}
      <4>1. <<f>> \in Seq(Frames) /\ Len(<<f>>) = 1 /\ <<f>>[1] = f /\ 1 .. 1 = {1}
        OBVIOUS
      <4> DEFINE s == <<f>>
      <4> HIDE DEF s
      <4>2. s \in Seq(Frames) /\ Len(s) = 1 /\ s[1] = f
        BY <4>1 DEF s
      <4>3. IsInjective(s) /\ ToSet(s) = {f}
        BY <4>1, <4>2, SetOfSeq, InjectiveSeq
      <4> QED
        BY <4>2, <4>3 DEF s
    <3> QED
      BY <1>1, <2>2, <3>1, <3>2, <3>3
  <2> QED
    BY <2>1, <2>2
<1>4. \A q \in PageIds : page_table'[q] = IF page_table[q] = f THEN NoFrame ELSE page_table[q]
  BY <1>1, <1>3, TableWithoutVictim
<1>5. page_table' \in [PageIds -> Frames \cup {NoFrame}]
  BY <1>1 DEF TableWithout, PoolInv, PoolTypes
<1>6. pages' \in [Frames -> Page] /\ \A g \in Frames \ {f} : pages'[g] = pages[g]
  BY <1>1, ResetIsPage DEF PoolInv, PoolTypes
<1>7. \A q \in PageIds : page_table[q] = f => \A u \in Threads : pins[u][q] = 0
  <2> TAKE q \in PageIds
  <2> HAVE page_table[q] = f
  <2>1. Cached(q) /\ f \in Used /\ f # NoFrame
    BY PoolAssumption DEF Cached, Used, Frames, NoFrame
  <2>2. f \in ToSet(lru_list)
    BY <1>3, <2>1 DEF PoolInv, FramesPartitioned
  <2>3. Of(q).pin_count = 0
    BY <2>2 DEF PoolInv, FramesPartitioned, Of
  <2> QED
    BY <2>1, <2>3, UnpinnedFrame
<1> QED
  BY <1>1, <1>3, <1>4, <1>5, <1>6, <1>7, FrameFreed

\* DeletePage frees the page's frame and touches no other.
LEMMA DeletePool ==
  ASSUME PoolInv, NEW p \in PageIds, DeletePage(p)
  PROVE  /\ PoolInv' /\ ~Cached(p)'
         /\ \A q \in PageIds \ {p} :
              page_table'[q] = page_table[q] /\ (Cached(q) => Of(q)' = Of(q))
<1>1. UNCHANGED threads /\ UNCHANGED <<pins, ptr, wrote>>
  BY DEF DeletePage, threads
<1>2. CASE ~Cached(p) /\ UNCHANGED pool
  <2>1. UNCHANGED <<pages, page_table, free_list, lru_list>>
    BY <1>2 DEF pool
  <2>2. PoolInv'
    BY <1>1, <2>1 DEF PoolInv, PoolTypes, FramesPartitioned, PointersStayGood, WrotePinned,
                      Used, Cached, Of, PinsOn
  <2> QED
    BY <1>2, <2>1, <2>2 DEF Cached, Of
<1>3. CASE Cached(p) /\ Of(p).pin_count = 0
  <2> DEFINE f == page_table[p]
  <2>1. /\ page_table' = [page_table EXCEPT ![p] = NoFrame]
        /\ lru_list' = Pin(f)
        /\ pages' = [pages EXCEPT ![f] = ResetPage]
        /\ free_list' = <<f>> \o free_list
    BY <1>3 DEF DeletePage
  <2>2. /\ f \in Frames /\ \A t \in Threads : pins[t][p] = 0
        /\ \A q \in PageIds : page_table[q] = f => q = p
    BY <1>3, UnpinnedFrame
  <2>3. f \in Used
    BY <1>3 DEF Cached, Used
  <2> HIDE DEF f
  <2>4. /\ free_list' \in Seq(Frames) /\ IsInjective(free_list')
        /\ ToSet(free_list') = ToSet(free_list) \cup {f}
    BY <2>1, <2>2, <2>3, ConsSet DEF PoolInv, PoolTypes, FramesPartitioned
  <2>5. /\ lru_list' \in Seq(Frames) /\ IsInjective(lru_list')
        /\ ToSet(lru_list') = ToSet(lru_list) \ {f}
    BY <2>1, <2>2, PinTakesOut
  <2>6. pages' \in [Frames -> Page] /\ \A g \in Frames \ {f} : pages'[g] = pages[g]
    BY <2>1, ResetIsPage DEF PoolInv, PoolTypes
  <2>7. /\ page_table' \in [PageIds -> Frames \cup {NoFrame}]
        /\ \A q \in PageIds : page_table'[q] = IF page_table[q] = f THEN NoFrame ELSE page_table[q]
    BY <2>1, <2>2 DEF PoolInv, PoolTypes, f
  <2>8. \A q \in PageIds : page_table[q] = f => \A t \in Threads : pins[t][q] = 0
    BY <2>2
  <2>9. PoolInv'
    BY <1>1, <2>2, <2>4, <2>5, <2>6, <2>7, <2>8, FrameFreed
  <2>10. ~Cached(p)'
    BY <2>7 DEF Cached, f
  <2>11. \A q \in PageIds \ {p} : page_table'[q] = page_table[q] /\ (Cached(q) => Of(q)' = Of(q))
    BY <2>2, <2>6, <2>7, UnpinnedFrame DEF Of
  <2> QED
    BY <2>9, <2>10, <2>11
<1> QED
  BY <1>2, <1>3 DEF DeletePage

\* the lists of a new manager: every frame is free
LEMMA FreshLists ==
  /\ [i \in 1 .. PoolSize |-> i - 1] \in Seq(Frames)
  /\ IsInjective([i \in 1 .. PoolSize |-> i - 1])
  /\ ToSet([i \in 1 .. PoolSize |-> i - 1]) = Frames
  /\ <<>> \in Seq(Frames) /\ IsInjective(<<>>) /\ ToSet(<<>>) = {}
<1> DEFINE s == [i \in 1 .. PoolSize |-> i - 1]
<1>1. s \in Seq(Frames) /\ Len(s) = PoolSize /\ \A i \in 1 .. PoolSize : s[i] = i - 1
  <2>1. PoolSize \in Nat /\ \A i \in 1 .. PoolSize : i - 1 \in Frames
    BY PoolAssumption DEF Frames
  <2> QED
    BY <2>1
<1> HIDE DEF s
<1>2. IsInjective(s)
  BY <1>1, InjectiveSeq
<1>3. \A f \in Frames : f + 1 \in 1 .. PoolSize /\ (f + 1) - 1 = f
  BY PoolAssumption DEF Frames
<1>4. ToSet(s) = {s[i] : i \in 1 .. PoolSize} /\ ToSet(s) \subseteq Frames
  BY <1>1, SetOfSeq
<1>5. ToSet(s) = Frames
  BY <1>1, <1>3, <1>4
<1> DEFINE e == <<>>
<1>6. e \in Seq(Frames) /\ Len(e) = 0 /\ 1 .. 0 = {} /\ e = <<>>
  OBVIOUS
<1> HIDE DEF e
<1>7. IsInjective(e) /\ ToSet(e) = {}
  BY <1>6, InjectiveSeq, SetOfSeq
<1> QED
  BY <1>1, <1>2, <1>5, <1>6, <1>7 DEF s

\* A pool as it is when the manager has been made.
LEMMA FreshPoolInv ==
  ASSUME FreshPool,
         pins' \in [Threads -> [PageIds -> 0 .. MaxPins]],
         ptr' \in [Threads -> [PageIds -> Frames \cup {NoFrame}]],
         wrote' \in [Threads -> SUBSET PageIds],
         \A t \in Threads, p \in PageIds : pins'[t][p] = 0 /\ p \notin wrote'[t]
  PROVE  PoolInv' /\ \A p \in PageIds : ~Cached(p)'
<1>1. /\ pages' = [f \in Frames |-> ResetPage] /\ page_table' = [p \in PageIds |-> NoFrame]
      /\ free_list' = [i \in 1 .. PoolSize |-> i - 1] /\ lru_list' = <<>>
  BY DEF FreshPool
<1>2. /\ free_list' \in Seq(Frames) /\ IsInjective(free_list') /\ ToSet(free_list') = Frames
      /\ lru_list' \in Seq(Frames) /\ IsInjective(lru_list') /\ ToSet(lru_list') = {}
  BY <1>1, FreshLists
<1>4. Used' = {} /\ \A p \in PageIds : ~Cached(p)'
  BY <1>1 DEF Used, Cached
<1>5. PoolTypes'
  BY <1>1, <1>2, ResetIsPage DEF PoolTypes
<1>6. FramesPartitioned'
  BY <1>2, <1>4 DEF FramesPartitioned
<1>7. PointersStayGood' /\ WrotePinned'
  BY <1>4 DEF PointersStayGood, WrotePinned
<1> QED
  BY <1>4, <1>5, <1>6, <1>7 DEF PoolInv

-----------------------------------------------------------------------------
(* What the methods do to the file.                                         *)

\* the callers' view of the pages, and whether it can be relied on
Content == [p \in PageIds |-> IF Cached(p) THEN Of(p).data ELSE disk[p]]
Faulty == failed \/ lossy

\* What the callers see is a store of pages.
LEMMA ContentTyped == PoolTypes /\ StoreTypes => Content \in [PageIds -> Data]
<1> SUFFICES ASSUME PoolTypes, StoreTypes PROVE Content \in [PageIds -> Data]
  OBVIOUS
<1>1. \A p \in PageIds : Cached(p) => page_table[p] \in Frames
  BY DEF PoolTypes, Cached
<1>2. \A f \in Frames : pages[f].data \in Data
  BY DEF PoolTypes, Page
<1> QED
  BY <1>1, <1>2 DEF Content, Of, StoreTypes

\* A page that no thread has pinned and that is clean is what the file has.
LEMMA UnpinnedIsOnDisk ==
  ASSUME IInv, ~Faulty, NEW p \in PageIds, Cached(p), ~Of(p).is_dirty,
         \A t \in Threads : pins[t][p] = 0
  PROVE  Of(p).data = disk[p]
<1>1. \A t \in Threads : p \notin wrote[t]
  BY DEF IInv, PoolInv, WrotePinned
<1> QED
  BY <1>1 DEF IInv, StoreInv, CleanIsOnDisk, Faulty

\* the greater of two sizes
LEMMA MaxOfTwo ==
  ASSUME NEW M \in Nat, NEW a \in 0 .. M, NEW b \in 0 .. M
  PROVE  /\ Max({a, b}) \in 0 .. M /\ Max({a, b}) >= a /\ Max({a, b}) >= b
         /\ Max({a, b}) = a \/ Max({a, b}) = b
<1>1. {a, b} \in SUBSET (0 .. M) /\ {a, b} # {}
  OBVIOUS
<1>2. Max({a, b}) \in {a, b} /\ \A x \in {a, b} : x <= Max({a, b})
  BY <1>1, BoundedMax
<1> QED
  BY <1>2

\* the file after a page was written at its place
LEMMA PageOnDisk ==
  ASSUME StoreTypes, ZeroBeyond, NEW p \in PageIds, NEW d \in Data,
         disk' = [disk EXCEPT ![p] = d], file_size' = Max({file_size, p + 1})
  PROVE  /\ disk' \in [PageIds -> Data] /\ disk'[p] = d
         /\ \A q \in PageIds \ {p} : disk'[q] = disk[q]
         /\ file_size' \in 0 .. MaxPages /\ file_size' >= file_size /\ file_size' > p
         /\ ZeroBeyond'
<1>1. p + 1 \in 0 .. MaxPages /\ file_size \in 0 .. MaxPages /\ MaxPages \in Nat
  BY PoolAssumption DEF PageIds, StoreTypes
<1>2. file_size' \in 0 .. MaxPages /\ file_size' >= file_size /\ file_size' >= p + 1
  BY <1>1, MaxOfTwo
<1>3. /\ disk' \in [PageIds -> Data] /\ disk'[p] = d
      /\ \A q \in PageIds \ {p} : disk'[q] = disk[q]
  BY DEF StoreTypes
<1>4. ZeroBeyond'
  <2> SUFFICES ASSUME NEW q \in PageIds, q >= file_size' PROVE disk'[q] = Zero
    BY DEF ZeroBeyond
  <2>1. q # p /\ q >= file_size
    BY <1>1, <1>2 DEF PageIds
  <2> QED
    BY <1>3, <2>1 DEF ZeroBeyond
<1>5. file_size' > p
  BY <1>1, <1>2 DEF PageIds
<1> QED
  BY <1>2, <1>3, <1>4, <1>5

\* DiskManager::WritePage.
LEMMA PageWritten ==
  ASSUME StoreTypes, ZeroBeyond, NEW p \in PageIds, NEW d \in Data, WritePage(p, d)
  PROVE  /\ ~failed /\ UNCHANGED <<failed, lossy>>
         /\ disk' \in [PageIds -> Data] /\ disk'[p] = d
         /\ \A q \in PageIds \ {p} : disk'[q] = disk[q]
         /\ file_size' \in 0 .. MaxPages /\ file_size' >= file_size /\ file_size' > p
         /\ ZeroBeyond'
BY PageOnDisk DEF WritePage

\* The loop of FlushAllPages, whichever pages it has written.
LEMMA DirtyFlushed ==
  ASSUME PoolInv, StoreTypes, ZeroBeyond, NEW W \in SUBSET Dirty, FlushDirty(W)
  PROVE  /\ disk' \in [PageIds -> Data]
         /\ \A q \in PageIds : disk'[q] = IF q \in W THEN Of(q).data ELSE disk[q]
         /\ file_size' \in 0 .. MaxPages /\ file_size' >= file_size
         /\ \A q \in W : q < file_size'
         /\ ZeroBeyond'
<1> DEFINE S == {file_size} \cup {p + 1 : p \in W}
<1>1. W \subseteq PageIds /\ \A p \in W : Cached(p)
  BY DEF Dirty
<1>2. MaxPages \in Nat /\ file_size \in 0 .. MaxPages /\ \A p \in PageIds : p + 1 \in 0 .. MaxPages
  BY PoolAssumption DEF StoreTypes, PageIds
<1>3. S \in SUBSET (0 .. MaxPages) /\ S # {}
  BY <1>1, <1>2
<1>4. file_size' = Max(S)
  BY DEF FlushDirty
<1>5. file_size' \in S /\ \A x \in S : x <= file_size'
  BY <1>2, <1>3, <1>4, BoundedMax
<1>6. file_size' \in 0 .. MaxPages /\ file_size' >= file_size /\ \A q \in W : q + 1 <= file_size'
  BY <1>1, <1>2, <1>3, <1>5
<1>7. \A q \in W : q < file_size'
  BY <1>1, <1>6 DEF PageIds
<1>8. \A q \in PageIds : disk'[q] = IF q \in W THEN Of(q).data ELSE disk[q]
  BY DEF FlushDirty
<1>9. disk' \in [PageIds -> Data]
  <2>1. \A q \in W : Of(q).data \in Data
    BY <1>1, UnpinnedFrame DEF Page
  <2> QED
    BY <2>1 DEF FlushDirty, StoreTypes
<1>10. ZeroBeyond'
  <2> SUFFICES ASSUME NEW q \in PageIds, q >= file_size' PROVE disk'[q] = Zero
    BY DEF ZeroBeyond
  <2>1. q \notin W /\ q >= file_size
    BY <1>2, <1>6, <1>7 DEF PageIds
  <2> QED
    BY <1>8, <2>1 DEF ZeroBeyond
<1> QED
  BY <1>6, <1>7, <1>8, <1>9, <1>10

\* What an eviction does to the file: the victim is in it afterwards.
LEMMA VictimWritten ==
  ASSUME IInv, NEW f \in Frames, FindFreeFrame(f)
  PROVE  /\ UNCHANGED <<failed, lossy>>
         /\ disk' \in [PageIds -> Data] /\ ZeroBeyond'
         /\ file_size' \in 0 .. MaxPages /\ file_size' >= file_size
         /\ \A q \in PageIds : page_table[q] # f => disk'[q] = disk[q]
         /\ \A q \in PageIds : page_table[q] = f =>
              IF Of(q).is_dirty THEN disk'[q] = Of(q).data /\ file_size' > q
                                ELSE disk'[q] = disk[q]
<1> USE DEF IInv, StoreInv
<1>1. CASE free_list # <<>>
  <2>1. UNCHANGED <<disk, file_size, failed, lossy>>
    BY <1>1 DEF FindFreeFrame, NoWrite, store
  <2>2. f \in ToSet(free_list)
    <3>1. free_list \in Seq(Frames) /\ IsInjective(free_list) /\ f = Head(free_list)
      BY <1>1 DEF PoolInv, PoolTypes, FramesPartitioned, FindFreeFrame
    <3> QED
      BY <1>1, <3>1, TailSet
  <2>3. \A q \in PageIds : page_table[q] # f
    BY <2>2, PoolAssumption DEF PoolInv, FramesPartitioned, Used, Frames, NoFrame
  <2>4. ZeroBeyond' /\ file_size' \in 0 .. MaxPages /\ file_size' >= file_size
    BY <2>1, PoolAssumption DEF ZeroBeyond, StoreTypes
  <2> QED
    BY <2>1, <2>3, <2>4 DEF StoreTypes
<1>2. CASE free_list = <<>>
  <2>1. /\ lru_list # <<>> /\ f = Last(lru_list)
        /\ \/ pages[f].is_dirty /\ WritePage(pages[f].page_id, pages[f].data)
           \/ ~pages[f].is_dirty /\ NoWrite
    BY <1>2 DEF FindFreeFrame
  <2>2. f \in ToSet(lru_list)
    BY <2>1, FrontSet DEF PoolInv, PoolTypes, FramesPartitioned
  <2>3. PICK p \in PageIds : page_table[p] = f
    BY <2>2 DEF PoolInv, FramesPartitioned, Used
  <2>4. Cached(p)
    BY <2>3, PoolAssumption DEF Cached, Frames, NoFrame
  <2>5. /\ pages[f].page_id = p /\ pages[f] \in Page /\ pages[f] = Of(p)
        /\ \A q \in PageIds : page_table[q] = f => q = p
    BY <2>3, <2>4, UnpinnedFrame DEF Of
  <2>6. CASE pages[f].is_dirty /\ WritePage(pages[f].page_id, pages[f].data)
    <3>1. pages[f].data \in Data
      BY <2>5 DEF Page
    <3>2. /\ UNCHANGED <<failed, lossy>>
          /\ disk' \in [PageIds -> Data] /\ disk'[p] = pages[f].data
          /\ \A q \in PageIds \ {p} : disk'[q] = disk[q]
          /\ file_size' \in 0 .. MaxPages /\ file_size' >= file_size /\ file_size' > p
          /\ ZeroBeyond'
      BY <2>5, <2>6, <3>1, PageWritten
    <3> QED
      BY <2>3, <2>5, <2>6, <3>2
  <2>7. CASE ~pages[f].is_dirty /\ NoWrite
    <3>1. UNCHANGED <<disk, file_size, failed, lossy>>
      BY <2>7 DEF NoWrite, store
    <3>2. ZeroBeyond' /\ file_size' \in 0 .. MaxPages /\ file_size' >= file_size
      BY <3>1, PoolAssumption DEF ZeroBeyond, StoreTypes
    <3> QED
      BY <2>3, <2>5, <2>7, <3>1, <3>2 DEF StoreTypes
  <2> QED
    BY <2>1, <2>6, <2>7
<1> QED
  BY <1>1, <1>2

-----------------------------------------------------------------------------
(* One page at a time.                                                      *)

ContentOf(p) == IF Cached(p) THEN Of(p).data ELSE disk[p]

\* what StoreInv says of one page
PageInv(p) ==
  /\ Cached(p) => p < next_page_id
  /\ p >= file_size => disk[p] = Zero
  /\ p \in given => p < next_page_id
  /\ p \in given /\ ~failed => p < file_size \/ p \in Dirty
  /\ ~Faulty /\ Cached(p) /\ ~Of(p).is_dirty /\ (\A t \in Threads : p \notin wrote[t]) =>
       Of(p).data = disk[p]

\* StoreInv is about each page by itself,
LEMMA StoreOfPage ==
  ASSUME StoreInv, NEW p \in PageIds
  PROVE  PageInv(p)
BY DEF StoreInv, CachedIsAllocated, ZeroBeyond, GivenAreKept, CleanIsOnDisk, PageInv, Faulty

\* and about nothing else.
LEMMA StoreOfPages ==
  ASSUME StoreTypes', \A p \in PageIds : PageInv(p)'
  PROVE  StoreInv'
<1>1. CachedIsAllocated' /\ ZeroBeyond'
  BY DEF PageInv, CachedIsAllocated, ZeroBeyond
<1>2. GivenAreKept'
  BY DEF PageInv, GivenAreKept, StoreTypes
<1>3. CleanIsOnDisk'
  BY DEF PageInv, CleanIsOnDisk, Faulty
<1> QED
  BY <1>1, <1>2, <1>3 DEF StoreInv

\* A page that a step leaves where it is, in its frame or in the file.
LEMMA PageKept ==
  ASSUME StoreTypes, StoreTypes', NEW p \in PageIds, PageInv(p),
         page_table'[p] = page_table[p],
         Cached(p) => Of(p)'.is_dirty = Of(p).is_dirty /\ Of(p)'.data = Of(p).data,
         disk'[p] = disk[p], file_size' >= file_size, next_page_id' >= next_page_id,
         p \in given' => p \in given, failed => failed', lossy => lossy',
         \A t \in Threads : p \in wrote[t] => p \in wrote'[t]
  PROVE  PageInv(p)' /\ ContentOf(p)' = ContentOf(p)
<1>1. /\ file_size \in Nat /\ file_size' \in Nat /\ next_page_id \in Nat /\ next_page_id' \in Nat
      /\ p \in Nat
  BY PoolAssumption DEF StoreTypes, PageIds
<1>2. Cached(p)' <=> Cached(p)
  BY DEF Cached
<1>3. p \in Dirty => p \in Dirty'
  BY <1>2 DEF Dirty
<1>4. Cached(p)' => p < next_page_id'
  BY <1>1, <1>2 DEF PageInv
<1>5. p >= file_size' => disk'[p] = Zero
  BY <1>1 DEF PageInv
<1>6. /\ p \in given' => p < next_page_id'
      /\ p \in given' /\ ~failed' => p < file_size' \/ p \in Dirty'
  BY <1>1, <1>3 DEF PageInv
<1>7. ~Faulty' /\ Cached(p)' /\ ~Of(p)'.is_dirty /\ (\A t \in Threads : p \notin wrote'[t]) =>
        Of(p)'.data = disk'[p]
  BY <1>2 DEF PageInv, Faulty
<1>8. ContentOf(p)' = ContentOf(p)
  BY <1>2 DEF ContentOf
<1> QED
  BY <1>4, <1>5, <1>6, <1>7, <1>8 DEF PageInv

-----------------------------------------------------------------------------
(* The methods, each with what the callers see of it.                       *)

\* FetchPage of a page that has a frame.
LEMMA FetchHitStep ==
  ASSUME IInv, NEW t \in Threads, NEW p \in PageIds, pins[t][p] < MaxPins, FetchHit(t, p)
  PROVE  /\ IInv'
         /\ \A q \in PageIds : ContentOf(q)' = ContentOf(q)
<1>1. /\ PoolInv' /\ page_table' = page_table
      /\ pages' = [pages EXCEPT ![page_table[p]].pin_count = @ + 1]
  BY FetchHitPool DEF IInv
<1>2. UNCHANGED <<disk, file_size, failed, next_page_id, given, lossy, wrote>>
  BY DEF FetchHit, Pinned, store
<1>3. StoreTypes /\ StoreTypes'
  BY <1>2 DEF IInv, StoreInv, StoreTypes
<1>4. ASSUME NEW q \in PageIds PROVE PageInv(q)' /\ ContentOf(q)' = ContentOf(q)
  <2>1. Cached(q) => page_table[q] \in Frames /\ page_table[p] \in Frames
    BY UnpinnedFrame DEF IInv, FetchHit
  <2>2. Cached(q) => Of(q)'.is_dirty = Of(q).is_dirty /\ Of(q)'.data = Of(q).data
    BY <1>1, <2>1 DEF Of, IInv, PoolInv, PoolTypes, Page
  <2>3. file_size' >= file_size /\ next_page_id' >= next_page_id
    BY <1>2, PoolAssumption DEF IInv, StoreInv, StoreTypes
  <2>4. PageInv(q)
    BY StoreOfPage DEF IInv
  <2> QED
    BY <1>1, <1>2, <1>3, <2>2, <2>3, <2>4, PageKept
<1> QED
  BY <1>1, <1>3, <1>4, StoreOfPages DEF IInv

\* A page that has got a frame: read from the file, or new.
LEMMA FrameTakenStep ==
  ASSUME IInv, NEW t \in Threads, NEW p \in PageIds, ~Cached(p), NEW f \in Frames,
         FindFreeFrame(f),
         page_table' = [TableWithout(f) EXCEPT ![p] = f],
         NEW b \in BOOLEAN, NEW d \in Data,
         pages' = [pages EXCEPT ![f] =
           [page_id |-> p, pin_count |-> 1, is_dirty |-> b, data |-> d]],
         Pinned(t, p, f),
         next_page_id' \in next_page_id .. MaxPages, p < next_page_id',
         \/ given' = given /\ b = FALSE /\ d = ReadPage(p)
         \/ given' = given \cup {p} /\ b = TRUE
  PROVE  /\ IInv' /\ (Faulty' <=> Faulty)
         /\ ContentOf(p)' = d
         /\ ~b /\ ~Faulty => d = ContentOf(p)
         /\ ~Faulty => \A q \in PageIds \ {p} : ContentOf(q)' = ContentOf(q)
<1> DEFINE g == [page_id |-> p, pin_count |-> 1, is_dirty |-> b, data |-> d]
<1>1. /\ g \in Page /\ pages' = [pages EXCEPT ![f] = g] /\ pages \in [Frames -> Page]
      /\ g.page_id = p /\ g.pin_count = 1 /\ g.is_dirty = b /\ g.data = d
  BY DEF Page, PageIds, IInv, PoolInv, PoolTypes
<1> HIDE DEF g
<1>2. /\ pages' \in [Frames -> Page] /\ pages'[f] = g
      /\ \A h \in Frames \ {f} : pages'[h] = pages[h]
  BY <1>1
<1>3. /\ PoolInv' /\ page_table'[p] = f
      /\ \A q \in PageIds \ {p} :
           page_table'[q] = IF page_table[q] = f THEN NoFrame ELSE page_table[q]
      /\ \A u \in Threads, q \in PageIds : page_table[q] = f => pins[u][q] = 0
  <2>1. PoolInv /\ pages'[f].page_id = p /\ pages'[f].pin_count = 1
    BY <1>1, <1>2 DEF IInv
  <2> QED
    BY <1>2, <2>1, FrameTaken
<1>4. /\ UNCHANGED <<failed, lossy>>
      /\ disk' \in [PageIds -> Data] /\ ZeroBeyond'
      /\ file_size' \in 0 .. MaxPages /\ file_size' >= file_size
      /\ \A q \in PageIds : page_table[q] # f => disk'[q] = disk[q]
      /\ \A q \in PageIds : page_table[q] = f =>
           IF Of(q).is_dirty THEN disk'[q] = Of(q).data /\ file_size' > q
                             ELSE disk'[q] = disk[q]
  BY VictimWritten
<1>5. wrote' = wrote /\ f # NoFrame /\ page_table[p] # f
  BY PoolAssumption DEF Pinned, Cached, Frames, NoFrame
<1>6. /\ StoreTypes /\ file_size \in Nat /\ file_size' \in Nat /\ p \in Nat
      /\ next_page_id \in Nat /\ next_page_id' \in 0 .. MaxPages /\ next_page_id' >= next_page_id
  BY <1>4, PoolAssumption DEF IInv, StoreInv, StoreTypes, PageIds
<1>7. StoreTypes'
  BY <1>4, <1>6 DEF StoreTypes
<1>8. Cached(p)' /\ Of(p)' = g
  BY <1>2, <1>3, <1>5 DEF Cached, Of
<1>9. PageInv(p) /\ disk'[p] = disk[p]
  BY <1>4, <1>5, StoreOfPage DEF IInv
<1>10. b = FALSE /\ d = ReadPage(p) /\ ~failed => d = disk[p]
  BY <1>9 DEF ReadPage, PageInv
<1>11. PageInv(p)'
  <2>1. p >= file_size' => disk'[p] = Zero
    BY <1>4 DEF ZeroBeyond
  <2>2. p \in given' /\ ~failed' => p < file_size' \/ p \in Dirty'
    <3>1. CASE given' = given
      <4>1. p \notin Dirty
        BY DEF Dirty
      <4> QED
        BY <1>4, <1>6, <1>9, <3>1, <4>1 DEF PageInv
    <3>2. CASE b = TRUE
      BY <1>1, <1>8, <3>2 DEF Dirty
    <3> QED
      BY <3>1, <3>2
  <2>3. ~Faulty' /\ Cached(p)' /\ ~Of(p)'.is_dirty => Of(p)'.data = disk'[p]
    BY <1>1, <1>4, <1>8, <1>9, <1>10 DEF Faulty
  <2> QED
    BY <2>1, <2>2, <2>3 DEF PageInv
<1>12. ASSUME NEW q \in PageIds \ {p}
       PROVE  PageInv(q)' /\ (~Faulty => ContentOf(q)' = ContentOf(q))
  <2>1. PageInv(q) /\ q \in Nat /\ (q \in given' <=> q \in given)
    BY StoreOfPage DEF IInv, PageIds
  <2>2. CASE page_table[q] = f
    <3>1. ~Cached(q)' /\ Cached(q)
      BY <1>3, <1>5, <2>2 DEF Cached
    <3>2. q >= file_size' => disk'[q] = Zero
      BY <1>4 DEF ZeroBeyond
    <3>3. q \in given' => q < next_page_id'
      BY <1>6, <2>1 DEF PageInv
    <3>4. q \in given' /\ ~failed' => q < file_size'
      BY <1>4, <1>6, <2>1, <2>2 DEF PageInv, Dirty
    <3>5. ~Faulty => disk'[q] = Of(q).data
      <4>1. ~Faulty /\ ~Of(q).is_dirty => Of(q).data = disk[q]
        BY <1>3, <2>2, <3>1, UnpinnedIsOnDisk
      <4> QED
        BY <1>4, <2>2, <4>1
    <3> QED
      BY <3>1, <3>2, <3>3, <3>4, <3>5 DEF PageInv, ContentOf
  <2>3. CASE page_table[q] # f
    <3>1. page_table'[q] = page_table[q] /\ disk'[q] = disk[q]
      BY <1>3, <1>4, <2>3
    <3>2. Cached(q) => page_table[q] \in Frames \ {f}
      BY <2>3, UnpinnedFrame DEF IInv
    <3>3. Cached(q) => Of(q)' = Of(q)
      BY <1>2, <3>1, <3>2 DEF Of
    <3> QED
      BY <1>4, <1>5, <1>6, <1>7, <2>1, <3>1, <3>3, PageKept
  <2> QED
    BY <2>2, <2>3
<1>13. IInv'
  <2>1. \A q \in PageIds : PageInv(q)'
    BY <1>11, <1>12
  <2> QED
    BY <1>3, <1>7, <2>1, StoreOfPages DEF IInv
<1>14. Faulty' <=> Faulty
  BY <1>4 DEF Faulty
<1>15. ContentOf(p)' = d /\ (~b /\ ~Faulty => d = ContentOf(p))
  BY <1>1, <1>8, <1>10 DEF ContentOf, Faulty
<1> QED
  BY <1>12, <1>13, <1>14, <1>15

\* FetchPage of a page that has none.
LEMMA FetchMissStep ==
  ASSUME IInv, NEW t \in Threads, NEW p \in PageIds, p < next_page_id, FetchMiss(t, p)
  PROVE  /\ IInv' /\ (Faulty' <=> Faulty)
         /\ ~Faulty => \A q \in PageIds : ContentOf(q)' = ContentOf(q)
<1>1. PICK f \in Frames :
        /\ FindFreeFrame(f)
        /\ page_table' = [TableWithout(f) EXCEPT ![p] = f]
        /\ pages' = [pages EXCEPT ![f] =
             [page_id |-> p, pin_count |-> 1, is_dirty |-> FALSE, data |-> ReadPage(p)]]
        /\ Pinned(t, p, f)
  BY DEF FetchMiss
<1>2. ~Cached(p) /\ UNCHANGED <<next_page_id, given>>
  BY DEF FetchMiss
<1>3. PICK d \in Data : d = ReadPage(p)
  BY PoolAssumption DEF ReadPage, IInv, StoreInv, StoreTypes
<1>4. next_page_id' \in next_page_id .. MaxPages /\ p < next_page_id'
  BY <1>2, PoolAssumption DEF IInv, StoreInv, StoreTypes
<1>5. pages' = [pages EXCEPT ![f] =
        [page_id |-> p, pin_count |-> 1, is_dirty |-> FALSE, data |-> d]]
  BY <1>1, <1>3
<1>6. /\ IInv' /\ (Faulty' <=> Faulty)
      /\ ContentOf(p)' = d /\ (~Faulty => d = ContentOf(p))
      /\ ~Faulty => \A q \in PageIds \ {p} : ContentOf(q)' = ContentOf(q)
  BY <1>1, <1>2, <1>3, <1>4, <1>5, FrameTakenStep
<1> QED
  BY <1>6

\* NewPage: the callers see a page of zeros.
LEMMA NewPageStep ==
  ASSUME IInv, NEW t \in Threads, NewPage(t)
  PROVE  /\ IInv' /\ (Faulty' <=> Faulty)
         /\ ~Faulty => \E p \in PageIds :
              ContentOf(p)' = Zero /\ \A q \in PageIds \ {p} : ContentOf(q)' = ContentOf(q)
<1>1. PICK p \in PageIds : p = next_page_id
  BY PoolAssumption DEF NewPage, PageIds, IInv, StoreInv, StoreTypes
<1>2. PICK f \in Frames :
        /\ FindFreeFrame(f)
        /\ page_table' = [TableWithout(f) EXCEPT ![p] = f]
        /\ pages' = [pages EXCEPT ![f] =
             [page_id |-> p, pin_count |-> 1, is_dirty |-> TRUE, data |-> Zero]]
        /\ Pinned(t, p, f)
  BY <1>1 DEF NewPage, AllocatePage, NewIsDirty
<1>3. next_page_id' = p + 1 /\ given' = given \cup {p}
  BY <1>1 DEF NewPage, AllocatePage
<1>4. p \in Nat /\ p < MaxPages /\ MaxPages \in Nat
  BY PoolAssumption DEF PageIds
<1>5. next_page_id' \in next_page_id .. MaxPages /\ p < next_page_id'
  BY <1>1, <1>3, <1>4
<1>6. ~Cached(p) /\ Zero \in Data
  BY <1>1, <1>4, PoolAssumption DEF IInv, StoreInv, CachedIsAllocated
<1>7. /\ IInv' /\ (Faulty' <=> Faulty) /\ ContentOf(p)' = Zero
      /\ ~Faulty => \A q \in PageIds \ {p} : ContentOf(q)' = ContentOf(q)
  BY <1>2, <1>3, <1>5, <1>6, FrameTakenStep
<1> QED
  BY <1>7

\* The step leaves every page where it is, unless the device fails.
LEMMA NoPageMoved ==
  ASSUME IInv, PoolInv', StoreTypes', UNCHANGED <<page_table, disk, file_size, next_page_id, wrote, given>>,
         \A q \in PageIds : Cached(q) =>
           Of(q)'.is_dirty = Of(q).is_dirty /\ Of(q)'.data = Of(q).data,
         failed => failed', lossy => lossy'
  PROVE  /\ IInv'
         /\ \A q \in PageIds : ContentOf(q)' = ContentOf(q)
<1>1. StoreTypes /\ file_size' >= file_size /\ next_page_id' >= next_page_id
  BY PoolAssumption DEF IInv, StoreInv, StoreTypes
<1>2. ASSUME NEW q \in PageIds PROVE PageInv(q)' /\ ContentOf(q)' = ContentOf(q)
  <2>1. PageInv(q)
    BY StoreOfPage DEF IInv
  <2> QED
    BY <1>1, <2>1, PageKept
<1> QED
  BY <1>2, StoreOfPages DEF IInv

\* FetchPage and NewPage when there is no frame to be had.
LEMMA NoFreeFrameStep ==
  ASSUME IInv, NoFreeFrame, UNCHANGED <<next_page_id, threads, given>>
  PROVE  /\ IInv'
         /\ \A q \in PageIds : ContentOf(q)' = ContentOf(q)
<1>1. UNCHANGED <<pages, page_table, free_list, next_page_id, pins, ptr, wrote, given>>
  BY DEF NoFreeFrame, threads
<1>2. /\ UNCHANGED <<disk, file_size>>
      /\ \/ UNCHANGED <<failed, lossy>>
         \/ failed' = TRUE /\ lossy' = TRUE
  BY DEF NoFreeFrame, NoWrite, WriteFails, store
<1>3. /\ lru_list' \in Seq(Frames) /\ IsInjective(lru_list') /\ ToSet(lru_list') = ToSet(lru_list)
  <2>1. \/ lru_list' = lru_list
        \/ lru_list # <<>> /\ lru_list' = <<Last(lru_list)>> \o Front(lru_list)
    BY DEF NoFreeFrame
  <2> QED
    BY <2>1, VictimKept DEF IInv, PoolInv, PoolTypes, FramesPartitioned
<1>4. PoolInv'
  <2>1. WrotePinned' /\ wrote' \in [Threads -> SUBSET PageIds] /\ pages' \in [Frames -> Page]
    BY <1>1 DEF IInv, PoolInv, PoolTypes, WrotePinned
  <2> QED
    BY <1>1, <1>3, <2>1, SamePool DEF IInv
<1>5. StoreTypes'
  BY <1>1, <1>2 DEF IInv, StoreInv, StoreTypes
<1>6. \A q \in PageIds : Of(q)' = Of(q)
  BY <1>1 DEF Of
<1> QED
  BY <1>1, <1>2, <1>4, <1>5, <1>6, NoPageMoved

\* A read that throws may have written the victim before.
LEMMA FetchThrowsStep ==
  ASSUME IInv, NEW t \in Threads, NEW p \in PageIds, FetchThrows(t, p)
  PROVE  IInv' /\ Faulty'
<1>1. PICK f \in Frames :
        /\ IF free_list = <<>>
           THEN /\ lru_list # <<>> /\ f = Last(lru_list)
                /\ IF pages[f].is_dirty
                   THEN /\ disk' = [disk EXCEPT ![pages[f].page_id] = pages[f].data]
                        /\ file_size' = Max({file_size, pages[f].page_id + 1})
                   ELSE UNCHANGED <<disk, file_size>>
           ELSE UNCHANGED <<disk, file_size>>
        /\ page_table' = TableWithout(f)
  BY DEF FetchThrows
<1>2. failed' = TRUE /\ UNCHANGED <<next_page_id, given, lossy>>
  BY DEF FetchThrows
<1>3. PoolInv'
  BY FetchThrowsPool DEF IInv
<1>4. /\ disk' \in [PageIds -> Data] /\ ZeroBeyond'
      /\ file_size' \in 0 .. MaxPages
  <2>1. CASE UNCHANGED <<disk, file_size>>
    BY <2>1 DEF IInv, StoreInv, StoreTypes, ZeroBeyond
  <2>2. CASE /\ free_list = <<>> /\ lru_list # <<>> /\ f = Last(lru_list)
             /\ disk' = [disk EXCEPT ![pages[f].page_id] = pages[f].data]
             /\ file_size' = Max({file_size, pages[f].page_id + 1})
    <3>1. f \in ToSet(lru_list)
      BY <2>2, FrontSet DEF IInv, PoolInv, PoolTypes, FramesPartitioned
    <3>2. PICK q \in PageIds : page_table[q] = f
      BY <3>1 DEF IInv, PoolInv, FramesPartitioned, Used
    <3>3. Cached(q)
      BY <3>2, PoolAssumption DEF Cached, Frames, NoFrame
    <3>4. pages[f].page_id = q /\ pages[f].data \in Data
      BY <3>2, <3>3, UnpinnedFrame DEF Of, Page, IInv
    <3> QED
      BY <2>2, <3>4, PageOnDisk DEF IInv, StoreInv
  <2> QED
    BY <1>1, <2>1, <2>2
<1>5. StoreTypes'
  BY <1>2, <1>4 DEF IInv, StoreInv, StoreTypes
<1>6. \A q \in PageIds : Cached(q)' => Cached(q)
  BY <1>1 DEF Cached, TableWithout
<1>7. StoreInv'
  BY <1>2, <1>4, <1>5, <1>6 DEF IInv, StoreInv, CachedIsAllocated, GivenAreKept, CleanIsOnDisk
<1> QED
  BY <1>2, <1>3, <1>7 DEF IInv, Faulty

\* UnpinPage by a thread that says is_dirty when it has written.
LEMMA UnpinStep ==
  ASSUME IInv, NEW t \in Threads, NEW p \in PageIds, pins[t][p] > 0, UnpinPage(t, p, p \in wrote[t])
  PROVE  /\ IInv'
         /\ \A q \in PageIds : ContentOf(q)' = ContentOf(q)
<1>1. /\ PoolInv' /\ page_table' = page_table
      /\ \A q \in PageIds \ {p} : Cached(q) => Of(q)' = Of(q)
      /\ Of(p)'.is_dirty <=> Of(p).is_dirty \/ p \in wrote[t]
      /\ Of(p)'.data = Of(p).data
  <2>1. CASE p \in wrote[t]
    <3>1. (p \in wrote[t]) = TRUE
      BY <2>1
    <3>2. UnpinPage(t, p, TRUE)
      BY <3>1
    <3> QED
      BY <2>1, <3>2, UnpinPool DEF IInv, DirtyAfter
  <2>2. CASE p \notin wrote[t]
    <3>1. (p \in wrote[t]) = FALSE
      BY <2>2
    <3>2. UnpinPage(t, p, FALSE)
      BY <3>1
    <3> QED
      BY <2>2, <3>2, UnpinPool DEF IInv, DirtyAfter
  <2> QED
    BY <2>1, <2>2
<1>2. /\ UNCHANGED <<disk, file_size, failed, next_page_id, given, lossy>> /\ Cached(p)
      /\ wrote' = [wrote EXCEPT ![t] = @ \ {p}]
  BY DEF UnpinPage, Unpinned, store
<1>3. StoreTypes /\ StoreTypes'
  BY <1>2 DEF IInv, StoreInv, StoreTypes
<1>4. wrote \in [Threads -> SUBSET PageIds]
  BY DEF IInv, PoolInv, PoolTypes
<1>5. ASSUME NEW q \in PageIds PROVE PageInv(q)' /\ ContentOf(q)' = ContentOf(q)
  <2>1. PageInv(q) /\ (Cached(q)' <=> Cached(q))
    BY <1>1, StoreOfPage DEF IInv, Cached
  <2>2. CASE q # p
    <3>1. file_size' >= file_size /\ next_page_id' >= next_page_id
      BY <1>2, <1>3, PoolAssumption DEF StoreTypes
    <3>2. \A u \in Threads : q \in wrote[u] => q \in wrote'[u]
      BY <1>2, <1>4, <2>2
    <3>3. Cached(q) => Of(q)' = Of(q)
      BY <1>1, <2>2
    <3> QED
      BY <1>1, <1>2, <1>3, <2>1, <3>1, <3>2, <3>3, PageKept
  <2>3. CASE q = p
    <3>1. Of(p).is_dirty => Of(p)'.is_dirty
      BY <1>1
    <3>2. ~Of(p)'.is_dirty => ~Of(p).is_dirty /\ p \notin wrote[t]
      BY <1>1
    <3>3. p \in Dirty => p \in Dirty'
      BY <2>1, <2>3, <3>1 DEF Dirty
    <3>4. \A u \in Threads : u # t => wrote'[u] = wrote[u]
      BY <1>2, <1>4
    <3>5. ~Of(p)'.is_dirty /\ (\A u \in Threads : p \notin wrote'[u]) =>
            ~Of(p).is_dirty /\ \A u \in Threads : p \notin wrote[u]
      BY <3>2, <3>4
    <3>6. PageInv(p)'
      BY <1>1, <1>2, <2>1, <2>3, <3>3, <3>5 DEF PageInv, Faulty
    <3> QED
      BY <1>1, <1>2, <2>1, <2>3, <3>6 DEF ContentOf
  <2> QED
    BY <2>2, <2>3
<1> QED
  BY <1>1, <1>3, <1>5, StoreOfPages DEF IInv

\* The pointer a thread writes through is the page's frame.
LEMMA WriteStep ==
  ASSUME IInv, NEW t \in Threads, NEW p \in PageIds, NEW d \in Data, WriteData(t, p, d)
  PROVE  /\ IInv' /\ (Faulty' <=> Faulty)
         /\ ContentOf(p)' = d /\ \A q \in PageIds \ {p} : ContentOf(q)' = ContentOf(q)
<1> DEFINE f == page_table[p]
           g == [pages[f] EXCEPT !.data = d]
<1>1. pins[t][p] > 0 /\ Cached(p) /\ ptr[t][p] = f
  BY DEF WriteData, IInv, PoolInv, PointersStayGood
<1>2. /\ f \in Frames /\ pages[f] \in Page /\ \A q \in PageIds : page_table[q] = f => q = p
  BY <1>1, UnpinnedFrame DEF IInv, Of
<1>3. /\ pages' = [pages EXCEPT ![f] = g] /\ pages \in [Frames -> Page]
      /\ g \in Page /\ g.data = d /\ g.is_dirty = pages[f].is_dirty
      /\ g.page_id = pages[f].page_id /\ g.pin_count = pages[f].pin_count
  <2>1. pages' = [pages EXCEPT ![f].data = d] /\ pages \in [Frames -> Page]
    BY <1>1 DEF WriteData, IInv, PoolInv, PoolTypes
  <2> HIDE DEF f
  <2>2. pages' = [pages EXCEPT ![f] = g]
    BY <2>1
  <2> QED
    BY <1>2, <2>1, <2>2 DEF Page
<1>4. /\ UNCHANGED <<page_table, free_list, lru_list, pins, ptr>>
      /\ UNCHANGED <<disk, file_size, failed, next_page_id, given, lossy>>
      /\ wrote' = [wrote EXCEPT ![t] = @ \cup {p}]
  BY DEF WriteData, store
<1> HIDE DEF f, g
<1>5. /\ pages' \in [Frames -> Page] /\ pages'[f] = g
      /\ \A h \in Frames \ {f} : pages'[h] = pages[h]
  BY <1>2, <1>3
<1>6. wrote \in [Threads -> SUBSET PageIds] /\ wrote' \in [Threads -> SUBSET PageIds] /\ WrotePinned'
  <2>1. wrote \in [Threads -> SUBSET PageIds] /\ WrotePinned
    BY DEF IInv, PoolInv, PoolTypes
  <2> QED
    BY <1>1, <1>4, <2>1 DEF WrotePinned
<1>7. PoolInv'
  <2>1. \A h \in Frames : /\ pages'[h].page_id = pages[h].page_id
                          /\ pages'[h].pin_count = pages[h].pin_count
    BY <1>3, <1>5
  <2>2. lru_list' \in Seq(Frames) /\ IsInjective(lru_list') /\ ToSet(lru_list') = ToSet(lru_list)
    BY <1>4 DEF IInv, PoolInv, PoolTypes, FramesPartitioned
  <2> QED
    BY <1>4, <1>5, <1>6, <2>1, <2>2, SamePool DEF IInv
<1>8. StoreTypes /\ StoreTypes'
  BY <1>4 DEF IInv, StoreInv, StoreTypes
<1>9. ASSUME NEW q \in PageIds \ {p} PROVE PageInv(q)' /\ ContentOf(q)' = ContentOf(q)
  <2>1. Cached(q) => page_table[q] \in Frames \ {f}
    BY <1>2, UnpinnedFrame DEF IInv
  <2>2. Cached(q) => Of(q)' = Of(q)
    BY <1>4, <1>5, <2>1 DEF Of
  <2>3. file_size' >= file_size /\ next_page_id' >= next_page_id
    BY <1>4, <1>8, PoolAssumption DEF StoreTypes
  <2>4. \A u \in Threads : q \in wrote[u] => q \in wrote'[u]
    BY <1>4, <1>6
  <2>5. PageInv(q)
    BY StoreOfPage DEF IInv
  <2> QED
    BY <1>4, <1>8, <2>2, <2>3, <2>4, <2>5, PageKept
<1>10. PageInv(p)' /\ ContentOf(p)' = d
  <2>1. Cached(p)' /\ Of(p)' = g /\ Of(p) = pages[f]
    BY <1>1, <1>4, <1>5 DEF Cached, Of, f
  <2>2. p \in wrote'[t]
    BY <1>4, <1>6
  <2>3. p \in Dirty => p \in Dirty'
    BY <1>3, <2>1 DEF Dirty
  <2>4. PageInv(p)
    BY StoreOfPage DEF IInv
  <2>5. PageInv(p)'
    BY <1>1, <1>4, <2>2, <2>3, <2>4 DEF PageInv
  <2> QED
    BY <1>3, <2>1, <2>5 DEF ContentOf
<1>11. \A q \in PageIds : PageInv(q)'
  BY <1>9, <1>10
<1> QED
  BY <1>4, <1>7, <1>8, <1>9, <1>10, <1>11, StoreOfPages DEF IInv, Faulty

\* DeletePage: the callers see a page of zeros, or the file has failed.
LEMMA DeleteStep ==
  ASSUME IInv, NEW p \in PageIds, DeletePage(p)
  PROVE  /\ IInv'
         /\ Faulty' \/ (/\ ~Faulty /\ ContentOf(p)' = Zero
                        /\ \A q \in PageIds \ {p} : ContentOf(q)' = ContentOf(q))
         /\ Faulty => Faulty'
<1>1. /\ PoolInv' /\ ~Cached(p)'
      /\ \A q \in PageIds \ {p} :
           page_table'[q] = page_table[q] /\ (Cached(q) => Of(q)' = Of(q))
  BY DeletePool DEF IInv
<1>2. UNCHANGED <<next_page_id, given, wrote>>
  BY DEF DeletePage, threads
<1>3. Zero \in Data /\ StoreTypes /\ ZeroBeyond
  BY PoolAssumption DEF IInv, StoreInv
<1>4. /\ disk' \in [PageIds -> Data] /\ ZeroBeyond'
      /\ file_size' \in 0 .. MaxPages /\ file_size' >= file_size
      /\ \A q \in PageIds \ {p} : disk'[q] = disk[q]
      /\ \/ UNCHANGED <<failed, lossy>> /\ ~failed /\ disk'[p] = Zero /\ file_size' > p
         \/ failed' = TRUE /\ lossy' = TRUE
  <2>1. CASE WritePage(p, Zero)
    BY <1>3, <2>1, PageWritten
  <2>2. CASE WriteFails(p)
    <3>1. UNCHANGED <<disk, file_size>> /\ failed' = TRUE /\ lossy' = TRUE
      BY <2>2 DEF WriteFails
    <3> QED
      BY <1>3, <3>1, PoolAssumption DEF StoreTypes, ZeroBeyond
  <2> QED
    BY <2>1, <2>2 DEF DeletePage
<1>5. StoreTypes' /\ file_size' >= file_size /\ next_page_id' >= next_page_id
  <2>1. failed' \in BOOLEAN /\ lossy' \in BOOLEAN
    BY <1>3, <1>4 DEF StoreTypes
  <2>2. StoreTypes'
    BY <1>2, <1>3, <1>4, <2>1 DEF StoreTypes
  <2> QED
    BY <1>2, <1>3, <1>4, <2>2, PoolAssumption DEF StoreTypes
<1>6. ASSUME NEW q \in PageIds \ {p} PROVE PageInv(q)' /\ ContentOf(q)' = ContentOf(q)
  <2>1. PageInv(q)
    BY StoreOfPage DEF IInv
  <2> QED
    BY <1>1, <1>2, <1>3, <1>4, <1>5, <2>1, PageKept
<1>7. PageInv(p)'
  <2>1. PageInv(p)
    BY StoreOfPage DEF IInv
  <2> QED
    BY <1>1, <1>2, <1>4, <2>1 DEF PageInv, ZeroBeyond
<1>8. ~Faulty' => ContentOf(p)' = Zero
  BY <1>1, <1>4 DEF ContentOf, Faulty
<1>9. Faulty => Faulty'
  BY <1>4 DEF Faulty
<1>10. \A q \in PageIds : PageInv(q)'
  BY <1>6, <1>7
<1>11. IInv'
  BY <1>1, <1>5, <1>10, StoreOfPages DEF IInv
<1> QED
  BY <1>6, <1>8, <1>9, <1>11

\* FlushPage is not seen.
LEMMA FlushStep ==
  ASSUME IInv, NEW p \in PageIds, FlushPage(p)
  PROVE  /\ IInv' /\ (Faulty => Faulty')
         /\ \A q \in PageIds : ContentOf(q)' = ContentOf(q)
<1> DEFINE f == page_table[p]
<1>1. Cached(p) /\ p \in Dirty
  BY DEF FlushPage, Dirty
<1>2. /\ f \in Frames /\ pages[f] \in Page /\ Of(p) = pages[f] /\ pages[f].data \in Data
      /\ \A q \in PageIds : page_table[q] = f => q = p
  BY <1>1, UnpinnedFrame DEF IInv, Of, Page
<1>3. UNCHANGED <<page_table, free_list, lru_list, next_page_id, pins, ptr, wrote, given>>
  BY DEF FlushPage, threads
<1>4. CASE WriteFails(p) /\ UNCHANGED pages
  <2>1. UNCHANGED <<disk, file_size>> /\ failed' = TRUE /\ lossy' = TRUE
    BY <1>4 DEF WriteFails
  <2>2. PoolInv'
    BY <1>3, <1>4 DEF IInv, PoolInv, PoolTypes, FramesPartitioned, PointersStayGood, WrotePinned,
                      Used, Cached, Of, PinsOn
  <2>3. StoreTypes' /\ Faulty'
    BY <1>3, <2>1 DEF IInv, StoreInv, StoreTypes, Faulty
  <2>4. \A q \in PageIds : Of(q)' = Of(q)
    BY <1>3, <1>4 DEF Of
  <2> QED
    BY <1>3, <2>1, <2>2, <2>3, <2>4, NoPageMoved
<1>5. CASE /\ WritePage(p, Of(p).data)
           /\ pages' = [pages EXCEPT ![page_table[p]].is_dirty = FALSE]
  <2> DEFINE g == [pages[f] EXCEPT !.is_dirty = FALSE]
  <2>1. /\ pages' = [pages EXCEPT ![f] = g] /\ pages \in [Frames -> Page]
        /\ g \in Page /\ g.data = pages[f].data /\ g.is_dirty = FALSE
        /\ g.page_id = pages[f].page_id /\ g.pin_count = pages[f].pin_count
    <3>1. pages' = [pages EXCEPT ![f].is_dirty = FALSE] /\ pages \in [Frames -> Page]
      BY <1>5 DEF IInv, PoolInv, PoolTypes
    <3>2. pages[f] \in Page
      BY <1>2
    <3> HIDE DEF f
    <3>3. pages' = [pages EXCEPT ![f] = g]
      BY <3>1
    <3> QED
      BY <3>1, <3>2, <3>3 DEF Page
  <2>2. /\ UNCHANGED <<failed, lossy>>
        /\ disk' \in [PageIds -> Data] /\ disk'[p] = pages[f].data
        /\ \A q \in PageIds \ {p} : disk'[q] = disk[q]
        /\ file_size' \in 0 .. MaxPages /\ file_size' >= file_size /\ file_size' > p
        /\ ZeroBeyond'
    BY <1>2, <1>5, PageWritten DEF IInv, StoreInv
  <2> HIDE DEF g
  <2>3. /\ pages' \in [Frames -> Page] /\ pages'[f] = g
        /\ \A h \in Frames \ {f} : pages'[h] = pages[h]
    BY <1>2, <2>1
  <2>4. PoolInv'
    <3>1. \A h \in Frames : /\ pages'[h].page_id = pages[h].page_id
                            /\ pages'[h].pin_count = pages[h].pin_count
      BY <2>1, <2>3
    <3>2. lru_list' \in Seq(Frames) /\ IsInjective(lru_list') /\ ToSet(lru_list') = ToSet(lru_list)
      BY <1>3 DEF IInv, PoolInv, PoolTypes, FramesPartitioned
    <3>3. WrotePinned' /\ wrote' \in [Threads -> SUBSET PageIds]
      BY <1>3 DEF IInv, PoolInv, PoolTypes, WrotePinned
    <3> QED
      BY <1>3, <2>3, <3>1, <3>2, <3>3, SamePool DEF IInv
  <2>5. StoreTypes /\ StoreTypes' /\ next_page_id' >= next_page_id
    BY <1>3, <2>2, PoolAssumption DEF IInv, StoreInv, StoreTypes
  <2>6. ASSUME NEW q \in PageIds PROVE PageInv(q)' /\ ContentOf(q)' = ContentOf(q)
    <3>1. PageInv(q)
      BY StoreOfPage DEF IInv
    <3>2. CASE q # p
      <4>1. Cached(q) => page_table[q] \in Frames \ {f}
        BY <1>2, <3>2, UnpinnedFrame DEF IInv
      <4>2. Cached(q) => Of(q)' = Of(q)
        BY <1>3, <2>3, <4>1 DEF Of
      <4>3. disk'[q] = disk[q]
        BY <2>2, <3>2
      <4> QED
        BY <1>3, <2>2, <2>5, <3>1, <4>2, <4>3, PageKept
    <3>3. CASE q = p
      <4>1. Cached(p)' /\ Of(p)' = g
        BY <1>1, <1>3, <2>3 DEF Cached, Of
      <4>2. Of(p)'.data = disk'[p] /\ file_size' > p /\ (p >= file_size' => disk'[p] = Zero)
        BY <2>1, <2>2, <4>1 DEF ZeroBeyond
      <4>3. Cached(p)' => p < next_page_id'
        BY <1>1, <1>3, <3>1, <3>3 DEF PageInv
      <4>4. p \in given' => p < next_page_id'
        BY <1>3, <3>1, <3>3 DEF PageInv
      <4>5. PageInv(p)'
        BY <4>2, <4>3, <4>4 DEF PageInv
      <4> QED
        BY <1>1, <1>2, <2>1, <3>3, <4>1, <4>5 DEF ContentOf
    <3> QED
      BY <3>2, <3>3
  <2> QED
    BY <2>2, <2>4, <2>5, <2>6, StoreOfPages DEF IInv, Faulty
<1> QED
  BY <1>4, <1>5 DEF FlushPage

\* FlushAllPages is not seen, whichever pages it has written.
LEMMA FlushAllStep ==
  ASSUME IInv, FlushAllPages
  PROVE  /\ IInv' /\ (Faulty => Faulty')
         /\ \A q \in PageIds : ContentOf(q)' = ContentOf(q)
<1>1. PICK W \in SUBSET Dirty :
        /\ FlushDirty(W)
        /\ failed' = (failed \/ W # Dirty)
        /\ lossy' = (lossy \/ W # Dirty)
        /\ pages' = [f \in Frames |->
             IF \E p \in W : page_table[p] = f THEN [pages[f] EXCEPT !.is_dirty = FALSE] ELSE pages[f]]
  BY DEF FlushAllPages
<1>2. UNCHANGED <<page_table, free_list, lru_list, next_page_id, pins, ptr, wrote, given>>
  BY DEF FlushAllPages, threads
<1>3. /\ disk' \in [PageIds -> Data]
      /\ \A q \in PageIds : disk'[q] = IF q \in W THEN Of(q).data ELSE disk[q]
      /\ file_size' \in 0 .. MaxPages /\ file_size' >= file_size
      /\ \A q \in W : q < file_size'
      /\ ZeroBeyond'
  BY <1>1, DirtyFlushed DEF IInv, StoreInv
<1>4. \A f \in Frames : /\ pages[f] \in Page
                        /\ [pages[f] EXCEPT !.is_dirty = FALSE] \in Page
                        /\ [pages[f] EXCEPT !.is_dirty = FALSE].page_id = pages[f].page_id
                        /\ [pages[f] EXCEPT !.is_dirty = FALSE].pin_count = pages[f].pin_count
                        /\ [pages[f] EXCEPT !.is_dirty = FALSE].data = pages[f].data
                        /\ [pages[f] EXCEPT !.is_dirty = FALSE].is_dirty = FALSE
  BY DEF IInv, PoolInv, PoolTypes, Page
<1>5. /\ pages' \in [Frames -> Page]
      /\ \A f \in Frames : /\ pages'[f].page_id = pages[f].page_id
                           /\ pages'[f].pin_count = pages[f].pin_count
                           /\ pages'[f].data = pages[f].data
                           /\ (\E p \in W : page_table[p] = f) => pages'[f].is_dirty = FALSE
                           /\ ~(\E p \in W : page_table[p] = f) => pages'[f] = pages[f]
  BY <1>1, <1>4
<1>6. PoolInv'
  <2>1. lru_list' \in Seq(Frames) /\ IsInjective(lru_list') /\ ToSet(lru_list') = ToSet(lru_list)
    BY <1>2 DEF IInv, PoolInv, PoolTypes, FramesPartitioned
  <2>2. WrotePinned' /\ wrote' \in [Threads -> SUBSET PageIds]
    BY <1>2 DEF IInv, PoolInv, PoolTypes, WrotePinned
  <2> QED
    BY <1>2, <1>5, <2>1, <2>2, SamePool DEF IInv
<1>7. StoreTypes /\ StoreTypes' /\ next_page_id' >= next_page_id
  <2>1. failed' \in BOOLEAN /\ lossy' \in BOOLEAN
    BY <1>1
  <2> QED
    BY <1>2, <1>3, <2>1, PoolAssumption DEF IInv, StoreInv, StoreTypes
<1>8. Faulty => Faulty'
  BY <1>1 DEF Faulty
<1>9. ASSUME NEW q \in PageIds PROVE PageInv(q)' /\ ContentOf(q)' = ContentOf(q)
  <2>1. PageInv(q)
    BY StoreOfPage DEF IInv
  <2>2. CASE q \notin W
    <3>1. ASSUME Cached(q) PROVE Of(q)' = Of(q)
      <4>1. page_table[q] \in Frames /\ \A p \in PageIds : page_table[p] = page_table[q] => p = q
        BY <3>1, UnpinnedFrame DEF IInv
      <4>2. ~\E p \in W : page_table[p] = page_table[q]
        BY <2>2, <4>1 DEF Dirty
      <4> QED
        BY <1>2, <1>5, <4>1, <4>2 DEF Of
    <3>2. disk'[q] = disk[q] /\ (failed => failed') /\ (lossy => lossy')
      BY <1>1, <1>3, <2>2
    <3> QED
      BY <1>2, <1>3, <1>7, <2>1, <3>1, <3>2, PageKept
  <2>3. CASE q \in W
    <3>1. Cached(q) /\ Cached(q)' /\ page_table[q] \in Frames
      BY <1>2, <2>3, UnpinnedFrame DEF IInv, Dirty, Cached
    <3>2. Of(q)'.data = Of(q).data
      BY <1>2, <1>5, <3>1 DEF Of
    <3>3. Of(q)'.data = disk'[q] /\ q < file_size'
      BY <1>3, <2>3, <3>2
    <3>4. Cached(q)' => q < next_page_id'
      BY <1>2, <2>1, <3>1 DEF PageInv
    <3>5. q \in given' => q < next_page_id'
      BY <1>2, <2>1 DEF PageInv
    <3>6. PageInv(q)'
      BY <1>3, <3>3, <3>4, <3>5 DEF PageInv, ZeroBeyond
    <3> QED
      BY <3>1, <3>2, <3>6 DEF ContentOf
  <2> QED
    BY <2>2, <2>3
<1> QED
  BY <1>6, <1>7, <1>8, <1>9, StoreOfPages DEF IInv

\* the ids of the pages in a file of n pages
LEMMA IdsBelow ==
  ASSUME NEW M \in Nat, NEW n \in 0 .. M
  PROVE  0 .. n - 1 \subseteq 0 .. M - 1 /\ \A p \in 0 .. n - 1 : p < n
OBVIOUS

\* The ids continue behind the file's end, and whatever was given out is in
\* front of it.
LEMMA ReopenStep ==
  ASSUME IInv, Reopen
  PROVE  /\ IInv'
         /\ ~Faulty /\ ~Faulty' => \A q \in PageIds : ContentOf(q)' = ContentOf(q)
<1>1. PICK W \in SUBSET Dirty : FlushDirty(W) /\ lossy' = (failed \/ W # Dirty)
  BY DEF Reopen
<1>2. /\ \A t \in Threads, p \in PageIds : pins[t][p] = 0
      /\ failed' = FALSE /\ next_page_id' = file_size'
      /\ given' = IF lossy' THEN 0 .. file_size' - 1 ELSE given
      /\ FreshPool /\ UNCHANGED <<pins, ptr, wrote>>
  BY DEF Reopen, threads
<1>3. /\ disk' \in [PageIds -> Data]
      /\ \A q \in PageIds : disk'[q] = IF q \in W THEN Of(q).data ELSE disk[q]
      /\ file_size' \in 0 .. MaxPages /\ file_size' >= file_size
      /\ \A q \in W : q < file_size'
      /\ ZeroBeyond'
  BY <1>1, DirtyFlushed DEF IInv, StoreInv
<1>4. PoolInv' /\ \A p \in PageIds : ~Cached(p)'
  <2>1. \A t \in Threads, p \in PageIds : pins'[t][p] = 0 /\ p \notin wrote'[t]
    BY <1>2 DEF IInv, PoolInv, PoolTypes, WrotePinned
  <2> QED
    BY <1>2, <2>1, FreshPoolInv DEF IInv, PoolInv, PoolTypes
<1>5. \A p \in given' : p < next_page_id'
  <2>1. CASE lossy'
    <3>1. given' = 0 .. file_size' - 1
      BY <1>2, <2>1
    <3>2. MaxPages \in Nat /\ file_size' \in 0 .. MaxPages
      BY <1>3, PoolAssumption
    <3>3. \A p \in 0 .. file_size' - 1 : p < file_size'
      BY <3>2, IdsBelow
    <3> QED
      BY <1>2, <3>1, <3>3
  <2>2. CASE ~lossy'
    <3>1. ~failed /\ W = Dirty /\ given' = given
      BY <1>1, <1>2, <2>2
    <3>2. \A p \in given : p < file_size \/ p \in W
      BY <3>1 DEF IInv, StoreInv, GivenAreKept
    <3>3. \A p \in given : p \in Nat /\ file_size \in Nat /\ file_size' \in Nat
      BY <1>3, PoolAssumption DEF IInv, StoreInv, StoreTypes, PageIds
    <3>4. \A p \in given : p < file_size'
      BY <1>3, <3>2, <3>3
    <3> QED
      BY <1>2, <3>1, <3>4
  <2> QED
    BY <2>1, <2>2
<1>6. StoreTypes'
  <2>1. given' \subseteq PageIds
    <3>1. given' = 0 .. file_size' - 1 \/ given' = given
      BY <1>2
    <3>2. MaxPages \in Nat /\ file_size' \in 0 .. MaxPages
      BY <1>3, PoolAssumption
    <3>3. 0 .. file_size' - 1 \subseteq PageIds
      BY <3>2, IdsBelow DEF PageIds
    <3> QED
      BY <3>1, <3>3 DEF IInv, StoreInv, StoreTypes
  <2>2. failed' \in BOOLEAN /\ lossy' \in BOOLEAN
    BY <1>1, <1>2
  <2> QED
    BY <1>2, <1>3, <2>1, <2>2 DEF StoreTypes
<1>7. StoreInv'
  BY <1>2, <1>3, <1>4, <1>5, <1>6 DEF StoreInv, CachedIsAllocated, GivenAreKept, CleanIsOnDisk
<1>8. ASSUME ~Faulty, ~Faulty', NEW q \in PageIds PROVE ContentOf(q)' = ContentOf(q)
  <2>1. W = Dirty /\ ContentOf(q)' = disk'[q]
    BY <1>1, <1>4, <1>8 DEF Faulty, ContentOf
  <2>2. CASE q \in Dirty
    BY <1>3, <2>1, <2>2 DEF Dirty, ContentOf
  <2>3. CASE q \notin Dirty
    <3>1. Cached(q) => Of(q).data = disk[q]
      BY <1>2, <1>8, <2>3, UnpinnedIsOnDisk DEF Dirty
    <3> QED
      BY <1>3, <2>1, <2>3, <3>1 DEF ContentOf
  <2> QED
    BY <2>2, <2>3
<1> QED
  BY <1>4, <1>7, <1>8 DEF IInv

\* Neither is a call that is refused.
LEMMA NothingHappens ==
  ASSUME IInv, UNCHANGED vars
  PROVE  IInv' /\ (Faulty' <=> Faulty) /\ \A q \in PageIds : ContentOf(q)' = ContentOf(q)
<1>1. /\ UNCHANGED <<pages, page_table, free_list, lru_list, pins, ptr, wrote>>
      /\ UNCHANGED <<disk, file_size, failed, next_page_id, given, lossy>>
  BY DEF vars, pool, store, threads
<1>2. PoolInv'
  BY <1>1 DEF IInv, PoolInv, PoolTypes, FramesPartitioned, PointersStayGood, WrotePinned,
              Used, Cached, Of, PinsOn
<1>3. StoreTypes'
  BY <1>1 DEF IInv, StoreInv, StoreTypes
<1>4. \A q \in PageIds : Of(q)' = Of(q)
  BY <1>1 DEF Of
<1> QED
  BY <1>1, <1>2, <1>3, <1>4, NoPageMoved DEF Faulty

\* A manager on a file of zeros.
LEMMA InitInv == Init => IInv
<1> SUFFICES ASSUME Init PROVE IInv
  OBVIOUS
<1>1. /\ pages = [f \in Frames |-> ResetPage] /\ page_table = [p \in PageIds |-> NoFrame]
      /\ free_list = [i \in 1 .. PoolSize |-> i - 1] /\ lru_list = <<>>
      /\ disk = [p \in PageIds |-> Zero] /\ file_size = InitialSize /\ failed = FALSE
      /\ next_page_id = InitialSize /\ given = 0 .. InitialSize - 1 /\ lossy = FALSE
      /\ pins = [t \in Threads |-> [p \in PageIds |-> 0]]
      /\ ptr = [t \in Threads |-> [p \in PageIds |-> NoFrame]]
      /\ wrote = [t \in Threads |-> {}]
  BY DEF Init
<1>2. /\ free_list \in Seq(Frames) /\ IsInjective(free_list) /\ ToSet(free_list) = Frames
      /\ lru_list \in Seq(Frames) /\ IsInjective(lru_list) /\ ToSet(lru_list) = {}
  BY <1>1, FreshLists
<1>3. Used = {} /\ \A p \in PageIds : ~Cached(p)
  BY <1>1 DEF Used, Cached
<1>4. PoolTypes
  BY <1>1, <1>2, ResetIsPage, PoolAssumption DEF PoolTypes
<1>5. FramesPartitioned /\ PointersStayGood /\ WrotePinned
  BY <1>1, <1>2, <1>3 DEF FramesPartitioned, PointersStayGood, WrotePinned
<1>6. InitialSize \in 0 .. MaxPages /\ MaxPages \in Nat /\ Zero \in Data
  BY PoolAssumption
<1>7. StoreTypes
  <2>1. given \subseteq PageIds
    BY <1>1, <1>6 DEF PageIds
  <2>2. disk \in [PageIds -> Data] /\ failed \in BOOLEAN /\ lossy \in BOOLEAN
    BY <1>1, <1>6
  <2>3. file_size \in 0 .. MaxPages /\ next_page_id \in 0 .. MaxPages
    BY <1>1, <1>6
  <2> QED
    BY <2>1, <2>2, <2>3 DEF StoreTypes
<1>8. CachedIsAllocated /\ ZeroBeyond /\ GivenAreKept /\ CleanIsOnDisk
  BY <1>1, <1>3, <1>6 DEF CachedIsAllocated, ZeroBeyond, GivenAreKept, CleanIsOnDisk
<1> QED
  BY <1>4, <1>5, <1>7, <1>8 DEF IInv, PoolInv, StoreInv

-----------------------------------------------------------------------------
(* Every step.                                                              *)

\* what the callers may see of a step: a fault, nothing, or one page changed
Seen ==
  \/ Faulty \/ Faulty'
  \/ \A q \in PageIds : ContentOf(q)' = ContentOf(q)
  \/ \E p \in PageIds, d \in Data :
       ContentOf(p)' = d /\ \A q \in PageIds \ {p} : ContentOf(q)' = ContentOf(q)

\* What a thread does to a page.
LEMMA ThreadStep ==
  ASSUME IInv, NEW t \in Threads, NEW p \in PageIds, Step(t, p)
  PROVE  IInv' /\ Seen
<1>1. CASE p < next_page_id /\ pins[t][p] < MaxPins /\ FetchPage(t, p)
  <2>1. CASE FetchHit(t, p)
    BY <1>1, <2>1, FetchHitStep DEF Seen
  <2>2. CASE FetchMiss(t, p)
    BY <1>1, <2>2, FetchMissStep DEF Seen
  <2>3. CASE FetchNoFrame(t, p)
    BY <2>3, NoFreeFrameStep DEF Seen, FetchNoFrame
  <2>4. CASE FetchThrows(t, p)
    BY <2>4, FetchThrowsStep DEF Seen
  <2> QED
    BY <1>1, <2>1, <2>2, <2>3, <2>4 DEF FetchPage
<1>2. CASE pins[t][p] > 0 /\ UnpinPage(t, p, p \in wrote[t])
  BY <1>2, UnpinStep DEF Seen
<1>3. CASE \E d \in Data : WriteData(t, p, d)
  BY <1>3, WriteStep DEF Seen
<1>4. CASE p < next_page_id /\ DeletePage(p)
  BY <1>4, DeleteStep, PoolAssumption DEF Seen
<1>5. CASE DeleteRefused(p)
  BY <1>5, NothingHappens DEF DeleteRefused, Seen
<1>6. CASE FlushPage(p)
  BY <1>6, FlushStep DEF Seen
<1> QED
  BY <1>1, <1>2, <1>3, <1>4, <1>5, <1>6 DEF Step

\* Every step keeps IInv, and the callers see no more of it than Seen.
LEMMA NextStep ==
  ASSUME IInv, [Next]_vars
  PROVE  IInv' /\ Seen
<1>1. CASE \E t \in Threads : NewPage(t)
  BY <1>1, NewPageStep, PoolAssumption DEF Seen
<1>2. CASE \E t \in Threads : NewNoFrame(t)
  BY <1>2, NoFreeFrameStep DEF Seen, NewNoFrame
<1>3. CASE \E t \in Threads, p \in PageIds : Step(t, p)
  BY <1>3, ThreadStep
<1>4. CASE FlushAllPages
  BY <1>4, FlushAllStep DEF Seen
<1>5. CASE Reopen
  BY <1>5, ReopenStep DEF Seen
<1>6. CASE UNCHANGED vars
  BY <1>6, NothingHappens DEF Seen
<1> QED
  BY <1>1, <1>2, <1>3, <1>4, <1>5, <1>6 DEF Next

\* IInv always holds.
LEMMA Invariance == Spec => []IInv
<1>1. Init => IInv
  BY InitInv
<1>2. IInv /\ [Next]_vars => IInv'
  BY NextStep
<1> QED
  BY <1>1, <1>2, PTL DEF Spec

-----------------------------------------------------------------------------
(* The theorems.                                                            *)

(* The frames of the pool are accounted for at any time, for any number of  *)
(* frames, pages, threads and pins: each one is free and not in the table,  *)
(* or in the replacer and unpinned, or pinned, and never in two places.     *)
THEOREM FramesAreAccountedFor == Spec => []FramesPartitioned
<1>1. IInv => FramesPartitioned
  BY DEF IInv, PoolInv
<1> QED
  BY <1>1, Invariance, PTL

(* The Page* that FetchPage and NewPage gave stays that page's frame until  *)
(* UnpinPage, and its pin_count is the number of pins all threads have.     *)
THEOREM PinsKeepFrames == Spec => []PointersStayGood
<1>1. IInv => PointersStayGood
  BY DEF IInv, PoolInv
<1> QED
  BY <1>1, Invariance, PTL

(* While the device refuses nothing AllocatePage gives no id out twice,     *)
(* whatever is evicted and deleted in between, and however often the file   *)
(* is closed and opened again.  After a fault this is said of the ids in    *)
(* the file and of those given since it was opened, as Reopen leaves the    *)
(* lost ones out of given.                                                  *)
THEOREM IdsAreGivenOnce == Spec => IdsAreNew
<1>1. IInv /\ [Next]_vars => [next_page_id' = next_page_id + 1 => AllocatePage \notin given]_vars
  <2> SUFFICES ASSUME IInv, AllocatePage \in given PROVE FALSE
    OBVIOUS
  <2>1. next_page_id \in given /\ next_page_id < next_page_id
    BY DEF AllocatePage, IInv, StoreInv, GivenAreKept
  <2>2. next_page_id \in Nat
    BY PoolAssumption DEF IInv, StoreInv, StoreTypes
  <2> QED
    BY <2>1, <2>2
<1> QED
  BY <1>1, Invariance, PTL DEF Spec, IdsAreNew

(* The buffer pool implements the store of pages that its callers see: what *)
(* is in a page changes by their writing and deleting only, until a fault.  *)
THEOREM PoolIsPageStore == Spec => ImplementsPageStore
<1>1. Init => Pages!Init
  <2> SUFFICES ASSUME Init PROVE Pages!Init
    OBVIOUS
  <2>1. (failed \/ lossy) = FALSE
    BY DEF Init
  <2>2. \A p \in PageIds : ~Cached(p) /\ disk[p] = Zero
    BY DEF Init, Cached
  <2> QED
    BY <2>1, <2>2 DEF Pages!Init
<1>2. (PoolTypes /\ StoreTypes => Content \in [PageIds -> Data])'
  BY ContentTyped, PTL
<1>3. IInv /\ [Next]_vars => [Pages!Next]_(Pages!vars)
  <2> SUFFICES ASSUME IInv, [Next]_vars PROVE [Pages!Next]_(Pages!vars)
    OBVIOUS
  <2> DEFINE c == [p \in PageIds |-> IF Cached(p) THEN Of(p).data ELSE disk[p]]
             b == failed \/ lossy
  <2>1. c = Content /\ c' = Content' /\ b = Faulty /\ b' = Faulty'
    BY DEF Content, Faulty
  <2>2. IInv' /\ Seen
    BY NextStep
  <2>3. c' \in [PageIds -> Data] /\ c \in [PageIds -> Data]
    BY <1>2, <2>1, <2>2, ContentTyped DEF IInv, PoolInv, StoreInv
  <2>4. \A q \in PageIds : c[q] = ContentOf(q) /\ c'[q] = ContentOf(q)'
    BY DEF ContentOf
  <2>5. b \in BOOLEAN /\ b' \in BOOLEAN
    OBVIOUS
  <2> HIDE DEF c, b
  <2>6. CASE b \/ b'
    <3>1. Pages!Fault
      BY <2>3, <2>5, <2>6 DEF Pages!Fault, c, b
    <3> QED
      BY <3>1 DEF Pages!Next
  <2>7. CASE ~b /\ ~b'
    <3>1. b' = b
      BY <2>5, <2>7
    <3>2. CASE \A q \in PageIds : ContentOf(q)' = ContentOf(q)
      <4>1. c' = c
        BY <2>3, <2>4, <3>2
      <4> QED
        BY <3>1, <4>1 DEF Pages!vars, c, b
    <3>3. CASE \E p \in PageIds, d \in Data :
                 ContentOf(p)' = d /\ \A q \in PageIds \ {p} : ContentOf(q)' = ContentOf(q)
      <4>1. PICK p \in PageIds, d \in Data :
              ContentOf(p)' = d /\ \A q \in PageIds \ {p} : ContentOf(q)' = ContentOf(q)
        BY <3>3
      <4>2. c' = [c EXCEPT ![p] = d]
        BY <2>3, <2>4, <4>1
      <4>3. Pages!Write(p, d)
        BY <3>1, <4>2 DEF Pages!Write, c, b
      <4> QED
        BY <4>3 DEF Pages!Next
    <3> QED
      BY <2>1, <2>2, <2>7, <3>2, <3>3 DEF Seen
  <2> QED
    BY <2>6, <2>7
<1> QED
  BY <1>1, <1>3, Invariance, PTL DEF Spec, ImplementsPageStore, Pages!Spec
=============================================================================
