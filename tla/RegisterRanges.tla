--------------------------- MODULE RegisterRanges ---------------------------
(***************************************************************************)
(* Which registers the controller polls: create_register_ranges_ walks the *)
(* sensors in order, lets neighbours share one range and rewrites the      *)
(* start and offset of each sensor to its place in the reply of the range. *)
(* Custom commands, which always have a range of their own, are left out.  *)
(***************************************************************************)
EXTENDS Integers, Sequences, FiniteSets

CONSTANTS
  ByteWrap   \* the values of a uint8_t: an offset or a count wraps here; 256 in the code

RegisterTypes == {"coil", "discrete", "holding", "read"}
BitTypes == {"coil", "discrete"}
TypeRank == [coil |-> 1, discrete |-> 2, holding |-> 3, read |-> 4]

\* What each kind of entity makes of its configuration c.  `bytes` is response_size.
BinaryCount(c) == IF c.type \in BitTypes THEN c.offset + 1 ELSE 1
Placed(c, start, offset, count) ==
  [type |-> c.type, start |-> start, offset |-> offset, count |-> count % ByteWrap,
   bytes |-> c.bytes, skip |-> c.skip, force |-> c.force]
Item(c) ==
  CASE c.kind = "sensor" -> Placed(c, c.address, c.offset, c.count)
    [] c.kind = "binary" -> Placed(c, c.address, c.offset, BinaryCount(c))
    [] c.kind = "switch" /\ c.type \in {"coil", "holding"} -> Placed(c, c.address + c.offset, 0, 1)
    [] OTHER -> Placed(c, c.address, c.offset, 1)

RegisterSize(item) ==
  IF item.type \in BitTypes THEN 1 ELSE IF item.bytes > 0 THEN item.bytes ELSE item.count * 2

\* SensorItemsComparator; an item's place in `items` stands for its address in memory.
Key(items, i) ==
  <<TypeRank[items[i].type], IF items[i].force THEN 0 ELSE 1, items[i].start, items[i].offset, i>>
SortsBefore(items, i, j) ==
  \E k \in 1..5 : /\ Key(items, i)[k] < Key(items, j)[k]
                  /\ \A h \in 1..(k - 1) : Key(items, i)[h] = Key(items, j)[h]
Position(items, i) == Cardinality({j \in DOMAIN items : SortsBefore(items, j, i)}) + 1
InOrder(items) == [n \in DOMAIN items |-> CHOOSE i \in DOMAIN items : Position(items, i) = n]

---------------------------------------------------------------------------
(* The walk: w.items as rewritten so far, w.done the finished ranges,      *)
(* w.range the one being built (count 0: none), w.bytes buffer_offset,     *)
(* w.prev the item before.                                                 *)

NoRange == [type |-> "coil", start |-> 0, count |-> 0, skip |-> 0, members |-> {}]
Start(items) == [items |-> items, done |-> <<>>, range |-> NoRange, bytes |-> 0, prev |-> 1]

Mergeable(w, c) == ~c.force /\ w.range.type = c.type
Reuses(w, c) ==
  LET p == w.items[w.prev]
  IN  /\ c.start = w.range.start + w.range.count - p.count
      /\ c.count = p.count /\ RegisterSize(c) = RegisterSize(p)
Extends(w, c) == c.start = w.range.start + w.range.count
Belongs(w, c) == c.start = w.range.start /\ c.type = w.range.type

\* The lowest skip_updates that is not zero.
LowestSkip(a, b) == IF a = 0 THEN b ELSE IF b = 0 THEN a ELSE IF a < b THEN a ELSE b

Open(w, i) ==
  LET c == w.items[i]
  IN  [w EXCEPT !.range = [type |-> c.type, start |-> c.start, count |-> c.count,
                           skip |-> c.skip, members |-> {i}],
                !.bytes = RegisterSize(c) % ByteWrap, !.prev = i]

Join(w, i) ==
  [w EXCEPT !.range.members = @ \cup {i}, !.prev = i,
            !.range.skip = LowestSkip(@, w.items[i].skip)]

Reuse(w, i) ==
  [w EXCEPT !.items[i].start = w.range.start,
            !.items[i].offset = (@ + w.items[w.prev].offset) % ByteWrap]

\* Mutant: a sensor that extends the range starts where it ends, without its own offset.
ExtendDropped(w, i) ==
  [w EXCEPT !.items[i].start = w.range.start,
            !.items[i].offset = w.bytes,
            !.bytes = (@ + RegisterSize(w.items[i])) % ByteWrap,
            !.range.count = (@ + w.items[i].count) % ByteWrap]

Extend(w, i) ==
  [w EXCEPT !.items[i].start = w.range.start,
            !.items[i].offset = (@ + w.bytes) % ByteWrap,
            !.bytes = (@ + RegisterSize(w.items[i])) % ByteWrap,
            !.range.count = (@ + w.items[i].count) % ByteWrap]

Place(w, i) ==
  LET c == w.items[i]
  IN  IF w.range.count = 0 THEN Open(w, i)
      ELSE IF Mergeable(w, c) /\ Reuses(w, c) THEN Join(Reuse(w, i), i)
      ELSE IF Mergeable(w, c) /\ Extends(w, c) THEN Join(Extend(w, i), i)
      ELSE IF Belongs(w, c) THEN Join(w, i)
      ELSE Open([w EXCEPT !.done = Append(@, w.range)], i)

\* The rewritten items and the ranges.  An item moves in the set when it is rewritten,
\* but not past one that is still to come, as long as no two items of one address have
\* an offset of their own: the walk follows the order the items had at first.
Walk(items) ==
  LET walk[n \in 0..Len(items)] == IF n = 0 THEN Start(items) ELSE Place(walk[n - 1], InOrder(items)[n])
  IN  walk[Len(items)]
CreateRegisterRanges(items) ==
  LET last == Walk(items)
  IN  [items |-> last.items,
       ranges |-> IF last.range.count > 0 THEN Append(last.done, last.range) ELSE last.done]

\* find_sensors_: the sensors of the first range of this type and start.
FindSensors(ranges, type, start) ==
  LET found == {n \in DOMAIN ranges : ranges[n].type = type /\ ranges[n].start = start}
  IN  IF found = {} THEN {} ELSE ranges[CHOOSE n \in found : \A k \in found : n <= k].members
=============================================================================
