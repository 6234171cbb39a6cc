------------------------------ MODULE OsalNvInv ------------------------------
(***************************************************************************)
(* What is proved about OsalNv to hold in every state: NvInv, about the    *)
(* room on the pages; StoreOK, about the values of the items, where writes *)
(* do not read back wrong; and HotOK, about the places kept of hot items.  *)
(***************************************************************************)
EXTENDS OsalNv

-----------------------------------------------------------------------------
(* The room on the pages.                                                  *)

\* The flash operations, and the calls.
Ops == [op : {"xfer", "use", "erase"}, pg : Pages]
       \cup [op : {"mark", "zero"}, pg : Pages, k : Nat \ {0}]
       \cup [op : {"head"}, pg : Pages, id : Ids, copy : BOOLEAN]
       \cup [op : {"seal"}, pg : Pages, val : Values \cup {Blank}, copy : BOOLEAN]
       \cup [op : {"copy"}, pg : Pages, k : Nat \ {0}, to : Pages,
             skip : Ids \cup {Nothing}]
Calls == [id : Ids \cup {Nothing}, val : Values \cup {Nothing},
          src : (Pages \X (Nat \ {0})) \cup {Nothing}, com : Pages \cup {Nothing},
          ok : BOOLEAN]
Boots == [old : Pages \cup {Nothing}, pass : {"first", "second", "third"},
          pg : 1 .. OSAL_NV_PAGES_USED + 1, k : Nat \ {0}, lost : Nat]

\* An item that is not zeroed has the length of its id.
Sized(item) == item.id # Nothing => item.len = Size[item.id]
ItemsSized == \A p \in Pages : \A k \in 1 .. Len(flash[p].items) : Sized(flash[p].items[k])

Types == /\ TypeOK /\ ItemsSized
         /\ todo \in Seq(Ops) /\ call \in Calls /\ boot \in Boots

TotalOn(p) == Total(flash[p].items)
LostOn(p) == Lost(flash[p].items)

PagesFit == \A p \in Pages : TotalOn(p) <= PageSize

\* pgOff and pgLost of a page may be off by what a bad header has blown away.
Counted(p) == /\ TotalOn(p) <= pgOff[p]
              /\ pgLost[p] <= LostOn(p) + pgOff[p] - TotalOn(p)

CountsOK ==
  /\ pc = "headers" => \A p \in Pages : pgOff[p] = 0
  /\ pc = "walk" => \A p \in Pages : boot.pass = "third" \/ p < boot.pg => Counted(p)
  /\ pc \in {"last", "idle", "call"} => \A p \in Pages : Counted(p)

\* initPage has not counted more than there is.
WalkOK ==
  pc = "walk" /\ boot.pg \in Pages =>
    /\ boot.k <= Len(flash[boot.pg].items) + 1
    /\ boot.lost <= LostIn(flash[boot.pg].items, 1, boot.k - 1)

HeadersOK ==
  pc = "headers" => /\ boot.old # Nothing => boot.old < boot.pg
                    /\ pgRes # Nothing => pgRes < boot.pg
                    /\ boot.old # Nothing => boot.old # pgRes

\* What is still to be copied of a page.
CopyRoom(items, k, skip) ==
  SumTo([j \in DOMAIN items |-> IF k <= j /\ Goes(items[j], skip) THEN items[j].len ELSE 0],
        Len(items))

\* The pages an operation writes items on, and the room it takes there.
Targets(op) == IF op.op \in {"head", "seal"} THEN {op.pg}
               ELSE IF op.op = "copy" THEN {op.to} ELSE {}
Room(fl, op, p) ==
  IF op.op = "head" /\ op.pg = p THEN Size[op.id]
  ELSE IF op.op = "copy" /\ op.to = p THEN CopyRoom(fl[op.pg].items, op.k, op.skip)
  ELSE 0
Planned(fl, ops, p) == SumTo([i \in DOMAIN ops |-> Room(fl, ops[i], p)], Len(ops))

RoomOK == \A p \in Pages : pgOff[p] + Planned(flash, todo, p) <= PageSize

\* Items are written on pages whose end is known, and not on one they are
\* copied from.
Clear(p) == TotalOn(p) <= pgOff[p] \/ (Head(todo).op = "erase" /\ Head(todo).pg = p)
TargetsOK == \A op \in ToSet(todo) : \A p \in Targets(op) : Clear(p)
SourcesOK ==
  \A op, other \in ToSet(todo) : op.op = "copy" => op.pg \notin Targets(other)

\* An item is zeroed last, and is there to be zeroed.
ZeroesOK ==
  \A i \in DOMAIN todo : todo[i].op = "zero" =>
    /\ i = Len(todo)
    /\ todo[i].k \in DOMAIN flash[todo[i].pg].items
    /\ flash[todo[i].pg].items[todo[i].k].id # Nothing
    /\ \A op \in ToSet(todo) : op.op = "erase" => op.pg # todo[i].pg

\* A page is erased and will be left alone; or is to be erased, and then left
\* alone.
Touches(op, p) == op.op = "erase" \/ op.pg = p \/ p \in Targets(op)
Ready == /\ pgRes \in Pages /\ flash[pgRes] = Erased /\ pgOff[pgRes] = 0
         /\ \A op \in ToSet(todo) : ~ Touches(op, pgRes)
ToCome(ops) ==
  \E e \in DOMAIN ops :
    ops[e].op = "erase" /\ \A j \in e + 1 .. Len(ops) : ~ Touches(ops[j], ops[e].pg)

ReserveOK ==
  /\ \/ Ready \/ ToCome(todo) \/ pc = "headers"
     \/ pgRes = Nothing /\ todo = <<>> /\ pc \in {"recover", "walk"}
  /\ pc = "call" /\ call.com = Nothing => Ready

\* Only a call and a recovery write items; a call copies if it compacts a page,
\* and a recovery only copies.
Writes(op) == op.op \in {"head", "seal", "copy"}
Copying(op) == op.op = "copy" \/ (op.op \in {"head", "seal"} /\ op.copy)
PhaseOK ==
  /\ pc \in {"headers", "walk", "idle"} => todo = <<>>
  /\ \A op \in ToSet(todo) : Writes(op) =>
       /\ pgRes \in Pages /\ pc \in {"call", "recover"}
       /\ pc = "recover" => Copying(op)
       /\ pc = "call" /\ Copying(op) => call.com # Nothing

NvInv == /\ Types /\ PagesFit /\ CountsOK /\ WalkOK /\ HeadersOK
         /\ RoomOK /\ TargetsOK /\ SourcesOK /\ ZeroesOK /\ ReserveOK /\ PhaseOK

\* What a flash and a page are.
Flashes == [Pages -> [inUse : BOOLEAN, xfer : BOOLEAN, items : Seq(Item)]]
PageType == [inUse : BOOLEAN, xfer : BOOLEAN, items : Seq(Item)]

-----------------------------------------------------------------------------
(* The copies of an item, and its value.                                   *)

Copy(fl, p, k, id) ==
  /\ p \in Pages /\ k \in DOMAIN fl[p].items
  /\ fl[p].inUse /\ fl[p].items[k].id = id /\ fl[p].items[k].val # Blank
Live(fl, p, k, id) == Copy(fl, p, k, id) /\ fl[p].items[k].stat = "live"
SomeCopy(fl, id) == \E p \in Pages : \E k \in DOMAIN fl[p].items : Copy(fl, p, k, id)
SomeLive(fl, id) == \E p \in Pages : \E k \in DOMAIN fl[p].items : Live(fl, p, k, id)

\* An item has one copy, or one of either kind.
SingleFor(fl, id) ==
  \A p, q \in Pages : \A j \in DOMAIN fl[p].items, k \in DOMAIN fl[q].items :
    Copy(fl, p, j, id) /\ Copy(fl, q, k, id) => p = q /\ j = k
OneFor(fl, id) ==
  \A p, q \in Pages : \A j \in DOMAIN fl[p].items, k \in DOMAIN fl[q].items :
    /\ Copy(fl, p, j, id) /\ Copy(fl, q, k, id)
    /\ fl[p].items[j].stat = fl[q].items[k].stat
    => p = q /\ j = k
Single(fl) == \A id \in Ids : SingleFor(fl, id)
OneOfAKind(fl) == \A id \in Ids : OneFor(fl, id)

\* Recoverable in the flash fl.
CopiesOf(fl, id, stat) ==
  {place \in UNION {{<<p, k>> : k \in {j \in DOMAIN fl[p].items :
                                        /\ fl[p].items[j].id = id
                                        /\ fl[p].items[j].stat = stat}} : p \in Pages} :
     fl[place[1]].inUse /\ fl[place[1]].items[place[2]].val # Blank}
ValueAt(fl, place) == fl[place[1]].items[place[2]].val
Value(fl, id) ==
  CASE CopiesOf(fl, id, "live") # {} -> ValueAt(fl, First(CopiesOf(fl, id, "live")))
    [] CopiesOf(fl, id, "live") = {} /\ CopiesOf(fl, id, "xfer") # {} ->
         ValueAt(fl, First(CopiesOf(fl, id, "xfer")))
    [] OTHER -> Nothing

\* The value of an item is that of its live copy, or else of its copy.
Holds(fl, id, v) ==
  \/ \E p \in Pages : \E k \in DOMAIN fl[p].items :
       Live(fl, p, k, id) /\ fl[p].items[k].val = v
  \/ /\ ~ SomeLive(fl, id)
     /\ \E p \in Pages : \E k \in DOMAIN fl[p].items :
          Copy(fl, p, k, id) /\ fl[p].items[k].val = v
  \/ ~ SomeCopy(fl, id) /\ v = Nothing

\* The same copies, of which some may have been marked.
SameFor(fl, new, id) ==
  /\ \A p, k : Copy(new, p, k, id) <=> Copy(fl, p, k, id)
  /\ \A p, k : Copy(fl, p, k, id) => new[p].items[k].val = fl[p].items[k].val

\* Some marked copies less, of an item that has a newer one.
DropsFor(fl, new, id) ==
  /\ \A p, k : Copy(new, p, k, id) =>
       /\ Copy(fl, p, k, id) /\ new[p].items[k].val = fl[p].items[k].val
       /\ new[p].items[k].stat = fl[p].items[k].stat
  /\ \A p, k : Copy(fl, p, k, id) /\ ~ Copy(new, p, k, id) =>
       ~ Live(fl, p, k, id) /\ SomeLive(fl, id)

-----------------------------------------------------------------------------
(* The pages.                                                              *)

Spare(fl, r) == r \in Pages /\ ~ fl[r].inUse /\ \A p \in Pages \ {r} : fl[p].inUse
AllUsed(fl) == \A p \in Pages : fl[p].inUse
Unmarked(fl) == \A p \in Pages : fl[p].inUse => ~ fl[p].xfer
OnlyMarked(fl, c) == c \in Pages /\ \A p \in Pages : fl[p].inUse => (fl[p].xfer <=> p = c)

\* Only an item that has its data is marked; and all items have.
Sealed(fl) ==
  \A p \in Pages : \A k \in DOMAIN fl[p].items :
    fl[p].items[k].stat = "xfer" => fl[p].items[k].val # Blank
NoBlanks(fl) ==
  \A p \in Pages : \A k \in DOMAIN fl[p].items :
    fl[p].inUse /\ fl[p].items[k].id # Nothing => fl[p].items[k].val # Blank

\* Page c can be erased: there are newer copies of its items.
Superseded(fl, c) ==
  \A k \in DOMAIN fl[c].items : \A id \in Ids :
    Copy(fl, c, k, id) => fl[c].items[k].stat = "xfer" /\ SomeLive(fl, id)

\* The flash whatever a reset has interrupted.
FlashOK(fl) ==
  /\ OneOfAKind(fl) /\ Sealed(fl)
  /\ \A p, q \in Pages : p # q /\ ~ fl[p].inUse /\ ~ fl[q].inUse => fl[p] = Erased
  /\ \A p, q \in Pages : fl[p].inUse /\ fl[q].inUse /\ fl[p].xfer /\ fl[q].xfer => p = q
  /\ AllUsed(fl) => \E c \in Pages : fl[c].xfer /\ Superseded(fl, c)
  /\ ~ AllUsed(fl) /\ (\E c \in Pages : fl[c].inUse /\ fl[c].xfer) => Single(fl)

-----------------------------------------------------------------------------
(* What the flash operations do to a page, ...                             *)

Others(fl, new, p) == p \in Pages /\ \A q \in Pages : q # p => new[q] = fl[q]
SameHeader(fl, new, p) == new[p].inUse = fl[p].inUse /\ new[p].xfer = fl[p].xfer
SameSlots(fl, new, p) == DOMAIN new[p].items = DOMAIN fl[p].items

MarksPage(fl, new, p) ==
  Others(fl, new, p) /\ new[p].inUse = fl[p].inUse /\ new[p].xfer
  /\ new[p].items = fl[p].items
Uses(fl, new, p) ==
  Others(fl, new, p) /\ new[p].inUse /\ new[p].xfer = fl[p].xfer
  /\ new[p].items = fl[p].items
Erases(fl, new, p) == Others(fl, new, p) /\ new[p] = Erased
Marks(fl, new, p, k) ==
  /\ Others(fl, new, p) /\ SameHeader(fl, new, p) /\ SameSlots(fl, new, p)
  /\ \A j \in DOMAIN fl[p].items :
       /\ new[p].items[j].id = fl[p].items[j].id
       /\ new[p].items[j].val = fl[p].items[j].val
       /\ new[p].items[j].stat = IF j = k THEN "xfer" ELSE fl[p].items[j].stat
Clears(fl, new, p, k) ==
  /\ Others(fl, new, p) /\ SameHeader(fl, new, p) /\ SameSlots(fl, new, p)
  /\ k \in DOMAIN fl[p].items /\ new[p].items[k].id = Nothing
  /\ new[p].items[k].stat = "live"
  /\ \A j \in DOMAIN fl[p].items : j # k => new[p].items[j] = fl[p].items[j]
Adds(fl, new, p, id) ==
  /\ Others(fl, new, p) /\ SameHeader(fl, new, p)
  /\ Len(new[p].items) = Len(fl[p].items) + 1
  /\ \A j \in 1 .. Len(fl[p].items) : new[p].items[j] = fl[p].items[j]
  /\ new[p].items[Len(fl[p].items) + 1].id = id
  /\ new[p].items[Len(fl[p].items) + 1].stat = "live"
  /\ new[p].items[Len(fl[p].items) + 1].val = Blank
Fills(fl, new, p, v) ==
  /\ Others(fl, new, p) /\ SameHeader(fl, new, p) /\ SameSlots(fl, new, p)
  /\ Len(new[p].items) = Len(fl[p].items)
  /\ \A j \in DOMAIN fl[p].items :
       /\ j # Len(fl[p].items) => new[p].items[j] = fl[p].items[j]
       /\ new[p].items[j].id = fl[p].items[j].id
       /\ new[p].items[j].stat = fl[p].items[j].stat
       /\ j = Len(fl[p].items) => new[p].items[j].val = v

-----------------------------------------------------------------------------
(* ... to the copies and to the values.                                    *)

SameCopies(fl, new) == \A id \in Ids : SameFor(fl, new, id)
OnlyDrops(fl, new) == \A id \in Ids : DropsFor(fl, new, id)
SameValues(fl, new) == \A id \in Ids : Value(new, id) = Value(fl, id)

Commits(fl, new, id, v) ==
  \A x \in Ids : Value(new, x) = IF x = id THEN v ELSE Value(fl, x)

\* One copy of each item, without those on page c or at src.
Sole(fl, c, src) ==
  \A id \in Ids : \A p, q \in Pages : \A j \in DOMAIN fl[p].items, k \in DOMAIN fl[q].items :
    /\ Copy(fl, p, j, id) /\ Copy(fl, q, k, id)
    /\ p # c /\ q # c /\ <<p, j>> # src /\ <<q, k>> # src
    => p = q /\ j = k
NewThere(fl, c, src, id, v) ==
  \E p \in Pages : \E k \in DOMAIN fl[p].items :
    Live(fl, p, k, id) /\ fl[p].items[k].val = v /\ p # c /\ <<p, k>> # src

-----------------------------------------------------------------------------
(* A page is compacted: what has been carried along, and what is next.     *)

Takes(fl, c, j, skip) == j \in DOMAIN fl[c].items /\ Goes(fl[c].items[j], skip)

\* The first m items of page r are copies of those of the first n of c that go
\* along.
Carried(fl, c, n, r, m, skip) ==
  /\ \A j \in 1 .. n : Takes(fl, c, j, skip) =>
       /\ fl[c].items[j].stat = "xfer"
       /\ \E i \in 1 .. m : fl[r].items[i].id = fl[c].items[j].id
  /\ \A i \in 1 .. m :
       /\ fl[r].items[i].stat = "live"
       /\ \E j \in 1 .. n : /\ Takes(fl, c, j, skip)
                            /\ fl[r].items[i].id = fl[c].items[j].id
                            /\ fl[r].items[i].val = fl[c].items[j].val
  /\ \A i, l \in 1 .. m : fl[r].items[i].id = fl[r].items[l].id => i = l

\* Page r is ready to take the place of page c, with value v for item id.
Filled(fl, c, r, id, v) ==
  /\ \A i \in DOMAIN fl[r].items :
       /\ fl[r].items[i].stat = "live" /\ fl[r].items[i].val # Blank
       /\ fl[r].items[i].id \in Ids
       /\ \/ fl[r].items[i].id = id /\ fl[r].items[i].val = v
          \/ /\ fl[r].items[i].id # id
             /\ \E j \in DOMAIN fl[c].items : /\ Copy(fl, c, j, fl[r].items[i].id)
                                              /\ fl[r].items[i].val = fl[c].items[j].val
  /\ \A i, l \in DOMAIN fl[r].items : fl[r].items[i].id = fl[r].items[l].id => i = l
  /\ \A j \in DOMAIN fl[c].items : \A x \in Ids :
       Copy(fl, c, j, x) => /\ fl[c].items[j].stat = "xfer"
                            /\ \E i \in DOMAIN fl[r].items : fl[r].items[i].id = x
  /\ id \in Ids => \E i \in DOMAIN fl[r].items : fl[r].items[i].id = id

AllCarried(fl, c, r, m, skip) ==
  /\ \A i \in 1 .. m :
       /\ fl[r].items[i].stat = "live" /\ fl[r].items[i].val # Blank
       /\ fl[r].items[i].id \in Ids /\ fl[r].items[i].id # skip
       /\ \E j \in DOMAIN fl[c].items : /\ Copy(fl, c, j, fl[r].items[i].id)
                                        /\ fl[r].items[i].val = fl[c].items[j].val
  /\ \A j, x : Copy(fl, c, j, x) /\ x \in Ids /\ x # skip =>
       /\ fl[c].items[j].stat = "xfer"
       /\ \E i \in 1 .. m : fl[r].items[i].id = x
  /\ \A i, l \in 1 .. m : fl[r].items[i].id = fl[r].items[l].id => i = l

\* Page c is being compacted to page r.
Compacting(fl, c, r) ==
  /\ Spare(fl, r) /\ ~ fl[r].xfer /\ OnlyMarked(fl, c) /\ fl[c].inUse
  /\ Single(fl) /\ Sealed(fl)

\* The loop has come to item k; it has marked it; it has written its header.
Onward(c, r, skip, k, rest) == Copies(c, k, r, skip) \o rest
Sealing(fl, c, r, skip, k, rest) ==
  Seal(r, fl[c].items[k].val, TRUE) \o Onward(c, r, skip, k + 1, rest)
Heading(fl, c, r, skip, k, rest) ==
  WriteItem(r, fl[c].items[k].id, TRUE) \o Sealing(fl, c, r, skip, k, rest)

\* The last item of page p is one of that name, still without its data.
BlankLast(fl, p, id) ==
  LET n == Len(fl[p].items)
  IN  /\ n > 0 /\ fl[p].items[n].id = id /\ fl[p].items[n].stat = "live"
      /\ fl[p].items[n].val = Blank

AtCopy(fl, td, c, r, skip, rest, k) ==
  /\ k \in 1 .. Len(fl[c].items) + 1
  /\ td = Onward(c, r, skip, k, rest)
  /\ Carried(fl, c, k - 1, r, Len(fl[r].items), skip)
AtMark(fl, td, c, r, skip, rest, k) ==
  /\ k \in 1 .. Len(fl[c].items) /\ Goes(fl[c].items[k], skip)
  /\ fl[c].items[k].stat = "live"
  /\ td = ItemOp("mark", <<c, k>>) \o Heading(fl, c, r, skip, k, rest)
  /\ Carried(fl, c, k - 1, r, Len(fl[r].items), skip)
AtHead(fl, td, c, r, skip, rest, k) ==
  /\ k \in 1 .. Len(fl[c].items) /\ Goes(fl[c].items[k], skip)
  /\ fl[c].items[k].stat = "xfer"
  /\ td = Heading(fl, c, r, skip, k, rest)
  /\ Carried(fl, c, k - 1, r, Len(fl[r].items), skip)
AtSeal(fl, td, c, r, skip, rest, k) ==
  /\ k \in 1 .. Len(fl[c].items) /\ Goes(fl[c].items[k], skip)
  /\ fl[c].items[k].stat = "xfer"
  /\ td = Sealing(fl, c, r, skip, k, rest)
  /\ BlankLast(fl, r, fl[c].items[k].id)
  /\ Carried(fl, c, k - 1, r, Len(fl[r].items) - 1, skip)
Looping(fl, td, c, r, skip, rest) ==
  \E k \in 1 .. Len(fl[c].items) + 1 :
    \/ AtCopy(fl, td, c, r, skip, rest, k) \/ AtMark(fl, td, c, r, skip, rest, k)
    \/ AtHead(fl, td, c, r, skip, rest, k) \/ AtSeal(fl, td, c, r, skip, rest, k)
Looped(fl, td, c, r, skip, rest) ==
  td = rest /\ Carried(fl, c, Len(fl[c].items), r, Len(fl[r].items), skip)

\* What the steps of the loop leave alone.
LoopKeeps(fl, new, c, r, skip) ==
  /\ Compacting(new, c, r) /\ SameValues(fl, new)
  /\ \A p, k, id : Copy(new, p, k, id) <=> Copy(fl, p, k, id)
  /\ NoBlanks(fl) => NoBlanks(new)
  /\ \A p, k : Copy(fl, p, k, skip) => new[p].items[k].stat = fl[p].items[k].stat

\* Calls and initNV go on; only an erase moves the reserve page.
Ongoing == pc' = pc /\ call' = call /\ boot' = boot /\ pgRes' = pgRes

-----------------------------------------------------------------------------
(* The recovery.                                                           *)

\* No page is being compacted.
AtRest(fl, r) == Spare(fl, r) /\ Unmarked(fl) /\ OneOfAKind(fl) /\ Sealed(fl)
Settled(fl, r) == AtRest(fl, r) /\ Single(fl) /\ NoBlanks(fl)

\* A compaction has been interrupted; a compacted page has been replaced.
Interrupted(fl, c, r) ==
  Spare(fl, r) /\ OnlyMarked(fl, c) /\ fl[c].inUse /\ Single(fl) /\ Sealed(fl)
Replaced(fl, c) ==
  AllUsed(fl) /\ OnlyMarked(fl, c) /\ Superseded(fl, c) /\ OneOfAKind(fl) /\ Sealed(fl)

\* A page that is being erased holds nothing that is not also elsewhere.
Erasable(fl, p) == FlashOK(fl) /\ (Spare(fl, p) \/ Replaced(fl, p))

\* COMPACT_PAGE_CLEANUP.
CleanedUp(c, r) == Op("use", r) \o Op("erase", c)

\* Nothing is left to do, the reserve page is to be erased, or the page it has replaced
\* is; the compaction that a reset has interrupted is to begin again, is being repeated,
\* or has been.
Recovered(fl, td, r) == td = <<>> /\ AtRest(fl, r)
Clearing(fl, td, r) == td = Op("erase", r) /\ AtRest(fl, r)
Dropping(fl, td) == \E c \in Pages : td = Op("erase", c) /\ Replaced(fl, c)
Restarting(fl, td, r) ==
  \E c \in Pages :
    /\ Interrupted(fl, c, r)
    /\ td = Op("erase", r) \o (Copies(c, 1, r, Nothing) \o CleanedUp(c, r))
Repeating(fl, td, r) ==
  \E c \in Pages :
    /\ Compacting(fl, c, r)
    /\ Looping(fl, td, c, r, Nothing, CleanedUp(c, r))
Repeated(fl, td, r) ==
  \E c \in Pages :
    /\ Compacting(fl, c, r)
    /\ Looped(fl, td, c, r, Nothing, CleanedUp(c, r))

\* A recovery in progress, and one that has done its first flash operation.
Resumed(fl, td, r) ==
  Recovered(fl, td, r) \/ Dropping(fl, td) \/ Repeating(fl, td, r) \/ Repeated(fl, td, r)
Recovering(fl, td, r) ==
  Clearing(fl, td, r) \/ Restarting(fl, td, r) \/ Resumed(fl, td, r)

SameCall == pc' = pc /\ call' = call /\ boot' = boot

-----------------------------------------------------------------------------
(* A call: what it still has to do when page r is the reserve page.  The   *)
(* new item goes to page q.                                                *)

Stat(fl, place) == fl[place[1]].items[place[2]].stat
CopyAt(fl, place, id) == Copy(fl, place[1], place[2], id)

\* The plan of osal_nv_write and initItem, from its end to its beginning: the old item
\* is zeroed, unless its page goes; the compacted page is replaced and erased; the data
\* is written; the old item is marked; the header is written.
Zeroing(cl) ==
  IF cl.src = Nothing \/ cl.src[1] = cl.com THEN <<>> ELSE ItemOp("zero", cl.src)
Ending(r, cl) ==
  IF cl.com = Nothing THEN Zeroing(cl)
  ELSE Op("use", r) \o (Op("erase", cl.com) \o Zeroing(cl))
Marking(fl, cl) ==
  IF cl.src # Nothing /\ Stat(fl, cl.src) = "live" THEN ItemOp("mark", cl.src) ELSE <<>>
Data(q, r, cl) == Seal(q, cl.val, FALSE) \o Ending(r, cl)
MarkAndData(fl, q, r, cl) == Marking(fl, cl) \o Data(q, r, cl)
NewItem(fl, q, r, cl) == WriteItem(q, cl.id, FALSE) \o MarkAndData(fl, q, r, cl)

\* The item as the call has found it.
SourceOK(fl, cl) ==
  IF cl.src = Nothing THEN ~ SomeCopy(fl, cl.id) ELSE CopyAt(fl, cl.src, cl.id)
Marked(fl, cl) == cl.src # Nothing => Stat(fl, cl.src) = "xfer"

\* Only the last item of page q can be without its data.
OnlyBlank(fl, q) ==
  \A p \in Pages : \A k \in DOMAIN fl[p].items :
    fl[p].inUse /\ fl[p].items[k].id # Nothing /\ fl[p].items[k].val = Blank =>
      p = q /\ k = Len(fl[q].items)

\* How far the call has come.  Without a compaction, the header is to be written, or it
\* has been and the data is to follow.
Adding(fl, td, r, cl) ==
  /\ cl.com = Nothing /\ Settled(fl, r) /\ SourceOK(fl, cl)
  /\ \E q \in Pages \ {r} : td = NewItem(fl, q, r, cl)
Added(fl, td, r, cl) ==
  /\ cl.com = Nothing /\ AtRest(fl, r) /\ Single(fl) /\ SourceOK(fl, cl)
  /\ \E q \in Pages \ {r} :
       td = MarkAndData(fl, q, r, cl) /\ BlankLast(fl, q, cl.id) /\ OnlyBlank(fl, q)
\* With one: the page is to be marked, its items are being carried along, or all of
\* them have been; the header of the new item is on the reserve page, or its data too.
MakingRoom(fl, td, r, cl) ==
  /\ cl.com \in Pages \ {r} /\ Settled(fl, r) /\ SourceOK(fl, cl)
  /\ fl[r].items = <<>> /\ ~ fl[r].xfer
  /\ td = Op("xfer", cl.com) \o (Copies(cl.com, 1, r, cl.id) \o NewItem(fl, r, r, cl))
Transferring(fl, r, cl) ==
  cl.com \in Pages /\ Compacting(fl, cl.com, r) /\ NoBlanks(fl) /\ SourceOK(fl, cl)
Moving(fl, td, r, cl) ==
  Transferring(fl, r, cl) /\ Looping(fl, td, cl.com, r, cl.id, NewItem(fl, r, r, cl))
Moved(fl, td, r, cl) ==
  Transferring(fl, r, cl) /\ Looped(fl, td, cl.com, r, cl.id, NewItem(fl, r, r, cl))
MovedAndAdded(fl, td, r, cl) ==
  /\ Transferring(fl, r, cl) /\ td = MarkAndData(fl, r, r, cl) /\ BlankLast(fl, r, cl.id)
  /\ Carried(fl, cl.com, Len(fl[cl.com].items), r, Len(fl[r].items) - 1, cl.id)
Replacing(fl, td, r, cl) ==
  /\ Transferring(fl, r, cl) /\ Marked(fl, cl) /\ td = Ending(r, cl)
  /\ Filled(fl, cl.com, r, cl.id, cl.val)
\* The new item counts: what is left of the old one is on the page to erase, or marked
\* at its source, and then there is nothing left of it.
OldOnPage(fl, td, cl) ==
  /\ cl.com \in Pages /\ Replaced(fl, cl.com) /\ NoBlanks(fl)
  /\ td = Op("erase", cl.com) \o Zeroing(cl)
  /\ Sole(fl, cl.com, cl.src) /\ NewThere(fl, cl.com, cl.src, cl.id, cl.val)
  /\ cl.src # Nothing /\ cl.src[1] # cl.com =>
       CopyAt(fl, cl.src, cl.id) /\ Stat(fl, cl.src) = "xfer"
OldLeft(fl, td, r, cl) ==
  /\ AtRest(fl, r) /\ NoBlanks(fl) /\ td = ItemOp("zero", cl.src)
  /\ Sole(fl, Nothing, cl.src) /\ NewThere(fl, Nothing, cl.src, cl.id, cl.val)
  /\ cl.src # Nothing /\ CopyAt(fl, cl.src, cl.id) /\ Stat(fl, cl.src) = "xfer"
Done(fl, td, r, cl) ==
  td = <<>> /\ Settled(fl, r) /\ Value(fl, cl.id) = cl.val
Deleting(fl, td, r, cl) ==
  /\ cl.val = Nothing /\ Settled(fl, r)
  /\ \E p \in Pages : \E k \in DOMAIN fl[p].items :
       td = ItemOp("zero", <<p, k>>) /\ Copy(fl, p, k, cl.id)

\* A call in progress.
Calling(fl, td, r, cl) ==
  /\ cl.id \in Ids
  /\ \/ Deleting(fl, td, r, cl) \/ Done(fl, td, r, cl)
     \/ /\ cl.val \in Values
        /\ \/ Adding(fl, td, r, cl) \/ Added(fl, td, r, cl) \/ MakingRoom(fl, td, r, cl)
           \/ Moving(fl, td, r, cl) \/ Moved(fl, td, r, cl) \/ MovedAndAdded(fl, td, r, cl)
           \/ Replacing(fl, td, r, cl) \/ OldOnPage(fl, td, cl) \/ OldLeft(fl, td, r, cl)

\* A step of a call: at most, its item gets the value it is to have.
Advances ==
  /\ SameCall /\ Calling(flash', todo', pgRes', call)
  /\ SameValues(flash, flash') \/ Commits(flash, flash', call.id, call.val)

-----------------------------------------------------------------------------
(* The start-up: the headers, the walks.                                   *)

\* The headers before b.pg have been read: b.old is a marked page, r one not in use.
ReadUpTo(fl, r, b) ==
  /\ FlashOK(fl)
  /\ r \in Pages \cup {Nothing} /\ b.old \in Pages \cup {Nothing}
  /\ \A p \in Pages : p < b.pg /\ p # r => fl[p].inUse
  /\ r # Nothing => ~ fl[r].inUse
  /\ b.old # Nothing => fl[b.old].inUse /\ fl[b.old].xfer
  /\ b.old = Nothing => \A p \in Pages : p < b.pg /\ fl[p].inUse => ~ fl[p].xfer

\* The walk has been at item k of page p.
Passed(b, p, k) == p < b.pg \/ (p = b.pg /\ k < b.k)
AllLive(fl, id) == \A p, k : Copy(fl, p, k, id) => fl[p].items[k].stat = "live"

\* What a pass leaves behind it.
Good(fl, pass, item) ==
  item.id # Nothing =>
    /\ item.val # Blank
    /\ pass = "first" => item.stat = "live"
    /\ pass = "second" /\ item.stat = "live" => AllLive(fl, item.id)
Swept(fl, b) ==
  \A p \in Pages : \A k \in DOMAIN fl[p].items :
    Passed(b, p, k) => Good(fl, b.pass, fl[p].items[k])
Sweeping(fl, r, b) ==
  /\ AtRest(fl, r)
  /\ b.pass # "third" => Swept(fl, b)
  /\ b.pass = "third" => Single(fl) /\ NoBlanks(fl)

-----------------------------------------------------------------------------
(* The contents of the flash, where no write reads back wrong.             *)

NotCalling(cl) == cl.id = Nothing /\ cl.val = Nothing

\* The inductive invariant: what the flash holds at each stage of the code.
StoreOK ==
  /\ pc # "last"
  /\ pc # "call" => NotCalling(call)
  /\ pc = "headers" => ReadUpTo(flash, pgRes, boot)
  /\ pc = "recover" => Recovering(flash, todo, pgRes)
  /\ pc = "walk" => Sweeping(flash, pgRes, boot)
  /\ pc = "idle" => Settled(flash, pgRes)
  /\ pc = "call" => Calling(flash, todo, pgRes, call)

-----------------------------------------------------------------------------
(* What a step does to the store.                                          *)

Up(stage) == stage \in {"idle", "call"}
SameBusy == call'.id = call.id /\ call'.val = call.val
Stands == SameValues(flash, flash') /\ SameBusy /\ Up(pc') = Up(pc)
ComesUp == SameValues(flash, flash') /\ SameBusy /\ ~ Up(pc) /\ Up(pc')
Resets == SameValues(flash, flash') /\ NotCalling(call') /\ ~ Up(pc')
Begins ==
  /\ SameValues(flash, flash') /\ NotCalling(call) /\ Up(pc) /\ Up(pc')
  /\ call'.id \in Ids /\ call'.val \in Values \cup {Nothing}
Advancing ==
  /\ call.id \in Ids /\ Commits(flash, flash', call.id, call.val)
  /\ SameBusy /\ Up(pc) /\ Up(pc')
Returns ==
  /\ SameValues(flash, flash') /\ call.id \in Ids /\ Value(flash, call.id) = call.val
  /\ NotCalling(call') /\ Up(pc) /\ Up(pc')
StoreStep == Stands \/ ComesUp \/ Resets \/ Begins \/ Advancing \/ Returns

\* A torn erase has taken the inUse word of the page header, if it has taken anything.
InUseGoesFirst == \A parts \in TornErases : parts # {} => "inUse" \in parts

-----------------------------------------------------------------------------
(* The places kept of hot items.                                           *)

\* An item that has its data, on a page in use or not.
SealedAt(fl, p, k, id) ==
  /\ p \in Pages /\ k \in DOMAIN fl[p].items
  /\ fl[p].items[k].id = id /\ fl[p].items[k].val # Blank

\* The place of the live one of an item, or of the only one.
Newest(fl, place, id) ==
  /\ SealedAt(fl, place[1], place[2], id)
  /\ \/ Stat(fl, place) = "live"
     \/ \A p \in Pages : \A k \in DOMAIN fl[p].items :
          SealedAt(fl, p, k, id) => <<p, k>> = place

AllCold == \A h \in HotIds : hot[h] = Nothing

\* The inductive invariant: what is kept is the newest place, so that neither the old item
\* is zeroed nor a superseded page erased under it; what initNV erases to begin with is
\* erased before anything is kept.
HotKept ==
  /\ hot \in [HotIds -> (Pages \X (Nat \ {0})) \cup {Nothing}]
  /\ \A h \in HotIds : hot[h] # Nothing => Newest(flash, hot[h], h)
HotOK ==
  /\ HotKept
  /\ pc = "headers" => AllCold
  /\ pc = "recover" /\ Doing("erase") /\ ~ flash[Step.pg].inUse => AllCold
  /\ pc = "call" /\ call.val = Nothing => call.id \notin HotIds

=============================================================================
