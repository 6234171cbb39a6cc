------------------------------- MODULE OsalNv -------------------------------
(***************************************************************************)
(* The non-volatile memory of Components/osal/mcu/cc2530/OSAL_Nv.c.        *)
(*                                                                         *)
(* Flash words can only be cleared, one write at a time; only a whole page *)
(* can be erased.  A new value of an item is therefore written behind the  *)
(* last item of a page, the old one is marked, then zeroed; when no page   *)
(* has room, the items of one page are copied to a reserve page, which     *)
(* takes its place.  A reset can come between any two flash operations,    *)
(* or tear an erase.                                                       *)
(*                                                                         *)
(* A call decides on its flash operations and then carries them out one by *)
(* one: todo holds those that are left.  An operation that reads back      *)
(* wrong replaces the rest.  Item data is written and sealed with its      *)
(* checksum in one step, since data without a valid checksum is never      *)
(* told from no data.                                                      *)
(***************************************************************************)
EXTENDS Integers, SequencesExt

CONSTANTS OSAL_NV_PAGES_USED,
          PageSize,    \* OSAL_NV_PAGE_SIZE less the page header, in some unit
          Ids, Size,   \* items; OSAL_NV_ITEM_SIZE of each, in that unit
          HotIds,      \* hotIds
          Values,
          Blank,       \* the value of an item without a valid checksum
          Nothing,     \* no value, no place, no item, no page
          TornErases,  \* what a reset in mid-erase may have erased: sets of
                       \* "inUse", "xfer" and "items"
          FlashFails   \* can a write read back wrong

Pages == 1 .. OSAL_NV_PAGES_USED

ASSUME PagesAssumption == OSAL_NV_PAGES_USED \in Nat /\ OSAL_NV_PAGES_USED > 1
ASSUME ItemsAssumption ==
  /\ PageSize \in Nat \ {0}
  /\ Size \in [Ids -> 1 .. PageSize]
  /\ HotIds \subseteq Ids
  /\ Blank \notin Values /\ Nothing \notin Values \cup Ids \cup Pages \cup {Blank}
ASSUME PlacesAssumption == Nothing \notin Pages \X (Nat \ {0})  \* page and place on it
ASSUME FlashAssumption == /\ TornErases \subseteq SUBSET {"inUse", "xfer", "items"}
                          /\ FlashFails \in BOOLEAN

VARIABLES flash,          \* the pages: header words and items
          pgOff, pgLost,  \* space used and space lost to zeroed items, by page
          pgRes,          \* the reserve page
          hot,            \* hotPg and hotOff
          pc,             \* "idle", "call", or a stage of initNV
          call,           \* the call in progress
          boot,           \* locals of initNV and initPage
          todo            \* flash operations the call has still to do

ramVars == <<pgOff, pgLost, pgRes, hot>>
codeVars == <<pc, call, boot>>
vars == <<flash, ramVars, codeVars, todo>>

\* len counts the header in; stat is "xfer" once the item is marked as the source
\* of a newer one.  Of a zeroed item only len is ever read again.
Item == [id : Ids \cup {Nothing}, len : 1 .. PageSize, stat : {"live", "xfer"},
         val : Values \cup {Blank}]
Zeroed(item) == [id |-> Nothing, len |-> item.len, stat |-> "live", val |-> Blank]
Erased == [inUse |-> FALSE, xfer |-> FALSE, items |-> <<>>]

NoCall == [id |-> Nothing, val |-> Nothing, src |-> Nothing, com |-> Nothing,
           ok |-> TRUE]
Locals == [old |-> Nothing, pass |-> "first", pg |-> 1, k |-> 1, lost |-> 0]

\* What the start-up code leaves in memory.
Startup == /\ pgOff' = [p \in Pages |-> 0] /\ pgLost' = [p \in Pages |-> 0]
           /\ pgRes' = Nothing
           /\ hot' = [id \in HotIds |-> Nothing]
           /\ pc' = "headers" /\ call' = NoCall /\ boot' = Locals /\ todo' = <<>>

Init == /\ flash = [p \in Pages |-> Erased]
        /\ pgOff = [p \in Pages |-> 0] /\ pgLost = [p \in Pages |-> 0]
        /\ pgRes = Nothing
        /\ hot = [id \in HotIds |-> Nothing]
        /\ pc = "headers" /\ call = NoCall /\ boot = Locals /\ todo = <<>>

-----------------------------------------------------------------------------
(* Looking for items.                                                      *)

\* What an item loop has added up after n rounds, of which the k-th adds f[k].
SumTo(f, n) ==
  LET sum[k \in 0 .. n] == IF k = 0 THEN 0 ELSE sum[k - 1] + f[k] IN sum[n]

Total(items) == SumTo([k \in DOMAIN items |-> items[k].len], Len(items))
LostIn(items, first, last) ==
  SumTo([k \in DOMAIN items |->
           IF first <= k /\ items[k].id = Nothing THEN items[k].len ELSE 0], last)
Lost(items) == LostIn(items, 1, Len(items))
ItemAt(place) == flash[place[1]].items[place[2]]

Places(id, stat) ==
  UNION {{<<p, k>> : k \in {j \in DOMAIN flash[p].items :
                              /\ flash[p].items[j].id = id
                              /\ flash[p].items[j].stat = stat}} : p \in Pages}

First(places) ==
  CHOOSE a \in places :
    \A b \in places : a[1] < b[1] \/ (a[1] = b[1] /\ a[2] <= b[2])

\* findItem: a live item before one that was being replaced, whether or not
\* its checksum is good.
findItem(id) ==
  CASE Places(id, "live") # {} -> First(Places(id, "live"))
    [] Places(id, "live") = {} /\ Places(id, "xfer") # {} ->
         First(Places(id, "xfer"))
    [] OTHER -> Nothing

\* initPage recounts each page it walks to the end: those before the one
\* where the search stops.
Walked(id, stats) ==
  LET found == UNION {Places(id, stat) : stat \in stats}
  IN  IF found = {} THEN Pages ELSE {p \in Pages : p < First(found)[1]}

WalkedFor(id) == IF Places(id, "live") # {} THEN Walked(id, {"live"}) ELSE Pages

RecountedOff(pages) ==
  [p \in Pages |-> IF p \in pages THEN Total(flash[p].items) ELSE pgOff[p]]
RecountedLost(pages) ==
  [p \in Pages |-> IF p \in pages THEN Lost(flash[p].items) ELSE pgLost[p]]

-----------------------------------------------------------------------------
(* Flash operations, and what a call plans of them.                        *)

Op(name, p) == <<[op |-> name, pg |-> p]>>
ItemOp(name, place) == <<[op |-> name, pg |-> place[1], k |-> place[2]]>>

\* The halves of writeItem; copy tells compactPage's writes from the new item.
WriteItem(p, id, copy) ==
  <<[op |-> "head", pg |-> p, id |-> id, copy |-> copy]>>
Seal(p, v, copy) == <<[op |-> "seal", pg |-> p, val |-> v, copy |-> copy]>>

\* An item that is marked already is not marked again.
MarkXfer(place) ==
  IF ItemAt(place).stat = "live" THEN ItemOp("mark", place) ELSE <<>>

\* The loop of compactPage: the items of page p from the k-th on go to page to, but
\* not item skip, nor what is zeroed or has a bad checksum.  That the target is
\* erased, which compactPage looks at first, is ReserveErased; that the copies
\* fit there, NoOverflow.
Copies(p, k, to, skip) ==
  <<[op |-> "copy", pg |-> p, k |-> k, to |-> to, skip |-> skip]>>
Goes(item, skip) == item.id \notin {Nothing, skip} /\ item.val # Blank

\* COMPACT_PAGE_CLEANUP: the page just erased becomes the reserve page.
Cleanup(p) == Op("use", pgRes) \o Op("erase", p)

\* The page initItem takes: the first from the reserve page on that has the
\* room, counting what its zeroed items would give back.
PageFor(id, off, lost) ==
  LET fits == {p \in Pages \ {pgRes} : Size[id] <= PageSize - off[p] + lost[p]}
      far(p) == (p - pgRes - 1) % OSAL_NV_PAGES_USED
  IN  IF fits = {} THEN Nothing
      ELSE CHOOSE p \in fits : \A q \in fits : far(p) <= far(q)

MakeRoom(p, id) ==
  (IF flash[p].xfer THEN <<>> ELSE Op("xfer", p)) \o Copies(p, 1, pgRes, id)

\* initItem of a new item: on page p, or on the reserve page if p (= com) has
\* to be compacted first.
InitPlan(id, v, p, com) ==
  IF com = Nothing
  THEN WriteItem(p, id, FALSE) \o Seal(p, v, FALSE)
  ELSE MakeRoom(p, id) \o WriteItem(pgRes, id, FALSE) \o Seal(pgRes, v, FALSE)
       \o Cleanup(p)

\* mutant: the old item is zeroed before the compacted page is cleaned up
WritePlanZeroesFirst(id, v, p, com, src) ==
  LET dst == IF com = Nothing THEN p ELSE pgRes
      sealed == IF ItemAt(src).val = Blank THEN Blank ELSE v
  IN  (IF com = Nothing THEN <<>> ELSE MakeRoom(p, id))
      \o WriteItem(dst, id, FALSE) \o MarkXfer(src) \o Seal(dst, sealed, FALSE)
      \o (IF src[1] = com THEN <<>> ELSE ItemOp("zero", src))
      \o (IF com = Nothing THEN <<>> ELSE Cleanup(p))

\* osal_nv_write: as above, with the old item marked before the data is written
\* and zeroed at the very end, unless it went with its page.  The new checksum
\* is computed from the old one.
WritePlan(id, v, p, com, src) ==
  LET dst == IF com = Nothing THEN p ELSE pgRes
      sealed == IF ItemAt(src).val = Blank THEN Blank ELSE v
  IN  (IF com = Nothing THEN <<>> ELSE MakeRoom(p, id))
      \o WriteItem(dst, id, FALSE) \o MarkXfer(src) \o Seal(dst, sealed, FALSE)
      \o (IF com = Nothing THEN <<>> ELSE Cleanup(p))
      \o (IF src[1] = com THEN <<>> ELSE ItemOp("zero", src))

\* mutant: copies of a compaction given up stay on the reserve page
AbortedKeepsCopies(step) ==
  IF step.copy \/ call.com = Nothing THEN <<>>
  ELSE IF call.src # Nothing /\ call.src[1] = call.com
       THEN Op("erase", pgRes) ELSE Cleanup(call.com)

\* What is left to do when a write has read back wrong.
Aborted(step) ==
  CASE step.copy -> Op("erase", pgRes)
    [] ~ step.copy /\ call.com = Nothing -> <<>>
    [] ~ step.copy /\ call.com # Nothing ->
         IF call.src # Nothing /\ call.src[1] = call.com
         THEN Op("erase", pgRes) ELSE Cleanup(call.com)

-----------------------------------------------------------------------------
(* Carrying out the next flash operation.                                  *)

Step == Head(todo)
Doing(name) == todo # <<>> /\ Step.op = name

Zero(p, k) ==
  /\ flash' = [flash EXCEPT ![p].items[k] = Zeroed(@)]
  /\ pgLost' = [pgLost EXCEPT ![p] = @ + flash[p].items[k].len]

\* compactPage takes up its next item, if there is one.
CopyItem ==
  /\ Doing("copy")
  /\ LET items == flash[Step.pg].items
         item == items[Step.k]
         on == Copies(Step.pg, Step.k + 1, Step.to, Step.skip)
     IN  todo' = (CASE Step.k > Len(items) -> <<>>
                    [] Step.k <= Len(items) /\ ~ Goes(item, Step.skip) -> on
                    [] Step.k <= Len(items) /\ Goes(item, Step.skip) ->
                         MarkXfer(<<Step.pg, Step.k>>)
                         \o WriteItem(Step.to, item.id, TRUE)
                         \o Seal(Step.to, item.val, TRUE) \o on)
                 \o Tail(todo)
  /\ UNCHANGED <<flash, ramVars, codeVars>>

MarkPage ==
  /\ Doing("xfer")
  /\ flash' = [flash EXCEPT ![Step.pg].xfer = TRUE]
  /\ todo' = Tail(todo)
  /\ UNCHANGED <<ramVars, codeVars>>

MarkItem ==
  /\ Doing("mark")
  /\ flash' = [flash EXCEPT ![Step.pg].items[Step.k].stat = "xfer"]
  /\ todo' = Tail(todo)
  /\ UNCHANGED <<ramVars, codeVars>>

ZeroItem ==
  /\ Doing("zero")
  /\ Zero(Step.pg, Step.k)
  /\ todo' = Tail(todo)
  /\ UNCHANGED <<pgOff, pgRes, hot, codeVars>>

\* mutant: the room a header takes is left to the next walk to count
HeaderUncounted ==
  /\ Doing("head")
  /\ flash' = [flash EXCEPT ![Step.pg].items =
                 Append(@, [id |-> Step.id, len |-> Size[Step.id],
                            stat |-> "live", val |-> Blank])]
  /\ todo' = Tail(todo)
  /\ UNCHANGED <<ramVars, codeVars>>

WriteHeader ==
  /\ Doing("head")
  /\ flash' = [flash EXCEPT ![Step.pg].items =
                 Append(@, [id |-> Step.id, len |-> Size[Step.id],
                            stat |-> "live", val |-> Blank])]
  /\ pgOff' = [pgOff EXCEPT ![Step.pg] = @ + Size[Step.id]]
  /\ todo' = Tail(todo)
  /\ UNCHANGED <<pgLost, pgRes, hot, codeVars>>

\* The header reads back blank: its length would fill the page.
HeaderFails ==
  /\ FlashFails /\ Doing("head")
  /\ pgLost' = [pgLost EXCEPT ![Step.pg] = @ + PageSize - pgOff[Step.pg]]
  /\ pgOff' = [pgOff EXCEPT ![Step.pg] = PageSize]
  /\ todo' = Aborted(Step)
  /\ call' = [call EXCEPT !.ok = FALSE]
  /\ UNCHANGED <<flash, pgRes, hot, pc, boot>>

\* mutant: a compaction does not take the places of hot items along
SealLeavesHot ==
  /\ Doing("seal") /\ Step.val # Blank
  /\ LET k == Len(flash[Step.pg].items)
         id == flash[Step.pg].items[k].id
     IN  /\ flash' = [flash EXCEPT ![Step.pg].items[k].val = Step.val]
         /\ hot' = [h \in HotIds |-> IF h = id /\ ~ Step.copy
                                     THEN <<Step.pg, k>> ELSE hot[h]]
  /\ todo' = Tail(todo)
  /\ UNCHANGED <<pgOff, pgLost, pgRes, codeVars>>

\* The data and its checksum; hotItemUpdate.
SealItem ==
  /\ Doing("seal") /\ Step.val # Blank
  /\ LET k == Len(flash[Step.pg].items)
         id == flash[Step.pg].items[k].id
     IN  /\ flash' = [flash EXCEPT ![Step.pg].items[k].val = Step.val]
         /\ hot' = [h \in HotIds |-> IF h = id THEN <<Step.pg, k>> ELSE hot[h]]
  /\ todo' = Tail(todo)
  /\ UNCHANGED <<pgOff, pgLost, pgRes, codeVars>>

\* mutant: the room of an item that was not sealed is given back
SealFailsGivesBack ==
  /\ Doing("seal") /\ (FlashFails \/ Step.val = Blank)
  /\ LET item == Last(flash[Step.pg].items)
     IN  pgOff' = [pgOff EXCEPT ![Step.pg] = @ - item.len]
  /\ todo' = Aborted(Step)
  /\ call' = [call EXCEPT !.ok = FALSE]
  /\ UNCHANGED <<flash, pgLost, pgRes, hot, pc, boot>>

SealFails ==
  /\ Doing("seal") /\ (FlashFails \/ Step.val = Blank)
  /\ todo' = Aborted(Step)
  /\ call' = [call EXCEPT !.ok = FALSE]
  /\ UNCHANGED <<flash, ramVars, pc, boot>>

\* setPageUse.
UsePage ==
  /\ Doing("use")
  /\ flash' = [flash EXCEPT ![Step.pg].inUse = TRUE]
  /\ todo' = Tail(todo)
  /\ UNCHANGED <<ramVars, codeVars>>

\* erasePage: whoever calls it has, or makes, this page the reserve page.
ErasePage ==
  /\ Doing("erase")
  /\ flash' = [flash EXCEPT ![Step.pg] = Erased]
  /\ pgOff' = [pgOff EXCEPT ![Step.pg] = 0]
  /\ pgLost' = [pgLost EXCEPT ![Step.pg] = 0]
  /\ pgRes' = Step.pg
  /\ todo' = Tail(todo)
  /\ UNCHANGED <<hot, codeVars>>

Flash == \/ CopyItem \/ MarkPage \/ MarkItem \/ ZeroItem \/ WriteHeader \/ HeaderFails
         \/ SealItem \/ SealFails \/ UsePage \/ ErasePage

-----------------------------------------------------------------------------
(* The calls.                                                              *)

\* What findItem counts on its way.
Recount(id) == /\ pgOff' = RecountedOff(WalkedFor(id))
               /\ pgLost' = RecountedLost(WalkedFor(id))

\* The page initItem then takes, and the page to compact if it has to be.
Target(id) ==
  PageFor(id, RecountedOff(WalkedFor(id)), RecountedLost(WalkedFor(id)))
Compacted(id) ==
  LET p == Target(id)
  IN  IF Size[id] > PageSize - RecountedOff(WalkedFor(id))[p] THEN p ELSE Nothing

osal_nv_write(id, v) ==
  /\ pc = "idle"
  /\ findItem(id) # Nothing
  /\ ItemAt(findItem(id)).val # v
  /\ Recount(id)
  /\ LET src == findItem(id)
         com == Compacted(id)
     IN  IF Target(id) = Nothing THEN UNCHANGED <<pc, todo, call>>
         ELSE /\ todo' = WritePlan(id, v, Target(id), com, src)
              /\ call' = [id |-> id, val |-> v, src |-> src, com |-> com, ok |-> TRUE]
              /\ pc' = "call"
  /\ UNCHANGED <<flash, pgRes, hot, boot>>

\* The place kept of a hot item is trusted; any other item is searched for.
osal_nv_read(id) ==
  LET place == IF id \in HotIds THEN hot[id] ELSE findItem(id)
  IN  CASE place = Nothing -> Nothing
        [] place # Nothing ->
             IF place[2] \in DOMAIN flash[place[1]].items
             THEN ItemAt(place).val ELSE Blank

\* osal_nv_item_init of an item that exists only notes where it is, if hot.
ItemExists(id) ==
  /\ pc = "idle"
  /\ findItem(id) # Nothing
  /\ hot' = [h \in HotIds |-> IF h = id THEN findItem(id) ELSE hot[h]]
  /\ Recount(id)
  /\ UNCHANGED <<flash, pgRes, codeVars, todo>>

osal_nv_item_init(id, v) ==
  /\ pc = "idle"
  /\ findItem(id) = Nothing
  /\ Recount(id)
  /\ IF Target(id) = Nothing THEN UNCHANGED <<pc, todo, call>>
     ELSE /\ todo' = InitPlan(id, v, Target(id), Compacted(id))
          /\ call' = [id |-> id, val |-> v, src |-> Nothing,
                      com |-> Compacted(id), ok |-> TRUE]
          /\ pc' = "call"
  /\ UNCHANGED <<flash, pgRes, hot, boot>>

\* A read, a write that changes nothing or finds nothing: a walk and no more.
Lookup(id) ==
  /\ pc = "idle"
  /\ Recount(id)
  /\ UNCHANGED <<flash, pgRes, hot, codeVars, todo>>

\* Nothing deletes a hot item.
osal_nv_delete(id) ==
  /\ pc = "idle"
  /\ id \notin HotIds
  /\ findItem(id) # Nothing
  /\ Recount(id)
  /\ todo' = ItemOp("zero", findItem(id))
  /\ pc' = "call"
  /\ call' = [NoCall EXCEPT !.id = id]
  /\ UNCHANGED <<flash, pgRes, hot, boot>>

\* A delete looks whether the item is gone.
Return ==
  /\ pc = "call" /\ todo = <<>>
  /\ pc' = "idle" /\ call' = NoCall
  /\ IF call.val # Nothing THEN UNCHANGED <<pgOff, pgLost>> ELSE Recount(call.id)
  /\ UNCHANGED <<flash, pgRes, hot, boot, todo>>

-----------------------------------------------------------------------------
(* initNV.                                                                 *)

ReadHeader ==
  /\ pc = "headers" /\ boot.pg \in Pages
  /\ LET p == boot.pg
     IN  /\ pgRes' = IF ~ flash[p].inUse /\ pgRes = Nothing THEN p ELSE pgRes
         /\ flash' = [flash EXCEPT ![p].inUse = @ \/ pgRes # Nothing]
         /\ boot' = [boot EXCEPT !.pg = p + 1,
                       !.old = IF flash[p].inUse /\ flash[p].xfer THEN p ELSE @]
  /\ UNCHANGED <<pgOff, pgLost, hot, pc, call, todo>>

\* A page was being compacted: start over, unless the copies are in use
\* already and only the page is left to erase.  Otherwise an erase of the
\* reserve page may have been torn.
Recover ==
  /\ pc = "headers" /\ boot.pg \notin Pages
  /\ todo' = CASE boot.old = Nothing /\ pgRes = Nothing -> <<>>
               [] boot.old = Nothing /\ pgRes # Nothing -> Op("erase", pgRes)
               [] boot.old # Nothing /\ pgRes = Nothing -> Op("erase", boot.old)
               [] boot.old # Nothing /\ pgRes # Nothing ->
                    Op("erase", pgRes) \o Copies(boot.old, 1, pgRes, Nothing)
                    \o Cleanup(boot.old)
  /\ pc' = "recover"
  /\ UNCHANGED <<flash, ramVars, call, boot>>

StartWalk ==
  /\ pc = "recover" /\ todo = <<>>
  /\ pc' = "walk" /\ boot' = Locals /\ call' = NoCall
  /\ UNCHANGED <<flash, ramVars, todo>>

\* initPage, from one item that matters to the next.  Items with a bad checksum
\* are zeroed.  The first pass over the pages stops at an item that was being
\* replaced; a second one looks for the old twin of each live item, and a third
\* one counts again, but gives up each page that still has such an item.
Matters(item) ==
  /\ item.id # Nothing
  /\ \/ item.val = Blank
     \/ item.stat = IF boot.pass = "second" THEN "live" ELSE "xfer"

Walking == pc = "walk" /\ boot.pg \in Pages
Items == flash[boot.pg].items
Here == LET later == {k \in boot.k .. Len(Items) : Matters(Items[k])}
        IN  IF later = {} THEN Len(Items) + 1
            ELSE CHOOSE k \in later : \A j \in later : k <= j
AtItem == Walking /\ Here <= Len(Items)
LostHere == boot.lost + LostIn(Items, boot.k, Here - 1)
OnWith(lost) == boot' = [boot EXCEPT !.k = Here + 1, !.lost = lost]

WalkBad ==
  /\ AtItem /\ Items[Here].val = Blank
  /\ Zero(boot.pg, Here)
  /\ OnWith(LostHere + Items[Here].len)
  /\ UNCHANGED <<pgOff, pgRes, hot, pc, call, todo>>

WalkTwin ==
  /\ AtItem /\ Items[Here].val # Blank /\ boot.pass = "second"
  /\ LET id == Items[Here].id
         walked == Walked(id, {"xfer"})
         old == First(Places(id, "xfer"))
         lost == RecountedLost(walked)
     IN  /\ pgOff' = RecountedOff(walked)
         /\ IF Places(id, "xfer") = {}
            THEN pgLost' = lost /\ UNCHANGED flash
            ELSE /\ flash' = [flash EXCEPT ![old[1]].items[old[2]] = Zeroed(@)]
                 /\ pgLost' = [lost EXCEPT ![old[1]] = @ + Size[id]]
  /\ OnWith(LostHere)
  /\ UNCHANGED <<pgRes, hot, pc, call, todo>>

WalkStops ==
  /\ AtItem /\ Items[Here].val # Blank /\ boot.pass # "second"
  /\ boot' = IF boot.pass = "first" THEN [Locals EXCEPT !.pass = "second"]
             ELSE [Locals EXCEPT !.pass = "third", !.pg = boot.pg + 1]
  /\ UNCHANGED <<flash, ramVars, pc, call, todo>>

WalkPageEnd ==
  /\ Walking /\ ~ AtItem
  /\ pgOff' = [pgOff EXCEPT ![boot.pg] = Total(Items)]
  /\ pgLost' = [pgLost EXCEPT ![boot.pg] = LostHere]
  /\ boot' = [boot EXCEPT !.pg = @ + 1, !.k = 1, !.lost = 0]
  /\ UNCHANGED <<flash, pgRes, hot, pc, call, todo>>

WalkAgain ==
  /\ pc = "walk" /\ boot.pg \notin Pages /\ boot.pass = "second"
  /\ boot' = [Locals EXCEPT !.pass = "third"]
  /\ UNCHANGED <<flash, ramVars, pc, call, todo>>

\* Without a reserve page, an erase was torn that had taken the "xfer" mark
\* and not the "inUse" mark: the page is one that has lost everything, or else
\* the one that has lost most.
AllLost == {p \in Pages : pgLost[p] = PageSize}
MostLost ==
  IF AllLost # {} THEN CHOOSE p \in AllLost : \A q \in AllLost : p <= q
  ELSE CHOOSE p \in Pages : \A q \in Pages :
         pgLost[p] > pgLost[q] \/ (pgLost[p] = pgLost[q] /\ p <= q)

\* mutant: a reserve page is not looked for among the pages in use
BootedAnyway ==
  /\ pc = "walk" /\ boot.pg \notin Pages /\ boot.pass # "second"
  /\ pc' = "idle" /\ boot' = Locals
  /\ UNCHANGED <<flash, ramVars, call, todo>>

Booted ==
  /\ pc = "walk" /\ boot.pg \notin Pages /\ boot.pass # "second"
  /\ IF pgRes = Nothing THEN pc' = "last" /\ todo' = Op("erase", MostLost)
     ELSE pc' = "idle" /\ UNCHANGED todo
  /\ boot' = Locals
  /\ UNCHANGED <<flash, ramVars, call>>

BootedLast ==
  /\ pc = "last" /\ todo = <<>>
  /\ pc' = "idle"
  /\ UNCHANGED <<flash, ramVars, call, boot, todo>>

Boot == \/ ReadHeader \/ Recover \/ StartWalk \/ WalkBad \/ WalkTwin \/ WalkStops
        \/ WalkPageEnd \/ WalkAgain \/ Booted \/ BootedLast

\* A reset between two flash operations, or in the middle of an erase.
Reset == Startup /\ UNCHANGED flash

Torn(page, parts) ==
  [inUse |-> page.inUse /\ "inUse" \notin parts,
   xfer |-> page.xfer /\ "xfer" \notin parts,
   items |-> IF "items" \in parts THEN <<>> ELSE page.items]

ResetInErase(parts) ==
  /\ Doing("erase")
  /\ flash' = [flash EXCEPT ![Step.pg] = Torn(@, parts)]
  /\ Startup

Next ==
  \/ Flash
  \/ \E id \in Ids, v \in Values : osal_nv_write(id, v) \/ osal_nv_item_init(id, v)
  \/ \E id \in Ids : ItemExists(id) \/ Lookup(id) \/ osal_nv_delete(id)
  \/ Return \/ Boot
  \/ Reset \/ \E parts \in TornErases : ResetInErase(parts)

Spec == Init /\ [][Next]_vars

-----------------------------------------------------------------------------
(* Properties.                                                             *)

\* The types, and that no call is served without a reserve page (line 699).
TypeOK ==
  /\ flash \in [Pages -> [inUse : BOOLEAN, xfer : BOOLEAN, items : Seq(Item)]]
  /\ pgOff \in [Pages -> Nat] /\ pgLost \in [Pages -> Nat]
  /\ pgRes \in Pages \cup {Nothing}
  /\ pc \in {"headers", "recover", "walk", "last", "idle", "call"}
  /\ pc \in {"idle", "call"} => pgRes # Nothing
  /\ call.id \in Ids \cup {Nothing} /\ call.ok \in BOOLEAN
  /\ boot.pg \in Nat /\ boot.k \in Nat \ {0} /\ boot.lost \in Nat

\* No page is ever written beyond its end: the room that initItem counts on a
\* compaction to give is there (lines 709, 720), although the counts of lost
\* space it adds up go stale.
NoOverflow == \A p \in Pages : Total(flash[p].items) <= PageSize

\* Nor does a new item land on top of another one: pgOff, where writeItem
\* writes (line 1085), is never short of what the page holds, also after
\* writes that read back wrong and compactions that were given up.
NoOverlay ==
  pc \in {"idle", "call"} => \A p \in Pages : Total(flash[p].items) <= pgOff[p]

\* Between calls the reserve page is erased, also if compactions failed (lines
\* 527-528: "one erased reserve page will be maintained through such a
\* scenario").
ReserveErased == pc = "idle" => flash[pgRes] = Erased

\* The value of an item according to the flash alone: pages not in use are
\* given up, and a finished new item supersedes the one it was to replace.
Kept(id, stat) ==
  {place \in Places(id, stat) : flash[place[1]].inUse /\ ItemAt(place).val # Blank}

Recoverable(id) ==
  CASE Kept(id, "live") # {} -> ItemAt(First(Kept(id, "live"))).val
    [] Kept(id, "live") = {} /\ Kept(id, "xfer") # {} ->
         ItemAt(First(Kept(id, "xfer"))).val
    [] OTHER -> Nothing

\* osal_nv_read of a hot item wants osal_nv_item_init to have found its place.
CanRead(id) == id \in HotIds => hot[id] # Nothing

\* Between calls a read returns what a reset would preserve, of a hot item too,
\* whose place is never searched for: whatever moves it, a compaction for
\* another item included, takes hotPg and hotOff along (line 603).
ReadsKept ==
  pc = "idle" =>
    \A id \in Ids : CanRead(id) => osal_nv_read(id) = Recoverable(id)

\* A call whose write has failed does not destroy a value written before: "the
\* last value written with a return value of SUCCESS can continue to be read
\* successfully" (lines 522-523), and if "writing the new value failed, then
\* the compaction must be aborted" (line 1389).
FailureKeepsValues ==
  [][pc = "call" /\ ~ call.ok =>
       \A id \in Ids : Recoverable(id) # Nothing
                         => Recoverable(id)' = Recoverable(id)]_vars

\* Nor does such a call take from a hot item, which is not the one written, the
\* place where osal_nv_read still finds that value (the same lines of the
\* comment): hotItemUpdate notes the copy on the reserve page (line 603) before
\* it is known whether that page will be kept.
HotReadsSurvive ==
  [][pc = "call" /\ ~ call.ok /\ pc' # "headers" =>
       \A id \in HotIds \ {call.id} :
         CanRead(id) /\ Recoverable(id) # Nothing /\ osal_nv_read(id) = Recoverable(id)
           => osal_nv_read(id)' = osal_nv_read(id)]_vars

\* Whatever a reset interrupts, initNV loses nothing and brings nothing back:
\* of the page it erases at its end, "the last page erase had been interrupted by
\* a power-cycle" (line 341), so that its items were copied.
BootKeepsValues ==
  [][pc \notin {"idle", "call"} =>
       \A id \in Ids : Recoverable(id)' = Recoverable(id)]_vars

Store == INSTANCE NvStore WITH
           value <- [id \in Ids |-> Recoverable(id)],
           NoCall <- [id |-> Nothing, val |-> Nothing],
           busy <- [id |-> call.id, val |-> call.val],
           up <- pc \in {"idle", "call"}

\* Every call changes the value of its item at one flash operation; no other
\* flash operation, no reset and nothing that initNV does changes any; and a
\* call that returns has done what it was asked.
ImplementsStore == Store!Spec
=============================================================================
