--------------------------- MODULE BackOfficeProofs ---------------------------
(***************************************************************************)
(* What holds of stock takes and of category edits for every set of takes, *)
(* requests, goods, categories, products and items.                        *)
(***************************************************************************)
EXTENDS MCBackOffice, IdempotencyProofs, Sequences, FiniteSetTheorems, TLAPS

(* The catalogue: a row of the categories.                                 *)
CategoryRow == [there : BOOLEAN, name : {0, 1}, active : BOOLEAN, version : Nat]

(* An edit that finds the version it read finds the row it read.           *)
KnowsRow(c) == LET k == edit[c].at IN
    /\ k \in Category
    /\ edit[c].version \in Nat /\ edit[c].version <= category[k].version
    /\ edit[c].version = category[k].version => edit[c].read = Shelf!Content(k)
EditsKnowTheirRow == \A c \in Editor : edit[c].op \in {"update", "delete"} => KnowsRow(c)

(* The inductive invariant of the catalogue.                               *)
ShelfSafe ==
    /\ category \in [Category -> CategoryRow]
    /\ DOMAIN edit = Editor
    /\ EditsKnowTheirRow

(* Nobody edits at first.                                                  *)
LEMMA ShelfInit ==
    ASSUME Shelf!Init
    PROVE  ShelfSafe
BY DEF Shelf!Init, Shelf!Idle, ShelfSafe, CategoryRow, EditsKnowTheirRow

(* The rows change together with their versions, which only grow, or do not*)
(* change in what an edit reads; and requests read nothing but what is     *)
(* there.                                                                  *)
LEMMA RowsMoveOn ==
    ASSUME ShelfSafe,
           category' \in [Category -> CategoryRow],
           \A k \in Category : \/ category'[k].version > category[k].version
                               \/ /\ category'[k].version = category[k].version
                                  /\ category'[k].name = category[k].name
                                  /\ category'[k].active = category[k].active,
           DOMAIN edit' = Editor,
           \A c \in Editor : edit'[c] = edit[c] \/ edit'[c].op \notin {"update", "delete"}
    PROVE  ShelfSafe'
<1>1. ASSUME NEW c \in Editor, edit'[c].op \in {"update", "delete"}
      PROVE  KnowsRow(c)'
  <2>1. edit'[c] = edit[c] /\ KnowsRow(c)
    BY <1>1 DEF ShelfSafe, EditsKnowTheirRow
  <2>2. PICK k \in Category : k = edit[c].at
    BY <2>1 DEF KnowsRow
  <2>3. category[k] \in CategoryRow /\ category'[k] \in CategoryRow
    BY DEF ShelfSafe
  <2>4. /\ category[k].version \in Nat /\ category'[k].version \in Nat
        /\ \/ category'[k].version > category[k].version
           \/ category'[k].version = category[k].version /\ Shelf!Content(k)' = Shelf!Content(k)
    BY <2>3 DEF CategoryRow, Shelf!Content
  <2> QED
    BY <2>1, <2>2, <2>4 DEF KnowsRow, Shelf!Content
<1>2. EditsKnowTheirRow'
  BY <1>1 DEF EditsKnowTheirRow
<1> QED
  BY <1>2 DEF ShelfSafe

(* A request that ends leaves the others as they are.                      *)
LEMMA EditDone ==
    ASSUME ShelfSafe, NEW c \in Editor, Shelf!Done(c)
    PROVE  /\ DOMAIN edit' = Editor
           /\ \A d \in Editor : edit'[d] = edit[d] \/ edit'[d].op \notin {"update", "delete"}
BY DEF ShelfSafe, Shelf!Done, Shelf!Idle

(* So does one that begins.                                                *)
LEMMA EditHeld ==
    ASSUME ShelfSafe, NEW c \in Editor, NEW what, Shelf!Hold(c, what)
    PROVE  /\ DOMAIN edit' = Editor
           /\ edit'[c] = what
           /\ \A d \in Editor : d # c => edit'[d] = edit[d]
BY DEF ShelfSafe, Shelf!Hold

(* An update leaves a row of its types with the next version.              *)
LEMMA UpdatedRow ==
    ASSUME ShelfSafe, NEW c \in Editor, NEW change \in Shelf!Change, Shelf!UpdateCategory(c, change)
    PROVE  ShelfSafe'
<1> DEFINE k == edit[c].at
           after == [f \in {"name", "active"} |->
                       IF f \in DOMAIN change THEN change[f] ELSE Shelf!Content(k)[f]]
<1>1. k \in Category
  BY DEF ShelfSafe, EditsKnowTheirRow, KnowsRow, Shelf!UpdateCategory
<1>2. Shelf!Content(k).name \in {0, 1} /\ Shelf!Content(k).active \in BOOLEAN
  BY <1>1 DEF Shelf!Content, ShelfSafe, CategoryRow
<1>3. /\ "name" \in DOMAIN change => change["name"] \in {0, 1}
      /\ "active" \in DOMAIN change => change["active"] \in BOOLEAN
  BY DEF Shelf!Change
<1>4. after.name \in {0, 1} /\ after.active \in BOOLEAN
  BY <1>2, <1>3
<1>5. category' = [category EXCEPT ![k].name = after.name, ![k].active = after.active,
                                   ![k].version = @ + 1]
  BY DEF Shelf!UpdateCategory
<1> HIDE DEF k, after
<1>6. category[k] \in CategoryRow /\ DOMAIN category = Category
  BY <1>1 DEF ShelfSafe
<1>7. /\ category'[k].name = after.name /\ category'[k].active = after.active
      /\ category'[k].there = category[k].there
      /\ category'[k].version = category[k].version + 1
      /\ \A l \in Category : l # k => category'[l] = category[l]
  BY <1>1, <1>5, <1>6 DEF CategoryRow
<1>8. category'[k] \in CategoryRow
  BY <1>1, <1>4, <1>5, <1>6 DEF CategoryRow
<1>9. category' \in [Category -> CategoryRow]
  BY <1>1, <1>5, <1>8 DEF ShelfSafe
<1>10. \A l \in Category : \/ category'[l].version > category[l].version
                          \/ category'[l] = category[l]
  BY <1>6, <1>7 DEF CategoryRow
<1> QED
  BY <1>9, <1>10, EditDone, RowsMoveOn DEF Shelf!UpdateCategory

(* Every step keeps what edits know of their rows.                         *)
LEMMA ShelfStep ==
    ASSUME ShelfSafe, [Shelf!Next]_(Shelf!vars)
    PROVE  ShelfSafe'
<1>1. ASSUME UNCHANGED category, DOMAIN edit' = Editor,
             \A c \in Editor : edit'[c] = edit[c] \/ edit'[c].op \notin {"update", "delete"}
      PROVE  ShelfSafe'
  BY <1>1, RowsMoveOn DEF ShelfSafe
<1>2. ASSUME NEW c \in Editor, Shelf!Abandon(c)
      PROVE  ShelfSafe'
  BY <1>1, <1>2, EditDone DEF Shelf!Abandon
<1>3. ASSUME NEW c \in Editor, NEW k \in Category, NEW op \in {"update", "delete"},
             Shelf!CategoryRead(c, k, op)
      PROVE  ShelfSafe'
  <2> DEFINE what == [op |-> op, at |-> k, read |-> Shelf!Content(k), version |-> category[k].version]
  <2>1. /\ DOMAIN edit' = Editor /\ edit'[c] = what
        /\ \A d \in Editor : d # c => edit'[d] = edit[d]
    BY <1>3, EditHeld DEF Shelf!CategoryRead
  <2>2. category' = category /\ category[k].version \in Nat
    BY <1>3 DEF Shelf!CategoryRead, ShelfSafe, CategoryRow
  <2> QED
    BY <2>1, <2>2 DEF ShelfSafe, EditsKnowTheirRow, KnowsRow, Shelf!Content
<1>4. ASSUME NEW c \in Editor, NEW change \in Shelf!Change, Shelf!UpdateCategory(c, change)
      PROVE  ShelfSafe'
  BY <1>4, UpdatedRow
<1>5. ASSUME NEW c \in Editor, Shelf!DeleteCategory(c)
      PROVE  ShelfSafe'
  <2>1. PICK k \in Category : category' = [category EXCEPT ![k].there = FALSE]
    BY <1>5 DEF Shelf!DeleteCategory, ShelfSafe, EditsKnowTheirRow, KnowsRow
  <2>2. /\ category' \in [Category -> CategoryRow]
        /\ \A l \in Category : /\ category'[l].version = category[l].version
                               /\ category'[l].name = category[l].name
                               /\ category'[l].active = category[l].active
    BY <2>1 DEF ShelfSafe, CategoryRow
  <2> QED
    BY <1>5, <2>2, EditDone, RowsMoveOn DEF Shelf!DeleteCategory
<1>6. ASSUME NEW c \in Editor, NEW p \in Product, NEW i \in Sku, NEW k \in Category \cup {Shelf!None},
             Shelf!CreateRead(c, p, i, k)
      PROVE  ShelfSafe'
  <2>1. /\ DOMAIN edit' = Editor /\ edit'[c].op = "create"
        /\ \A d \in Editor : d # c => edit'[d] = edit[d]
    BY <1>6, EditHeld DEF Shelf!CreateRead
  <2> QED
    BY <1>1, <1>6, <2>1 DEF Shelf!CreateRead
<1>7. ASSUME NEW c \in Editor, Shelf!CreateProduct(c)
      PROVE  ShelfSafe'
  BY <1>1, <1>7, EditDone DEF Shelf!CreateProduct
<1>8. ASSUME NEW p \in Product, NEW i \in Sku, NEW k \in Category, NEW name \in {0, 1},
             Shelf!ImportRow(p, i, k, name)
      PROVE  ShelfSafe'
  <2> DEFINE row == [there |-> TRUE, name |-> name, version |-> category[k].version + 1,
                     active |-> IF category[k].there THEN category[k].active ELSE TRUE]
  <2>1. category' = [category EXCEPT ![k] = row] /\ edit' = edit
    BY <1>8 DEF Shelf!ImportRow
  <2>2. category[k] \in CategoryRow
    BY DEF ShelfSafe
  <2>3. row.active \in BOOLEAN
    BY <2>2 DEF CategoryRow
  <2>4. category[k].version \in Nat /\ row.version = category[k].version + 1
    BY <2>2 DEF CategoryRow
  <2>5. row.version \in Nat
    BY <2>4
  <2>6. row \in CategoryRow
    BY <2>3, <2>5 DEF CategoryRow
  <2> HIDE DEF row
  <2>7. /\ category' \in [Category -> CategoryRow]
        /\ category'[k].version = category[k].version + 1 /\ category[k].version \in Nat
        /\ \A l \in Category : l # k => category'[l] = category[l]
    BY <2>1, <2>4, <2>6 DEF ShelfSafe
  <2>8. \A l \in Category : \/ category'[l].version > category[l].version
                            \/ category'[l] = category[l]
    BY <2>7
  <2>9. DOMAIN edit' = Editor
    BY <2>1 DEF ShelfSafe
  <2> QED
    BY <2>1, <2>7, <2>8, <2>9, RowsMoveOn
<1>9. CASE UNCHANGED <<category, edit>>
  BY <1>1, <1>9 DEF ShelfSafe
<1> QED
  BY <1>2, <1>3, <1>4, <1>5, <1>6, <1>7, <1>8, <1>9
     DEF Shelf!Next, Shelf!Step, Shelf!UpdateProduct, Shelf!MoveProduct, Shelf!DeleteProduct,
         Shelf!Sell, Shelf!vars

(* An edit of a category takes effect on the row its audit record tells,   *)
(* whatever edits, imports and deletions of the category crossed it        *)
(* (category.service.ts:126-136).                                          *)
THEOREM EditsAreOfTheirRow == Shelf!Spec => EditsStartFromWhatTheyRead
<1> DEFINE StartsFromRead ==
             \A k \in Category : audit'[k] # audit[k] =>
               audit'[k][Len(audit'[k])].before = Shelf!Content(k)
<1>1. ShelfSafe /\ [Shelf!Next]_(Shelf!vars) => [StartsFromRead]_(Shelf!vars)
  <2> SUFFICES ASSUME ShelfSafe, [Shelf!Next]_(Shelf!vars),
                      NEW k \in Category, audit'[k] # audit[k]
               PROVE  audit'[k][Len(audit'[k])].before = Shelf!Content(k)
    OBVIOUS
  <2>1. PICK c \in Editor, change \in Shelf!Change : Shelf!UpdateCategory(c, change)
    BY DEF Shelf!Next, Shelf!Step, Shelf!Abandon, Shelf!CategoryRead, Shelf!DeleteCategory, Shelf!CreateRead,
           Shelf!CreateProduct, Shelf!UpdateProduct, Shelf!MoveProduct, Shelf!DeleteProduct,
           Shelf!ImportRow, Shelf!Sell, Shelf!vars
  <2> DEFINE l == edit[c].at
  <2>2. edit[c].read = Shelf!Content(l)
    BY <2>1 DEF ShelfSafe, EditsKnowTheirRow, KnowsRow, Shelf!UpdateCategory, Shelf!SameVersion
  <2> QED
    BY <2>1, <2>2 DEF Shelf!UpdateCategory
<1>2. Shelf!Spec => []ShelfSafe
  BY ShelfInit, ShelfStep, PTL DEF Shelf!Spec
<1> QED
  BY <1>1, <1>2, PTL DEF Shelf!Spec, EditsStartFromWhatTheyRead, Shelf!EditsStartFromWhatTheyRead
-----------------------------------------------------------------------------
(* Stock takes: a line, whose link is 0 or a movement, and a movement.     *)
TakeLine == [expected : Int, counted : Int, variance : Int, link : 0..Len(adjusted)]
Movement == [take : Take, item : Goods, delta : Int]
Begun == {"IN_PROGRESS", "COMPLETED", "CANCELED"}

TakesTyped ==
    /\ status \in [Take -> Begun \cup {"ABSENT", "DRAFT"}]
    /\ DOMAIN lines = Take
    /\ \A t \in Take : \A i \in DOMAIN lines[t] : lines[t][i] \in TakeLine
    /\ adjusted \in Seq(Movement)
    /\ DOMAIN stock \subseteq Goods /\ \A i \in DOMAIN stock : stock[i] \in Int
    /\ DOMAIN call = Counter

(* A request has read quantities of items that have a balance; one that    *)
(* counts or completes is about lines of a take that was started.          *)
ReadFits(c) ==
    LET t == call[c].take
        read == call[c].quantity
    IN  /\ t \in Take
        /\ DOMAIN read \subseteq DOMAIN stock /\ \A i \in DOMAIN read : read[i] \in Int
        /\ call[c].op # "start" => status[t] \in Begun /\ DOMAIN read \subseteq DOMAIN lines[t]
ReadsFit == \A c \in Counter : call[c].op \in {"start", "count", "complete"} => ReadFits(c)

(* Lines are of items with a balance, adjustments of lines.                *)
LinesFit ==
    /\ \A t \in Take : DOMAIN lines[t] \subseteq DOMAIN stock
    /\ \A m \in DOMAIN adjusted : adjusted[m].item \in DOMAIN lines[adjusted[m].take]

(* The inductive invariant of stock takes.                                 *)
TakesSafe == TakesTyped /\ ReadsFit /\ LinesFit /\ Takes!LinesMatchAdjustments

(* No take has lines at first.                                             *)
LEMMA TakesInit ==
    ASSUME Takes!Init
    PROVE  TakesSafe
<1>1. DOMAIN Opening \subseteq Goods /\ \A i \in DOMAIN Opening : Opening[i] \in Int
  BY TakesAssumption DEF Takes!StockAssumption
<1>2. TakesTyped
  BY <1>1 DEF Takes!Init, TakesTyped, Takes!NoLines
<1>3. ReadsFit
  BY DEF Takes!Init, ReadsFit, Takes!Idle
<1>4. LinesFit /\ Takes!LinesMatchAdjustments
  BY DEF Takes!Init, LinesFit, Takes!LinesMatchAdjustments, Takes!NoLines
<1> QED
  BY <1>2, <1>3, <1>4 DEF TakesSafe

(* A finite set as a sequence has each element once.                       *)
LEMMA SetAsSequence ==
    ASSUME NEW S, IsFiniteSet(S)
    PROVE  \E n \in Nat : /\ Takes!SetToSeq(S) \in [1..n -> S]
                          /\ \A j, k \in 1..n : Takes!SetToSeq(S)[j] = Takes!SetToSeq(S)[k] => j = k
                          /\ \A x \in S : \E k \in 1..n : Takes!SetToSeq(S)[k] = x
<1>1. Takes!Cardinality(S) = Cardinality(S)
  BY DEF Takes!Cardinality, Cardinality
<1>2. Cardinality(S) \in Nat /\ ExistsBijection(1..Cardinality(S), S)
  BY FS_CardinalityType
<1>3. PICK f \in [1..Cardinality(S) -> S] : Takes!IsInjective(f)
  BY <1>2 DEF ExistsBijection, Bijection, Injection, IsInjective, Takes!IsInjective
<1>4. /\ Takes!SetToSeq(S) \in [1..Cardinality(S) -> S]
      /\ Takes!IsInjective(Takes!SetToSeq(S))
  BY <1>1, <1>3 DEF Takes!SetToSeq
<1>5. Takes!SetToSeq(S) \in Injection(1..Cardinality(S), S)
  BY <1>4 DEF Injection, IsInjective, Takes!IsInjective
<1>6. Takes!SetToSeq(S) \in Surjection(1..Cardinality(S), S)
  BY <1>2, <1>5, FS_Injection, FS_Interval
<1> QED
  BY <1>2, <1>4, <1>6 DEF Takes!IsInjective, Surjection

(* Every adjustment is of a take and an item.                              *)
LEMMA AdjustmentOfTake ==
    ASSUME TakesTyped, NEW m \in DOMAIN adjusted
    PROVE  adjusted[m] \in Movement /\ adjusted[m].take \in Take /\ adjusted[m].item \in Goods
<1>1. adjusted \in [1..Len(adjusted) -> Movement] /\ m \in 1..Len(adjusted)
  BY DEF TakesTyped
<1>2. adjusted[m] \in Movement
  BY <1>1
<1> QED
  BY <1>2 DEF Movement

(* A request that ends leaves the others as they are.                      *)
LEMMA CallDone ==
    ASSUME TakesSafe, NEW c \in Counter, Takes!Done(c)
    PROVE  /\ DOMAIN call' = Counter
           /\ \A d \in Counter : call'[d] = call[d] \/ call'[d].op = "idle"
BY DEF TakesSafe, TakesTyped, Takes!Done, Takes!Idle

(* What a request may rely on stays true while no balance goes, no take    *)
(* goes back and a take that was begun keeps its lines.                    *)
LEMMA ReadsStillFit ==
    ASSUME TakesSafe,
           \A d \in Counter : call'[d] = call[d] \/ call'[d].op = "idle",
           DOMAIN stock \subseteq DOMAIN stock',
           \A t \in Take : status[t] \in Begun =>
              status'[t] \in Begun /\ DOMAIN lines[t] \subseteq DOMAIN lines'[t]
    PROVE  ReadsFit'
<1>1. ASSUME NEW d \in Counter, call'[d].op \in {"start", "count", "complete"}
      PROVE  ReadFits(d)'
  <2>1. call'[d] = call[d] /\ ReadFits(d)
    BY <1>1 DEF TakesSafe, ReadsFit
  <2> QED
    BY <2>1 DEF ReadFits
<1> QED
  BY <1>1 DEF ReadsFit

(* A step that leaves lines and adjustments and undoes no completion.      *)
LEMMA LinesUntouched ==
    ASSUME TakesSafe, UNCHANGED <<lines, adjusted>>,
           status' \in [Take -> Begun \cup {"ABSENT", "DRAFT"}],
           \A t \in Take : status[t] = "COMPLETED" => status'[t] = "COMPLETED",
           DOMAIN stock \subseteq DOMAIN stock', DOMAIN stock' \subseteq Goods,
           \A i \in DOMAIN stock' : stock'[i] \in Int,
           DOMAIN call' = Counter, ReadsFit'
    PROVE  TakesSafe'
<1>1. TakesTyped'
  BY DEF TakesSafe, TakesTyped, TakeLine
<1>2. LinesFit'
  BY DEF TakesSafe, LinesFit
<1>3. \A m \in DOMAIN adjusted : adjusted[m].take \in Take
  BY AdjustmentOfTake DEF TakesSafe
<1>4. Takes!LinesMatchAdjustments'
  BY <1>3 DEF TakesSafe, Takes!LinesMatchAdjustments
<1> QED
  BY <1>1, <1>2, <1>4 DEF TakesSafe

(* A request begins with what its snapshot shows.                          *)
LEMMA ReadSafe ==
    ASSUME TakesSafe, NEW c \in Counter, NEW t \in Take, NEW op \in {"start", "count", "complete"}, NEW read,
           Takes!Begin(c, op, t, read),
           DOMAIN read \subseteq DOMAIN stock, \A i \in DOMAIN read : read[i] \in Int,
           op # "start" => status[t] \in Begun /\ DOMAIN read \subseteq DOMAIN lines[t]
    PROVE  TakesSafe'
<1>1. /\ DOMAIN call' = Counter /\ call'[c] = [op |-> op, take |-> t, quantity |-> read]
      /\ \A d \in Counter : d # c => call'[d] = call[d]
      /\ UNCHANGED <<status, lines, stock, adjusted>>
  BY DEF Takes!Begin, TakesSafe, TakesTyped
<1>2. ReadFits(c)'
  BY <1>1 DEF ReadFits
<1>3. ASSUME NEW d \in Counter, d # c, call[d].op \in {"start", "count", "complete"}
      PROVE  ReadFits(d)'
  BY <1>1, <1>3 DEF ReadFits, TakesSafe, ReadsFit
<1>4. ReadsFit'
  BY <1>1, <1>2, <1>3 DEF ReadsFit
<1> QED
  BY <1>1, <1>4, LinesUntouched DEF TakesSafe, TakesTyped

(* Starting a take writes the lines it never had.                          *)
LEMMA StartSafe ==
    ASSUME TakesSafe, NEW c \in Counter, Takes!Start(c)
    PROVE  TakesSafe'
<1> DEFINE t == call[c].take
           read == call[c].quantity
           new == [i \in DOMAIN read |-> [expected |-> read[i], counted |-> read[i],
                                          variance |-> 0, link |-> 0]]
<1>1. ReadFits(c) /\ t \in Take /\ status[t] = "DRAFT"
  BY DEF TakesSafe, ReadsFit, ReadFits, Takes!Start, Takes!Doing
<1>2. /\ status' = [status EXCEPT ![t] = "IN_PROGRESS"]
      /\ lines' = [lines EXCEPT ![t] = new]
      /\ Takes!Done(c) /\ UNCHANGED <<stock, adjusted>>
  BY DEF Takes!Start
<1>3. \A i \in DOMAIN new : /\ new[i] \in TakeLine /\ new[i].link = 0
                            /\ new[i].variance = new[i].counted - new[i].expected
  <2>1. Len(adjusted) \in Nat
    BY DEF TakesSafe, TakesTyped
  <2> QED
    BY <1>1, <2>1 DEF ReadFits, TakeLine
<1>4. DOMAIN new \subseteq DOMAIN stock
  BY <1>1 DEF ReadFits
<1> HIDE DEF new, t
<1>5. /\ DOMAIN lines' = Take /\ lines'[t] = new
      /\ \A u \in Take : u # t => lines'[u] = lines[u]
  BY <1>1, <1>2 DEF TakesSafe, TakesTyped
<1>6. /\ status' \in [Take -> Begun \cup {"ABSENT", "DRAFT"}] /\ status'[t] = "IN_PROGRESS"
      /\ \A u \in Take : u # t => status'[u] = status[u]
  BY <1>1, <1>2 DEF TakesSafe, TakesTyped, Begun
<1>7. \A m \in DOMAIN adjusted : adjusted[m].take \in Take /\ adjusted[m].take # t
  BY <1>1, AdjustmentOfTake DEF TakesSafe, Takes!LinesMatchAdjustments
<1>8. TakesTyped'
  BY <1>2, <1>3, <1>5, <1>6, CallDone DEF TakesSafe, TakesTyped, TakeLine
<1>9. ReadsFit'
  BY <1>1, <1>2, <1>5, <1>6, CallDone, ReadsStillFit DEF Begun
<1>10. LinesFit'
  BY <1>2, <1>4, <1>5, <1>7 DEF TakesSafe, LinesFit
<1>11. Takes!LinesMatchAdjustments'
  BY <1>2, <1>3, <1>5, <1>6, <1>7 DEF TakesSafe, Takes!LinesMatchAdjustments
<1> QED
  BY <1>8, <1>9, <1>10, <1>11 DEF TakesSafe

(* A count gives a line its variance and leaves its link.                  *)
LEMMA CountedLine ==
    ASSUME NEW line \in TakeLine, NEW n \in Int
    PROVE  LET new == Takes!Recount(line, n) IN
           new \in TakeLine /\ new.link = line.link /\ new.variance = new.counted - new.expected
<1> DEFINE variance == n - line.expected
<1>1. variance \in Int
  BY DEF TakeLine
<1>2. Takes!Recount(line, n) = [line EXCEPT !.counted = n, !.variance = variance]
  BY DEF Takes!Recount
<1>3. variance = n - line.expected
  OBVIOUS
<1> HIDE DEF variance
<1> QED
  BY <1>1, <1>2, <1>3 DEF TakeLine

(* Counting a line leaves its link; the variance is that of the new count. *)
LEMMA CountSafe ==
    ASSUME TakesSafe, NEW c \in Counter, Takes!Count(c)
    PROVE  TakesSafe'
<1> DEFINE t == call[c].take
           counts == call[c].quantity
           new == [i \in DOMAIN lines[t] |-> IF i \in DOMAIN counts THEN Takes!Recount(lines[t][i], counts[i])
                                             ELSE lines[t][i]]
<1>1. ReadFits(c) /\ t \in Take
  BY DEF TakesSafe, ReadsFit, ReadFits, Takes!Count, Takes!Doing
<1>2. /\ lines' = [lines EXCEPT ![t] = new]
      /\ Takes!Done(c) /\ UNCHANGED <<status, stock, adjusted>>
  BY DEF Takes!Count
<1>3. ASSUME NEW i \in DOMAIN lines[t]
      PROVE  /\ new[i] \in TakeLine /\ new[i].link = lines[t][i].link
             /\ new[i].variance = new[i].counted - new[i].expected
  <2>1. lines[t][i] \in TakeLine /\ lines[t][i].variance = lines[t][i].counted - lines[t][i].expected
    BY <1>1 DEF TakesSafe, TakesTyped, Takes!LinesMatchAdjustments
  <2>2. i \in DOMAIN counts => counts[i] \in Int
    BY <1>1 DEF ReadFits
  <2>3. new[i] = IF i \in DOMAIN counts THEN Takes!Recount(lines[t][i], counts[i]) ELSE lines[t][i]
    BY <1>3
  <2> HIDE DEF new, t, counts
  <2>4. CASE i \in DOMAIN counts
    BY <2>1, <2>2, <2>3, <2>4, CountedLine
  <2>5. CASE i \notin DOMAIN counts
    BY <2>1, <2>3, <2>5
  <2> QED
    BY <2>4, <2>5
<1>4. DOMAIN new = DOMAIN lines[t]
  OBVIOUS
<1> HIDE DEF new, t
<1>5. /\ DOMAIN lines' = Take /\ lines'[t] = new
      /\ \A u \in Take : u # t => lines'[u] = lines[u]
  BY <1>1, <1>2 DEF TakesSafe, TakesTyped
<1>6. \A u \in Take : DOMAIN lines'[u] = DOMAIN lines[u]
  BY <1>4, <1>5
<1>7. \A u \in Take : \A i \in DOMAIN lines[u] :
         /\ lines'[u][i] \in TakeLine /\ lines'[u][i].link = lines[u][i].link
         /\ lines'[u][i].variance = lines'[u][i].counted - lines'[u][i].expected
  BY <1>3, <1>5 DEF TakesSafe, TakesTyped, Takes!LinesMatchAdjustments
<1>8. TakesTyped'
  BY <1>2, <1>5, <1>6, <1>7, CallDone DEF TakesSafe, TakesTyped, TakeLine
<1>9. ReadsFit'
  BY <1>2, <1>6, CallDone, ReadsStillFit
<1>10. LinesFit'
  BY <1>2, <1>6, AdjustmentOfTake DEF TakesSafe, LinesFit
<1>11. Takes!LinesMatchAdjustments'
  BY <1>2, <1>6, <1>7, AdjustmentOfTake DEF TakesSafe, LinesFit, Takes!LinesMatchAdjustments
<1> QED
  BY <1>8, <1>9, <1>10, <1>11 DEF TakesSafe

(* The items that a completion finds with another quantity than the        *)
(* counted one, in their order, are each there once.                       *)
LEMMA DifferingOnce ==
    ASSUME TakesSafe, NEW c \in Counter, ReadFits(c), NEW counted, counted = call[c].quantity,
           NEW d, d = Takes!Differing(counted)
    PROVE  \E n \in Nat :
              /\ d \in [1..n -> DOMAIN counted]
              /\ \A j, k \in 1..n : d[j] = d[k] => j = k
              /\ \A i \in DOMAIN counted : counted[i] # stock[i] <=> \E k \in 1..n : d[k] = i
<1>1. PICK S : S = {i \in DOMAIN counted : counted[i] # stock[i]}
  OBVIOUS
<1>2. DOMAIN counted \subseteq Goods
  BY DEF ReadFits, TakesSafe, TakesTyped
<1>3. IsFiniteSet(S)
  <2>1. Takes!IsFiniteSet(Goods)
    BY TakesAssumption DEF Takes!StockAssumption
  <2>2. IsFiniteSet(Goods)
    BY <2>1 DEF Takes!IsFiniteSet, IsFiniteSet
  <2> QED
    BY <1>1, <1>2, <2>2, FS_Subset
<1>4. d = Takes!SetToSeq(S)
  BY <1>1 DEF Takes!Differing
<1>5. PICK n \in Nat : /\ d \in [1..n -> S]
                       /\ \A j, k \in 1..n : d[j] = d[k] => j = k
                       /\ \A x \in S : \E k \in 1..n : d[k] = x
  BY <1>3, <1>4, SetAsSequence, SMTT(30)
<1>6. d \in [1..n -> DOMAIN counted]
  BY <1>1, <1>5
<1>7. \A i \in DOMAIN counted : counted[i] # stock[i] <=> \E k \in 1..n : d[k] = i
  BY <1>1, <1>5
<1> QED
  BY <1>5, <1>6, <1>7

(* The movements added about take t, n of them, are of the items d.         *)
AdjustsOnce(t, counted, d, added, n) ==
    /\ DOMAIN d = 1..n /\ added \in Seq(Movement) /\ Len(added) = n
    /\ \A k \in 1..n : /\ d[k] \in DOMAIN counted
                       /\ added[k].take = t /\ added[k].item = d[k] /\ added[k].delta # 0
                       /\ added[k].delta = counted[d[k]] - stock[d[k]]
    /\ \A j, k \in 1..n : d[j] = d[k] => j = k
    /\ \A i \in DOMAIN counted : counted[i] # stock[i] <=> \E k \in 1..n : d[k] = i

(* What a completion adds: a movement of an item for each quantity that    *)
(* was not the counted one, with the difference.                           *)
LEMMA AdjustmentsFit ==
    ASSUME TakesSafe, NEW c \in Counter, Takes!Complete(c),
           NEW t, t = call[c].take, NEW counted, counted = call[c].quantity,
           NEW d, d = Takes!Differing(counted),
           NEW delta, delta = [i \in DOMAIN counted |-> counted[i] - stock[i]],
           NEW added, added = Takes!Adjustments(t, counted, delta)
    PROVE  \E n \in Nat : AdjustsOnce(t, counted, d, added, n)
<1>1. ReadFits(c)
  BY DEF TakesSafe, ReadsFit, Takes!Complete, Takes!Doing
<1>2. t \in Take /\ \A i \in DOMAIN counted : counted[i] \in Int /\ stock[i] \in Int /\ i \in Goods
  BY <1>1 DEF ReadFits, TakesSafe, TakesTyped
<1>3. PICK n \in Nat : /\ d \in [1..n -> DOMAIN counted]
                       /\ \A j, k \in 1..n : d[j] = d[k] => j = k
                       /\ \A i \in DOMAIN counted : counted[i] # stock[i] <=> \E k \in 1..n : d[k] = i
  BY <1>1, DifferingOnce
<1>4. DOMAIN d = 1..n
  BY <1>3
<1>5. added = [k \in 1..n |-> [take |-> t, item |-> d[k], delta |-> delta[d[k]]]]
  BY <1>4 DEF Takes!Adjustments
<1>6. \A k \in 1..n : d[k] \in DOMAIN counted /\ counted[d[k]] # stock[d[k]]
  BY <1>3
<1>7. \A k \in 1..n : /\ d[k] \in DOMAIN counted /\ d[k] \in Goods
                      /\ delta[d[k]] = counted[d[k]] - stock[d[k]]
                      /\ delta[d[k]] \in Int /\ delta[d[k]] # 0
  BY <1>2, <1>6
<1>8. ASSUME NEW k \in 1..n
      PROVE  /\ added[k] \in Movement
             /\ added[k].take = t /\ added[k].item = d[k] /\ added[k].delta = delta[d[k]]
  <2>1. PICK at : at = d[k]
    OBVIOUS
  <2>2. PICK moved : moved = delta[d[k]]
    OBVIOUS
  <2>3. added[k] = [take |-> t, item |-> at, delta |-> moved]
    BY <1>5, <2>1, <2>2
  <2>4. at \in Goods /\ moved \in Int
    BY <1>7, <2>1, <2>2
  <2> QED
    BY <1>2, <2>1, <2>2, <2>3, <2>4 DEF Movement
<1>9. added \in Seq(Movement) /\ Len(added) = n
  <2>1. added \in [1..n -> Movement]
    BY <1>5, <1>8
  <2> QED
    BY <2>1
<1>10. \A k \in 1..n : /\ d[k] \in DOMAIN counted
                       /\ added[k].take = t /\ added[k].item = d[k] /\ added[k].delta # 0
                       /\ added[k].delta = counted[d[k]] - stock[d[k]]
  BY <1>7, <1>8
<1> QED
  BY <1>3, <1>4, <1>9, <1>10 DEF AdjustsOnce

(* A completion links each line with its adjustment, if there is one.      *)
LEMMA CompleteSafe ==
    ASSUME TakesSafe, NEW c \in Counter, Takes!Complete(c)
    PROVE  TakesSafe'
<1> DEFINE t == call[c].take
           counted == call[c].quantity
           d == Takes!Differing(counted)
           added == Takes!Adjustments(t, counted, [i \in DOMAIN counted |-> counted[i] - stock[i]])
           new == [i \in DOMAIN lines[t] |-> [lines[t][i] EXCEPT !.link = Takes!LinkOf(i, d)]]
           len == Len(adjusted)
<1>1. ReadFits(c) /\ t \in Take /\ status[t] = "IN_PROGRESS" /\ DOMAIN counted \subseteq DOMAIN lines[t]
  BY DEF TakesSafe, ReadsFit, ReadFits, Takes!Complete, Takes!Doing
<1>2. /\ status' = [status EXCEPT ![t] = "COMPLETED"]
      /\ lines' = [lines EXCEPT ![t] = new]
      /\ adjusted' = adjusted \o added
      /\ stock' = Takes!Balances(t, counted)
      /\ Takes!Done(c)
  BY DEF Takes!Complete, Takes!Post
<1>3. PICK n \in Nat :
         /\ DOMAIN d = 1..n /\ added \in Seq(Movement) /\ Len(added) = n
         /\ \A k \in 1..n : /\ d[k] \in DOMAIN counted
                            /\ added[k].take = t /\ added[k].item = d[k] /\ added[k].delta # 0
         /\ \A j, k \in 1..n : d[j] = d[k] => j = k
  <2>1. PICK delta : delta = [i \in DOMAIN counted |-> counted[i] - stock[i]]
    OBVIOUS
  <2>2. d = Takes!Differing(counted) /\ added = Takes!Adjustments(t, counted, delta)
    BY <2>1
  <2> HIDE DEF d, added
  <2>3. PICK n \in Nat : AdjustsOnce(t, counted, d, added, n)
    BY <2>1, <2>2, AdjustmentsFit
  <2> QED
    BY <2>3 DEF AdjustsOnce
<1>4. adjusted \in Seq(Movement) /\ len \in Nat /\ DOMAIN adjusted = 1..len
  BY DEF TakesSafe, TakesTyped
<1>5. \A i : \/ /\ Takes!LinkOf(i, d) = 0
                /\ \A k \in 1..n : d[k] # i
             \/ \E k \in 1..n : Takes!LinkOf(i, d) = len + k /\ d[k] = i
  <2> HIDE DEF d
  <2> QED
    BY <1>3, <1>4 DEF Takes!LinkOf
<1>6. \A k \in 1..n : Takes!LinkOf(d[k], d) = len + k
  <2> HIDE DEF d
  <2> SUFFICES ASSUME NEW k \in 1..n
               PROVE  Takes!LinkOf(d[k], d) = len + k
    OBVIOUS
  <2>1. PICK j \in 1..n : Takes!LinkOf(d[k], d) = len + j /\ d[j] = d[k]
    BY <1>5
  <2> QED
    BY <1>3, <2>1
<1> HIDE DEF added, d
<1>7. /\ adjusted' \in Seq(Movement) /\ Len(adjusted') = len + n
      /\ \A m \in 1..len : adjusted'[m] = adjusted[m]
      /\ \A k \in 1..n : adjusted'[len + k] = added[k]
  BY <1>2, <1>3, <1>4
<1>8. ASSUME NEW i \in DOMAIN lines[t]
      PROVE  /\ new[i] \in TakeLine' /\ new[i].link = Takes!LinkOf(i, d)
             /\ new[i].variance = new[i].counted - new[i].expected
  <2>1. lines[t][i] \in TakeLine /\ lines[t][i].variance = lines[t][i].counted - lines[t][i].expected
    BY <1>1 DEF TakesSafe, TakesTyped, Takes!LinesMatchAdjustments
  <2>2. Takes!LinkOf(i, d) \in 0..Len(adjusted')
    BY <1>3, <1>4, <1>5, <1>7, SMTT(30)
  <2>3. new[i] = [lines[t][i] EXCEPT !.link = Takes!LinkOf(i, d)]
    BY <1>8
  <2> HIDE DEF new, t
  <2> QED
    BY <2>1, <2>2, <2>3 DEF TakeLine
<1>9. DOMAIN new = DOMAIN lines[t]
  OBVIOUS
<1> HIDE DEF new, t
<1>10. /\ DOMAIN lines' = Take /\ lines'[t] = new
       /\ \A u \in Take : u # t => lines'[u] = lines[u]
  BY <1>1, <1>2 DEF TakesSafe, TakesTyped
<1>11. \A u \in Take : DOMAIN lines'[u] = DOMAIN lines[u]
  BY <1>9, <1>10
<1>12. /\ status' \in [Take -> Begun \cup {"ABSENT", "DRAFT"}] /\ status'[t] = "COMPLETED"
       /\ \A u \in Take : u # t => status'[u] = status[u]
  BY <1>1, <1>2 DEF TakesSafe, TakesTyped, Begun
<1>13. /\ DOMAIN stock \subseteq DOMAIN stock' /\ DOMAIN stock' \subseteq Goods
       /\ \A i \in DOMAIN stock' : stock'[i] \in Int
  BY <1>1, <1>2 DEF Takes!Balances, ReadFits, TakesSafe, TakesTyped
<1>14. \A u \in Take : \A i \in DOMAIN lines[u] : u # t => lines'[u][i] \in TakeLine'
  <2>1. 0..len \subseteq 0..Len(adjusted')
    BY <1>4, <1>7
  <2> HIDE DEF len
  <2> QED
    BY <1>10, <2>1 DEF TakesSafe, TakesTyped, TakeLine, len
<1>15. TakesTyped'
  <2>1. \A u \in Take : \A i \in DOMAIN lines'[u] : lines'[u][i] \in TakeLine'
    BY <1>8, <1>9, <1>10, <1>14
  <2> QED
    BY <1>2, <1>7, <1>10, <1>12, <1>13, <2>1, CallDone DEF TakesTyped
<1>16. ReadsFit'
  BY <1>2, <1>11, <1>12, <1>13, CallDone, ReadsStillFit DEF Begun
<1>17. \A m \in 1..Len(adjusted') : m \in 1..len \/ \E k \in 1..n : m = len + k
  <2> SUFFICES ASSUME NEW m \in 1..Len(adjusted'), m \notin 1..len
               PROVE  \E k \in 1..n : m = len + k
    OBVIOUS
  <2>1. m - len \in 1..n /\ m = len + (m - len)
    BY <1>4, <1>7
  <2> QED
    BY <2>1
<1>18. \A m \in 1..len : /\ adjusted[m].take \in Take /\ adjusted[m].take # t
                         /\ adjusted[m].item \in DOMAIN lines[adjusted[m].take]
  BY <1>1, <1>4, AdjustmentOfTake DEF TakesSafe, LinesFit, Takes!LinesMatchAdjustments
<1>19. \A k \in 1..n : /\ adjusted'[len + k].take = t /\ adjusted'[len + k].item = d[k]
                       /\ adjusted'[len + k].delta # 0 /\ d[k] \in DOMAIN counted
  BY <1>3, <1>7
<1>20. LinesFit'
  <2>1. \A m \in 1..len : adjusted'[m].item \in DOMAIN lines'[adjusted'[m].take]
    BY <1>7, <1>11, <1>18
  <2>2. \A k \in 1..n : adjusted'[len + k].item \in DOMAIN lines'[adjusted'[len + k].take]
    BY <1>1, <1>11, <1>19
  <2>3. \A m \in 1..Len(adjusted') : adjusted'[m].item \in DOMAIN lines'[adjusted'[m].take]
    BY <1>17, <2>1, <2>2
  <2> QED
    BY <1>7, <1>11, <1>13, <2>3 DEF TakesSafe, LinesFit
<1>21. Takes!LinesMatchAdjustments'
  <2>1. ASSUME NEW m \in 1..Len(adjusted')
        PROVE  /\ adjusted'[m].delta # 0
               /\ status'[adjusted'[m].take] = "COMPLETED"
               /\ lines'[adjusted'[m].take][adjusted'[m].item].link = m
    <3>1. CASE m \in 1..len
      BY <1>4, <1>7, <1>10, <1>12, <1>18, <3>1 DEF TakesSafe, Takes!LinesMatchAdjustments
    <3>2. ASSUME NEW k \in 1..n, m = len + k
          PROVE  /\ adjusted'[m].delta # 0
                 /\ status'[adjusted'[m].take] = "COMPLETED"
                 /\ lines'[adjusted'[m].take][adjusted'[m].item].link = m
      <4>1. d[k] \in DOMAIN lines[t]
        BY <1>1, <1>19
      <4>2. lines'[t][d[k]].link = len + k
        BY <1>6, <1>8, <1>10, <4>1
      <4> QED
        BY <1>12, <1>19, <3>2, <4>2
    <3> QED
      BY <1>17, <3>1, <3>2
  <2>2. ASSUME NEW u \in Take, NEW i \in DOMAIN lines'[u]
        PROVE  /\ lines'[u][i].variance = lines'[u][i].counted - lines'[u][i].expected
               /\ lines'[u][i].link # 0 => /\ adjusted'[lines'[u][i].link].take = u
                                           /\ adjusted'[lines'[u][i].link].item = i
    <3>1. CASE u = t
      BY <1>3, <1>5, <1>7, <1>8, <1>9, <1>10, <2>2, <3>1
    <3>2. CASE u # t
      <4>1. lines'[u][i] = lines[u][i] /\ lines[u][i] \in TakeLine /\ i \in DOMAIN lines[u]
        BY <1>10, <2>2, <3>2 DEF TakesSafe, TakesTyped
      <4>2. lines[u][i].link \in 0..len
        BY <4>1 DEF TakeLine
      <4> QED
        BY <1>7, <4>1, <4>2 DEF TakesSafe, Takes!LinesMatchAdjustments
    <3> QED
      BY <3>1, <3>2
  <2>3. DOMAIN adjusted' = 1..Len(adjusted')
    BY <1>7
  <2> QED
    BY <2>1, <2>2, <2>3 DEF Takes!LinesMatchAdjustments
<1> QED
  BY <1>15, <1>16, <1>20, <1>21 DEF TakesSafe

(* Every step keeps the takes safe.                                        *)
LEMMA TakesStep ==
    ASSUME TakesSafe, [Takes!Next]_(Takes!vars)
    PROVE  TakesSafe'
<1> USE DEF Begun
<1>1. ASSUME UNCHANGED <<lines, adjusted, stock>>,
             status' \in [Take -> Begun \cup {"ABSENT", "DRAFT"}],
             \A t \in Take : status[t] = "COMPLETED" => status'[t] = "COMPLETED",
             \A t \in Take : status[t] \in Begun => status'[t] \in Begun,
             DOMAIN call' = Counter,
             \A d \in Counter : call'[d] = call[d] \/ call'[d].op = "idle"
      PROVE  TakesSafe'
  BY <1>1, ReadsStillFit, LinesUntouched DEF TakesSafe, TakesTyped
<1>2. ASSUME UNCHANGED <<status, lines, adjusted, call>>,
             DOMAIN stock \subseteq DOMAIN stock', DOMAIN stock' \subseteq Goods,
             \A i \in DOMAIN stock' : stock'[i] \in Int
      PROVE  TakesSafe'
  BY <1>2, ReadsStillFit, LinesUntouched DEF TakesSafe, TakesTyped
<1>3. ASSUME NEW t \in Take, Takes!Create(t) \/ Takes!Cancel(t)
      PROVE  TakesSafe'
  BY <1>1, <1>3 DEF Takes!Create, Takes!Cancel, Takes!Open, TakesSafe, TakesTyped
<1>4. ASSUME NEW c \in Counter, NEW t \in Take, Takes!StartRead(c, t)
      PROVE  TakesSafe'
  BY <1>4, ReadSafe DEF Takes!StartRead, TakesSafe, TakesTyped
<1>5. ASSUME NEW c \in Counter, NEW t \in Take, Takes!CompleteRead(c, t)
      PROVE  TakesSafe'
  <2> DEFINE read == [i \in DOMAIN lines[t] |-> lines[t][i].counted]
  <2>1. DOMAIN read = DOMAIN lines[t] /\ DOMAIN lines[t] \subseteq DOMAIN stock
    BY DEF TakesSafe, LinesFit
  <2>2. \A i \in DOMAIN lines[t] : lines[t][i] \in TakeLine
    BY DEF TakesSafe, TakesTyped
  <2>3. \A i \in DOMAIN read : read[i] \in Int
    BY <2>2 DEF TakeLine
  <2> HIDE DEF read
  <2>4. Takes!Begin(c, "complete", t, read) /\ status[t] = "IN_PROGRESS"
    BY <1>5 DEF Takes!CompleteRead, read
  <2> QED
    BY <2>1, <2>3, <2>4, ReadSafe
<1>6. ASSUME NEW c \in Counter, NEW t \in Take, NEW counts \in Takes!Counts(t), Takes!CountRead(c, t, counts)
      PROVE  TakesSafe'
  <2>1. DOMAIN counts \subseteq DOMAIN lines[t] /\ DOMAIN lines[t] \subseteq DOMAIN stock
    BY <1>6 DEF Takes!CountRead, TakesSafe, LinesFit
  <2>2. \A i \in DOMAIN counts : counts[i] \in Int
    BY TakesAssumption DEF Takes!Counts, Takes!StockAssumption
  <2> QED
    BY <1>6, <2>1, <2>2, ReadSafe DEF Takes!CountRead
<1>7. ASSUME NEW c \in Counter, Takes!Abandon(c)
      PROVE  TakesSafe'
  BY <1>1, <1>7, CallDone DEF Takes!Abandon, TakesSafe, TakesTyped
<1>8. ASSUME NEW i \in Trading, Takes!Sell(i) \/ Takes!Receive(i)
      PROVE  TakesSafe'
  <2>1. i \in Goods
    BY TakesAssumption DEF Takes!StockAssumption
  <2>2. CASE Takes!Sell(i)
    BY <1>2, <2>2 DEF Takes!Sell, TakesSafe, TakesTyped
  <2>3. CASE Takes!Receive(i)
    BY <1>2, <2>1, <2>3 DEF Takes!Receive, TakesSafe, TakesTyped
  <2> QED
    BY <1>8, <2>2, <2>3
<1>9. CASE UNCHANGED Takes!vars
  BY <1>2, <1>9 DEF Takes!vars, TakesSafe, TakesTyped
<1> QED
  BY <1>3, <1>4, <1>5, <1>6, <1>7, <1>8, <1>9, StartSafe, CountSafe, CompleteSafe DEF Takes!Next
-----------------------------------------------------------------------------
(* A replay of the adjustments: the balances after each, from the opening  *)
(* ones.                                                                   *)
IsReplay(b) ==
    /\ b = [m \in 0..Len(adjusted) |-> b[m]]
    /\ b[0] = Takes!Quantities(Opening)
    /\ \A m \in 1..Len(adjusted) :
          b[m] = [b[m - 1] EXCEPT ![adjusted[m].item] = b[m - 1][adjusted[m].item] + adjusted[m].delta]

(* Every balance is that of a replay, with the trade.                      *)
Replayed ==
    \E b \in [0..Len(adjusted) -> [Goods -> Int]] :
       IsReplay(b) /\ \A i \in Goods : Takes!Quantities(stock)[i] = b[Len(adjusted)][i] + traded[i]
BooksSafe == TakesSafe /\ traded \in [Goods -> Int] /\ Replayed

(* There is one replay, which is the books': two would differ somewhere    *)
(* first.                                                                  *)
LEMMA OneReplay ==
    ASSUME TakesTyped, NEW b, IsReplay(b), NEW c, IsReplay(c)
    PROVE  b = c
<1> DEFINE Below == {ss \in Nat \X Nat : ss[1] < ss[2]}
           Differ == {m \in 0..Len(adjusted) : b[m] # c[m]}
<1>1. IsWellFoundedOn(Below, Nat)
  BY NatLessThanWellFounded DEF OpToRel
<1>2. Len(adjusted) \in Nat
  BY DEF TakesTyped
<1>3. Differ = {}
  <2> SUFFICES ASSUME Differ # {} PROVE FALSE
    OBVIOUS
  <2>1. PICK m \in Differ : \A k \in Differ : ~ (<<k, m>> \in Below)
    <3>1. Differ \subseteq Nat
      BY <1>2
    <3> HIDE DEF Below, Differ
    <3> QED
      BY <1>1, <3>1, WFMin
  <2>2. m # 0
    BY <2>1 DEF IsReplay
  <2>3. m \in 1..Len(adjusted) /\ m - 1 \in 0..Len(adjusted) /\ m - 1 < m
    BY <1>2, <2>1, <2>2
  <2>4. b[m - 1] = c[m - 1]
    <3>1. m - 1 \in Nat /\ m \in Nat /\ <<m - 1, m>> \in Below
      BY <1>2, <2>3
    <3>2. m - 1 \notin Differ
      <4> HIDE DEF Below, Differ
      <4> QED
        BY <2>1, <3>1
    <3> QED
      BY <2>3, <3>2
  <2>5. b[m] = [b[m - 1] EXCEPT ![adjusted[m].item] = b[m - 1][adjusted[m].item] + adjusted[m].delta]
    BY <2>3 DEF IsReplay
  <2>6. c[m] = [c[m - 1] EXCEPT ![adjusted[m].item] = c[m - 1][adjusted[m].item] + adjusted[m].delta]
    BY <2>3 DEF IsReplay
  <2> QED
    BY <2>1, <2>4, <2>5, <2>6
<1> QED
  BY <1>3 DEF IsReplay

(* The replay of the adjustments is what Books is: two replays agree from  *)
(* their first difference on, which there is none of.                      *)
LEMMA BooksReplay ==
    ASSUME TakesTyped, NEW b, IsReplay(b)
    PROVE  Takes!Books = b
<1> DEFINE Step(f) == [m \in 0..Len(adjusted) |->
               IF m = 0 THEN Takes!Quantities(Opening)
               ELSE [f[m - 1] EXCEPT ![adjusted[m].item] = f[m - 1][adjusted[m].item] + adjusted[m].delta]]
<1>1. Takes!Books = CHOOSE f : f = Step(f)
  BY DEF Takes!Books
<1>2. b = Step(b)
  <2>1. b = [m \in 0..Len(adjusted) |-> b[m]]
    BY DEF IsReplay
  <2>2. \A m \in 0..Len(adjusted) :
            b[m] = IF m = 0 THEN Takes!Quantities(Opening)
                   ELSE [b[m - 1] EXCEPT ![adjusted[m].item] = b[m - 1][adjusted[m].item] + adjusted[m].delta]
    <3>1. \A m \in 0..Len(adjusted) : m = 0 \/ m \in 1..Len(adjusted)
      BY DEF TakesTyped
    <3> QED
      BY <3>1 DEF IsReplay
  <2> QED
    BY <2>1, <2>2
<1>3. ASSUME NEW f, f = Step(f)
      PROVE  IsReplay(f)
  <2>1. /\ Step(f) = [m \in 0..Len(adjusted) |-> Step(f)[m]]
        /\ Step(f)[0] = Takes!Quantities(Opening)
    BY DEF TakesTyped
  <2>2. ASSUME NEW m \in 1..Len(adjusted)
        PROVE  Step(f)[m] = [f[m - 1] EXCEPT ![adjusted[m].item] =
                                f[m - 1][adjusted[m].item] + adjusted[m].delta]
    <3>1. m \in 0..Len(adjusted) /\ m # 0
      BY DEF TakesTyped
    <3> QED
      BY <3>1
  <2> HIDE DEF Step
  <2> QED
    BY <1>3, <2>1, <2>2 DEF IsReplay
<1> QED
  <2> HIDE DEF Step
  <2> QED
    BY <1>1, <1>2, <1>3, OneReplay

(* Before there are adjustments, the balances are the opening ones.        *)
LEMMA BooksInit ==
    ASSUME Takes!Init
    PROVE  BooksSafe
<1> DEFINE b == [m \in 0..0 |-> Takes!Quantities(Opening)]
<1>1. DOMAIN Opening \subseteq Goods /\ \A i \in DOMAIN Opening : Opening[i] \in Int
  BY TakesAssumption DEF Takes!StockAssumption
<1>2. Takes!Quantities(Opening) \in [Goods -> Int]
  BY <1>1 DEF Takes!Quantities
<1>3. adjusted = << >> /\ Len(adjusted) = 0 /\ stock = Opening /\ traded = [i \in Goods |-> 0]
  BY DEF Takes!Init
<1>4. b \in [0..0 -> [Goods -> Int]] /\ b[0] = Takes!Quantities(Opening)
  BY <1>2
<1> HIDE DEF b
<1>5. b \in [0..Len(adjusted) -> [Goods -> Int]] /\ IsReplay(b)
  BY <1>3, <1>4 DEF IsReplay
<1>6. \A i \in Goods : Takes!Quantities(stock)[i] = b[Len(adjusted)][i] + traded[i]
  BY <1>2, <1>3, <1>4
<1> QED
  BY <1>3, <1>5, <1>6, TakesInit DEF BooksSafe, Replayed

(* Without new adjustments, balances change with the trade alone.          *)
LEMMA TradeReplayed ==
    ASSUME BooksSafe, TakesSafe', UNCHANGED adjusted, traded' \in [Goods -> Int],
           \A i \in Goods : Takes!Quantities(stock)'[i] - traded'[i]
                            = Takes!Quantities(stock)[i] - traded[i]
    PROVE  BooksSafe'
<1>1. PICK b \in [0..Len(adjusted) -> [Goods -> Int]] :
         IsReplay(b) /\ \A i \in Goods : Takes!Quantities(stock)[i] = b[Len(adjusted)][i] + traded[i]
  BY DEF BooksSafe, Replayed
<1>2. IsReplay(b)'
  BY <1>1 DEF IsReplay, Takes!Quantities
<1>3. ASSUME NEW i \in Goods
      PROVE  Takes!Quantities(stock)'[i] = b[Len(adjusted)][i] + traded'[i]
  <2>1. traded[i] \in Int /\ traded'[i] \in Int /\ b[Len(adjusted)][i] \in Int
    BY DEF BooksSafe, TakesSafe, TakesTyped
  <2>2. Takes!Quantities(stock)[i] \in Int /\ Takes!Quantities(stock)'[i] \in Int
    BY DEF BooksSafe, TakesSafe, TakesTyped, Takes!Quantities
  <2>3. Takes!Quantities(stock)[i] = b[Len(adjusted)][i] + traded[i]
    BY <1>1
  <2>4. Takes!Quantities(stock)'[i] - traded'[i] = Takes!Quantities(stock)[i] - traded[i]
    OBVIOUS
  <2> QED
    BY <2>1, <2>2, <2>3, <2>4
<1> QED
  BY <1>2, <1>3 DEF BooksSafe, Replayed

(* Movements after others keep their order.                                *)
LEMMA SequenceAdded ==
    ASSUME NEW s \in Seq(Movement), NEW a \in Seq(Movement), NEW n \in Nat, Len(a) = n
    PROVE  /\ Len(s \o a) = Len(s) + n
           /\ \A m \in 1..Len(s) : (s \o a)[m] = s[m]
           /\ \A k \in 1..n : (s \o a)[Len(s) + k] = a[k]
OBVIOUS

(* The movements of n items are added, and what they do to one.            *)
Added(n, d, moved) ==
    /\ Len(adjusted') = Len(adjusted) + n
    /\ \A m \in 1..Len(adjusted) : adjusted'[m] = adjusted[m]
    /\ \A k \in 1..n : /\ adjusted'[Len(adjusted) + k].item = d[k]
                      /\ adjusted'[Len(adjusted) + k].delta = moved[d[k]]
Landed(n, d, moved, i) == IF \E k \in 1..n : d[k] = i THEN moved[i] ELSE 0

(* Adding the movements of a completion replays the counted balances: each *)
(* differing item has one movement, with the difference.                   *)
LEMMA MovementsReplay ==
    ASSUME TakesTyped, TakesTyped', NEW b \in [0..Len(adjusted) -> [Goods -> Int]], IsReplay(b),
           NEW n \in Nat, NEW d \in [1..n -> Goods], \A j, k \in 1..n : d[j] = d[k] => j = k,
           NEW moved \in [Goods -> Int],
           Added(n, d, moved)
    PROVE  \E a \in [0..Len(adjusted') -> [Goods -> Int]] :
              /\ IsReplay(a)'
              /\ \A i \in Goods :
                    a[Len(adjusted')][i] = b[Len(adjusted)][i] + Landed(n, d, moved, i)
<1>1. PICK len : len = Len(adjusted)
  OBVIOUS
<1>2. len \in Nat /\ adjusted \in [1..len -> Movement] /\ adjusted' \in [1..len + n -> Movement']
  BY <1>1 DEF TakesTyped, Added
<1> DEFINE Made(k, i) == Landed(k, d, moved, i)
           chain == [m \in 0..len + n |->
                       IF m <= len THEN b[m] ELSE [i \in Goods |-> b[len][i] + Made(m - len, i)]]
<1>3. PICK a : a = chain
  OBVIOUS
<1>4. b[len] \in [Goods -> Int] /\ \A m \in 0..len : b[m] \in [Goods -> Int]
  <2>1. len \in 0..Len(adjusted) /\ 0..len = 0..Len(adjusted)
    BY <1>1, <1>2
  <2> QED
    BY <2>1
<1>5. ASSUME NEW k \in 0..n
      PROVE  \A i \in Goods : Made(k, i) \in Int
  BY DEF Landed
<1>6. a \in [0..len + n -> [Goods -> Int]]
  <2> SUFFICES ASSUME NEW m \in 0..len + n
               PROVE  (IF m <= len THEN b[m] ELSE [i \in Goods |-> b[len][i] + Made(m - len, i)])
                      \in [Goods -> Int]
    BY <1>3
  <2>1. CASE m <= len
    BY <1>2, <1>4, <2>1
  <2>2. CASE ~ (m <= len)
    <3>1. m - len \in 0..n
      BY <1>2, <2>2
    <3>2. \A i \in Goods : Made(m - len, i) \in Int
      BY <1>5, <3>1
    <3> HIDE DEF Made
    <3> QED
      BY <1>4, <2>2, <3>2
  <2> QED
    BY <2>1, <2>2
<1>7. \A m \in 0..len : a[m] = b[m]
  BY <1>2, <1>3
<1>8. ASSUME NEW k \in 0..n
      PROVE  a[len + k] = [i \in Goods |-> b[len][i] + Made(k, i)]
  <2>1. CASE k = 0
    <3>1. \A i \in Goods : Made(0, i) = 0
      BY DEF Landed
    <3>2. b[len] = [i \in Goods |-> b[len][i] + Made(0, i)]
      <4> HIDE DEF Made
      <4> QED
        BY <1>4, <3>1
    <3> HIDE DEF Made
    <3> QED
      BY <1>2, <1>7, <2>1, <3>2
  <2>2. CASE k # 0
    <3>1. len + k \in 0..len + n /\ ~ (len + k <= len) /\ (len + k) - len = k
      BY <1>2, <2>2
    <3> HIDE DEF Made
    <3> QED
      BY <1>3, <3>1
  <2> QED
    BY <2>1, <2>2
<1>9. ASSUME NEW k \in 1..n
      PROVE  a[len + k] = [a[len + k - 1] EXCEPT ![d[k]] = a[len + k - 1][d[k]] + moved[d[k]]]
  <2>1. PICK p : p = k - 1
    OBVIOUS
  <2>2. p \in 0..n /\ len + k - 1 = len + p /\ k \in 0..n
    BY <1>2, <2>1
  <2>3. a[len + p] = [i \in Goods |-> b[len][i] + Made(p, i)]
        /\ a[len + k] = [i \in Goods |-> b[len][i] + Made(k, i)]
    BY <1>8, <2>2
  <2>4. \A i \in Goods : i # d[k] => Made(k, i) = Made(p, i)
    BY <2>1 DEF Landed
  <2>5. Made(p, d[k]) = 0 /\ Made(k, d[k]) = moved[d[k]]
    <3>1. \A j \in 1..p : d[j] # d[k]
      BY <2>1
    <3> QED
      BY <3>1 DEF Landed
  <2>6. d[k] \in Goods /\ moved[d[k]] \in Int
    OBVIOUS
  <2> HIDE DEF chain, Made
  <2>7. a[len + p] \in [Goods -> Int] /\ a[len + k] \in [Goods -> Int]
    BY <1>2, <1>6, <2>2
  <2>8. \A i \in Goods : i # d[k] => a[len + k][i] = a[len + p][i]
    BY <2>3, <2>4
  <2>9. a[len + k][d[k]] = a[len + p][d[k]] + moved[d[k]]
    BY <1>4, <2>3, <2>5, <2>6
  <2>10. a[len + k] = [a[len + p] EXCEPT ![d[k]] = a[len + p][d[k]] + moved[d[k]]]
    BY <2>6, <2>7, <2>8, <2>9
  <2> QED
    BY <2>2, <2>10
<1>10. ASSUME NEW m \in 1..len + n
      PROVE  a[m] = [a[m - 1] EXCEPT ![adjusted'[m].item] = a[m - 1][adjusted'[m].item] + adjusted'[m].delta]
  <2>1. CASE m \in 1..len
    <3>1. a[m] = b[m] /\ a[m - 1] = b[m - 1]
      BY <1>2, <1>7, <2>1
    <3>2. adjusted'[m] = adjusted[m]
      BY <1>1, <2>1 DEF Added
    <3> QED
      BY <1>1, <2>1, <3>1, <3>2 DEF IsReplay
  <2>2. CASE m \notin 1..len
    <3>1. PICK k \in 1..n : m = len + k
      <4>1. m - len \in 1..n /\ m = len + (m - len)
        BY <1>2, <2>2
      <4> QED
        BY <4>1
    <3>2. adjusted'[m].item = d[k] /\ adjusted'[m].delta = moved[d[k]]
      BY <1>1, <3>1 DEF Added
    <3> HIDE DEF chain
    <3>3. m - 1 = len + k - 1
      BY <1>2, <3>1
    <3>4. a[m] = [a[m - 1] EXCEPT ![d[k]] = a[m - 1][d[k]] + moved[d[k]]]
      BY <1>9, <3>1, <3>3
    <3> QED
      BY <3>2, <3>4
  <2> QED
    BY <2>1, <2>2
<1>11. a[0] = Takes!Quantities(Opening)
  <2>1. b[0] = Takes!Quantities(Opening)
    BY DEF IsReplay
  <2>2. a[0] = b[0]
    BY <1>2, <1>7
  <2> QED
    BY <2>1, <2>2
<1>12. a = [m \in 0..len + n |-> a[m]]
  BY <1>3
<1>13. \A i \in Goods : a[len + n][i] = b[len][i] + Landed(n, d, moved, i)
  <2>1. a[len + n] = [i \in Goods |-> b[len][i] + Made(n, i)]
    <3> HIDE DEF chain, Made
    <3> QED
      BY <1>8
  <2> HIDE DEF chain, Landed
  <2> QED
    BY <2>1
<1> HIDE DEF chain, Made
<1>14. Len(adjusted') = len + n
  BY <1>1 DEF Added
<1>15. IsReplay(a)'
  BY <1>10, <1>11, <1>12, <1>14 DEF IsReplay, Takes!Quantities
<1>16. a \in [0..Len(adjusted') -> [Goods -> Int]]
  BY <1>6, <1>14
<1>17. \A i \in Goods :
          a[Len(adjusted')][i] = b[Len(adjusted)][i] + Landed(n, d, moved, i)
  <2> HIDE DEF Landed
  <2> QED
    BY <1>1, <1>13, <1>14
<1> QED
  <2> HIDE DEF Landed
  <2> QED
    BY <1>15, <1>16, <1>17

(* A completion books what it finds, not what was counted against.         *)
LEMMA CompleteReplayed ==
    ASSUME BooksSafe, NEW c \in Counter, Takes!Complete(c)
    PROVE  BooksSafe'
<1>1. TakesSafe /\ TakesSafe' /\ TakesTyped /\ TakesTyped'
  BY CompleteSafe DEF BooksSafe, TakesSafe
<1>2. PICK b \in [0..Len(adjusted) -> [Goods -> Int]] :
         IsReplay(b) /\ \A i \in Goods : Takes!Quantities(stock)[i] = b[Len(adjusted)][i] + traded[i]
  BY DEF BooksSafe, Replayed
<1>3. PICK t : t = call[c].take
  OBVIOUS
<1>4. PICK counted : counted = call[c].quantity
  OBVIOUS
<1>5. PICK d : d = Takes!Differing(counted)
  OBVIOUS
<1>6. PICK delta : delta = [i \in DOMAIN counted |-> counted[i] - stock[i]]
  OBVIOUS
<1>7. PICK added : added = Takes!Adjustments(t, counted, delta)
  OBVIOUS
<1>8. adjusted' = adjusted \o added /\ stock' = Takes!Balances(t, counted) /\ traded' = traded
  BY <1>3, <1>4, <1>6, <1>7 DEF Takes!Complete, Takes!Post
<1>9. PICK n \in Nat : AdjustsOnce(t, counted, d, added, n)
  BY <1>1, <1>3, <1>4, <1>5, <1>6, <1>7, AdjustmentsFit
<1>10. ReadFits(c)
  BY DEF BooksSafe, TakesSafe, ReadsFit, Takes!Complete, Takes!Doing
<1>11. DOMAIN counted \subseteq DOMAIN stock /\ \A i \in DOMAIN counted : counted[i] \in Int
  BY <1>4, <1>10 DEF ReadFits
<1>12. DOMAIN stock \subseteq Goods /\ \A i \in DOMAIN stock : stock[i] \in Int
  BY DEF BooksSafe, TakesSafe, TakesTyped
<1>13. PICK moved : moved = [i \in Goods |-> IF i \in DOMAIN counted THEN counted[i] - stock[i] ELSE 0]
  OBVIOUS
<1>14. moved \in [Goods -> Int]
  BY <1>11, <1>12, <1>13
<1>15. PICK e : e = [k \in 1..n |-> d[k]]
  OBVIOUS
<1>16. e \in [1..n -> Goods] /\ \A j, k \in 1..n : e[j] = e[k] => j = k
  BY <1>9, <1>11, <1>12, <1>15 DEF AdjustsOnce
<1>17. /\ Len(adjusted') = Len(adjusted) + n
       /\ \A m \in 1..Len(adjusted) : adjusted'[m] = adjusted[m]
       /\ \A k \in 1..n : adjusted'[Len(adjusted) + k] = added[k]
  <2>1. adjusted \in Seq(Movement)
    BY <1>1 DEF TakesTyped
  <2>2. added \in Seq(Movement) /\ Len(added) = n
    BY <1>9 DEF AdjustsOnce
  <2> QED
    BY <1>8, <2>1, <2>2, SequenceAdded
<1>18. Added(n, e, moved)
  <2>1. \A k \in 1..n : e[k] = d[k] /\ d[k] \in Goods /\ moved[d[k]] = counted[d[k]] - stock[d[k]]
    BY <1>9, <1>11, <1>12, <1>13, <1>15 DEF AdjustsOnce
  <2>2. \A k \in 1..n : added[k].item = e[k] /\ added[k].delta = moved[e[k]]
    BY <1>9, <2>1 DEF AdjustsOnce
  <2> QED
    BY <1>17, <2>2 DEF Added
<1>19. PICK a \in [0..Len(adjusted') -> [Goods -> Int]] :
          /\ IsReplay(a)'
          /\ \A i \in Goods :
                a[Len(adjusted')][i] = b[Len(adjusted)][i] + Landed(n, e, moved, i)
  BY <1>1, <1>2, <1>14, <1>16, <1>18, MovementsReplay
<1>20. ASSUME NEW i \in Goods
       PROVE  Takes!Quantities(stock)'[i] = a[Len(adjusted')][i] + traded'[i]
  <2>1. PICK x : x = Landed(n, e, moved, i)
    OBVIOUS
  <2>2. (\E k \in 1..n : e[k] = i) <=> i \in DOMAIN counted /\ counted[i] # stock[i]
    BY <1>9, <1>15 DEF AdjustsOnce
  <2>3. Takes!Quantities(stock)[i] = IF i \in DOMAIN stock THEN stock[i] ELSE 0
    BY DEF Takes!Quantities
  <2>4. Takes!Quantities(stock)'[i] =
           IF i \in DOMAIN counted THEN counted[i] ELSE IF i \in DOMAIN stock THEN stock[i] ELSE 0
    BY <1>8, <1>11 DEF Takes!Quantities, Takes!Balances
  <2>5. x = IF i \in DOMAIN counted THEN counted[i] - stock[i] ELSE 0
    <3>1. x = IF i \in DOMAIN counted /\ counted[i] # stock[i] THEN moved[i] ELSE 0
      BY <2>1, <2>2 DEF Landed
    <3>2. i \in DOMAIN counted => counted[i] \in Int /\ stock[i] \in Int
      BY <1>11, <1>12
    <3>3. moved[i] = IF i \in DOMAIN counted THEN counted[i] - stock[i] ELSE 0
      BY <1>13
    <3> QED
      BY <3>1, <3>2, <3>3
  <2>6. Takes!Quantities(stock)'[i] = Takes!Quantities(stock)[i] + x /\ x \in Int
    BY <1>11, <1>12, <2>3, <2>4, <2>5
  <2>7. Takes!Quantities(stock)[i] = b[Len(adjusted)][i] + traded[i]
    BY <1>2
  <2>8. a[Len(adjusted')][i] = b[Len(adjusted)][i] + x
    BY <1>19, <2>1
  <2>9. b[Len(adjusted)][i] \in Int /\ traded[i] \in Int
    BY <1>1 DEF BooksSafe, TakesTyped
  <2> QED
    BY <1>8, <2>6, <2>7, <2>8, <2>9
<1> QED
  BY <1>1, <1>8, <1>19, <1>20 DEF BooksSafe, Replayed

(* Every step keeps the balances explained.                                *)
LEMMA BooksStep ==
    ASSUME BooksSafe, [Takes!Next]_(Takes!vars)
    PROVE  BooksSafe'
<1>1. TakesSafe'
  BY TakesStep DEF BooksSafe
<1>2. ASSUME UNCHANGED <<stock, traded, adjusted>>
      PROVE  BooksSafe'
  BY <1>1, <1>2, TradeReplayed DEF BooksSafe, Takes!Quantities
<1>3. ASSUME NEW i \in Trading, Takes!Sell(i)
      PROVE  BooksSafe'
  <2>1. i \in Goods /\ i \in DOMAIN stock /\ stock[i] \in Int /\ traded[i] \in Int
    BY <1>3, TakesAssumption DEF Takes!StockAssumption, Takes!Sell, BooksSafe, TakesSafe, TakesTyped
  <2>2. /\ stock' = [stock EXCEPT ![i] = stock[i] - 1] /\ traded' = [traded EXCEPT ![i] = traded[i] - 1]
        /\ UNCHANGED adjusted
    BY <1>3 DEF Takes!Sell
  <2>3. traded' \in [Goods -> Int]
    BY <2>1, <2>2 DEF BooksSafe
  <2>4. \A j \in Goods : Takes!Quantities(stock)'[j] - traded'[j] = Takes!Quantities(stock)[j] - traded[j]
    <3> SUFFICES ASSUME NEW j \in Goods
                 PROVE  Takes!Quantities(stock)'[j] - traded'[j] = Takes!Quantities(stock)[j] - traded[j]
      OBVIOUS
    <3>1. CASE j = i
      BY <2>1, <2>2, <3>1 DEF Takes!Quantities, BooksSafe
    <3>2. CASE j # i
      BY <2>1, <2>2, <3>2 DEF Takes!Quantities, BooksSafe
    <3> QED
      BY <3>1, <3>2
  <2> QED
    BY <1>1, <2>2, <2>3, <2>4, TradeReplayed
<1>4. ASSUME NEW i \in Trading, Takes!Receive(i)
      PROVE  BooksSafe'
  <2>1. i \in Goods /\ traded[i] \in Int /\ (i \in DOMAIN stock => stock[i] \in Int)
    BY TakesAssumption DEF Takes!StockAssumption, BooksSafe, TakesSafe, TakesTyped
  <2>2. /\ stock' = [j \in DOMAIN stock \cup {i} |->
                       IF j # i THEN stock[j] ELSE IF i \in DOMAIN stock THEN stock[i] + 1 ELSE 1]
        /\ traded' = [traded EXCEPT ![i] = traded[i] + 1] /\ UNCHANGED adjusted
    BY <1>4 DEF Takes!Receive
  <2>3. traded' \in [Goods -> Int]
    BY <2>1, <2>2 DEF BooksSafe
  <2>4. \A j \in Goods : Takes!Quantities(stock)'[j] - traded'[j] = Takes!Quantities(stock)[j] - traded[j]
    <3> SUFFICES ASSUME NEW j \in Goods
                 PROVE  Takes!Quantities(stock)'[j] - traded'[j] = Takes!Quantities(stock)[j] - traded[j]
      OBVIOUS
    <3>1. CASE j = i
      BY <2>1, <2>2, <3>1 DEF Takes!Quantities, BooksSafe
    <3>2. CASE j # i
      BY <2>1, <2>2, <3>2 DEF Takes!Quantities, BooksSafe
    <3> QED
      BY <3>1, <3>2
  <2> QED
    BY <1>1, <2>2, <2>3, <2>4, TradeReplayed
<1>5. CASE UNCHANGED Takes!vars
  BY <1>2, <1>5 DEF Takes!vars
<1> QED
  BY <1>2, <1>3, <1>4, <1>5, CompleteReplayed
     DEF Takes!Next, Takes!Create, Takes!Cancel, Takes!StartRead, Takes!CompleteRead, Takes!CountRead,
         Takes!Begin, Takes!Start, Takes!Count, Takes!Abandon

(* STK-004, STK-006, INV-002: however counts, starts, completions and trade*)
(* overlap, the lines of a take match its adjustments, and these and the   *)
(* trade explain every balance.                                            *)
THEOREM CountingAdjustsStock == Takes!Spec => []CountsAdjustStock
<1>1. ASSUME BooksSafe
      PROVE  CountsAdjustStock
  <2>1. PICK b \in [0..Len(adjusted) -> [Goods -> Int]] :
           IsReplay(b) /\ \A i \in Goods : Takes!Quantities(stock)[i] = b[Len(adjusted)][i] + traded[i]
    BY <1>1 DEF BooksSafe, Replayed
  <2>2. Takes!Books = b
    BY <1>1, <2>1, BooksReplay DEF BooksSafe, TakesSafe
  <2>3. Takes!StockIsExplained
    BY <2>1, <2>2 DEF Takes!StockIsExplained
  <2> QED
    BY <1>1, <2>3 DEF BooksSafe, TakesSafe, CountsAdjustStock, Takes!CountsAdjustStock
<1>2. Takes!Spec => []BooksSafe
  BY BooksInit, BooksStep, PTL DEF Takes!Spec
<1> QED
  BY <1>1, <1>2, PTL
-----------------------------------------------------------------------------
(* A behaviour of the run is one of every part, as those that are not its  *)
(* part rest.                                                              *)
THEOREM PartsAreComponents == MCSpec => Spec /\ Takes!Spec /\ Shelf!Spec
<1> USE DEF takes, shelf, Takes!vars, Shelf!vars
<1>1. MCInit => Init /\ Takes!Init /\ Shelf!Init
  BY DEF MCInit
<1>2. [MCNext]_MCVars => [Next]_vars
  BY DEF MCNext, MCVars, Only, Others, vars
<1>3. [MCNext]_MCVars => [Takes!Next]_(Takes!vars)
  BY DEF MCNext, MCVars, Only, Others
<1>4. [MCNext]_MCVars => [Shelf!Next]_(Shelf!vars)
  BY DEF MCNext, MCVars, Only, Others
<1> QED
  BY <1>1, <1>2, <1>3, <1>4, PTL DEF MCSpec, Spec, Takes!Spec, Shelf!Spec

(* So everything that the run checks holds of it, for any number of        *)
(* attempts, takes, counters, goods, editors, categories and products.     *)
THEOREM BackOfficeHolds ==
    MCSpec => /\ [](CountsAdjustStock /\ EffectOnce /\ AnswerIsOwnEffect)
              /\ EditsStartFromWhatTheyRead
  BY PartsAreComponents, CountingAdjustsStock, RetriesTakeEffectOnce, SuccessIsOwn, EditsAreOfTheirRow,
     PTL
=============================================================================
