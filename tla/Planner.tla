------------------------------- MODULE Planner -------------------------------
(***************************************************************************)
(* SchedulesService, ScheduleCategoryService and the product catalogue of  *)
(* BillingService: rows that are read, checked together with an edit's     *)
(* fields and then written field by field.                                 *)
(***************************************************************************)
EXTENDS Server

CONSTANTS
    Schedules,    \* schedules, a finite supply
    Categories,   \* categories of schedules, a finite supply
    Labels,       \* the names, and the colours, that categories are given
    Products,     \* products, a finite supply
    Horizon       \* the last point in time a schedule starts or ends at

ASSUME PlannerAssumption == Horizon \in Nat

VARIABLES
    schedule,   \* schedules
    category,   \* categories
    product     \* products

plannerVars == <<schedule, category, product>>

Times == 0..Horizon
\* `overtaken` is history: an edit was saved that had read the row before another one was.
ScheduleRow == [state: {"none", "there", "deleted"}, start: Times, end: Times, category: SUBSET Categories, overtaken: BOOLEAN]
NoSchedule == [state |-> "none", start |-> 0, end |-> 0, category |-> {}, overtaken |-> FALSE]
CategoryRow == [state: {"none", "there", "deleted"}, name: Labels \cup {"none"}, color: Labels \cup {"none"}]
NoCategory == [state |-> "none", name |-> "none", color |-> "none"]
ProductTypes == {"PASS_SINGLE", "PASS_SUBSCRIPTION", "CREDIT_PACK"}
\* `system` is the product that administrators grant credits with, known by its code.
ProductRow == [there: BOOLEAN, type: ProductTypes, months: 0..1, credits: 0..1, active: BOOLEAN, system: BOOLEAN,
               overtaken: BOOLEAN]
NoProduct == [there |-> FALSE, type |-> "PASS_SINGLE", months |-> 0, credits |-> 0, active |-> FALSE, system |-> FALSE,
              overtaken |-> FALSE]

PlannerTypeOK ==
    /\ schedule \in [Schedules -> ScheduleRow]
    /\ category \in [Categories -> CategoryRow]
    /\ product \in [Products -> ProductRow]

PlannerInit ==
    /\ schedule = [s \in Schedules |-> NoSchedule]
    /\ category = [c \in Categories |-> NoCategory]
    /\ product = [p \in Products |-> NoProduct]

OneOf(given, was) == IF given = {} THEN was ELSE CHOOSE x \in given : TRUE
AtMostOne(S) == {{}} \cup {{x} : x \in S}

DeletedSchedule == [NoSchedule EXCEPT !.state = "deleted"]

(***************************************************************************)
(* Categories: unique names and colours; their schedules go with them.     *)
(***************************************************************************)
CategoryThere(c) == category[c].state = "there"
ScheduleThere(s) == schedule[s].state = "there"
FreeFor(c, name, color) ==
    \A d \in Categories \ {c} : CategoryThere(d) => category[d].name # name /\ category[d].color # color

CreateCategory ==
    /\ Serve("createCategory")
    /\ \E c \in Categories, name, color \in Labels :
         /\ category[c].state = "none" /\ FreeFor(c, name, color)
         /\ category' = [category EXCEPT ![c] = [state |-> "there", name |-> name, color |-> color]]
    /\ UNCHANGED <<schedule, product>>

UpdateCategory ==
    /\ Serve("updateCategory")
    /\ \E c \in Categories, name, color \in AtMostOne(Labels) :
         LET row == [state |-> "there", name |-> OneOf(name, category[c].name), color |-> OneOf(color, category[c].color)] IN
         /\ CategoryThere(c) /\ FreeFor(c, row.name, row.color)
         /\ category' = [category EXCEPT ![c] = row]
    /\ UNCHANGED <<schedule, product>>

DeleteCategory ==
    /\ Serve("deleteCategory")
    /\ \E c \in Categories :
         /\ CategoryThere(c)
         /\ category' = [category EXCEPT ![c] = [NoCategory EXCEPT !.state = "deleted"]]
         /\ schedule' = [s \in Schedules |-> IF c \in schedule[s].category THEN DeletedSchedule ELSE schedule[s]]
    /\ UNCHANGED product

(***************************************************************************)
(* Schedules: the category is looked up, then the row written; a category  *)
(* that is gone by then fails its foreign key.                             *)
(***************************************************************************)
BeginSchedule(r) ==
    /\ \E start, end \in Times, cs \in AtMostOne({c \in Categories : CategoryThere(c)}) :
         /\ start <= end
         /\ Begin(r, "createSchedule", [op |-> "createSchedule", step |-> "save",
                                        row |-> [NoSchedule EXCEPT !.state = "there", !.start = start, !.end = end,
                                                                   !.category = cs]])
    /\ UNCHANGED plannerVars

SaveNewSchedule(r) ==
    /\ At(r, "createSchedule", "save")
    /\ \E s \in Schedules :
         /\ schedule[s].state = "none"
         /\ schedule' = IF \A c \in req[r].row.category : CategoryThere(c)
                        THEN [schedule EXCEPT ![s] = req[r].row] ELSE schedule
    /\ Reply(r)
    /\ UNCHANGED <<category, product>>

\* newStart and newEnd of the check, and of the row, which takes only what the edit gives.
EditedSchedule(edit, row) ==
    [row EXCEPT !.start = OneOf(edit.start, @), !.end = OneOf(edit.end, @), !.category = OneOf(edit.category, @)]

InAnyOrder(row) == TRUE
InOrder(row) == row.start <= row.end

BeginEditSchedule(r) ==
    /\ \E s \in Schedules, start, end \in AtMostOne(Times),
          cs \in {{}, {{}}} \cup {{{c}} : c \in {d \in Categories : CategoryThere(d)}} :
         LET edit == [start |-> start, end |-> end, category |-> cs] IN
         /\ ScheduleThere(s)
         /\ InOrder(EditedSchedule(edit, schedule[s]))
         /\ Begin(r, "updateSchedule", [op |-> "updateSchedule", step |-> "save", schedule |-> s, edit |-> edit,
                                        read |-> schedule[s]])
    /\ UNCHANGED plannerVars

SaveSchedule(r) ==
    LET q == req[r]
        row == EditedSchedule(q.edit, schedule[q.schedule]) IN
    /\ At(r, "updateSchedule", "save")
    /\ schedule' = IF ScheduleThere(q.schedule) /\ \A c \in row.category : CategoryThere(c)
                   THEN [schedule EXCEPT ![q.schedule] = [row EXCEPT !.overtaken = @ \/ schedule[q.schedule] # q.read]]
                   ELSE schedule
    /\ Reply(r)
    /\ UNCHANGED <<category, product>>

DeleteSchedule ==
    /\ Serve("deleteSchedule")
    /\ \E s \in Schedules : ScheduleThere(s) /\ schedule' = [schedule EXCEPT ![s] = DeletedSchedule]
    /\ UNCHANGED <<category, product>>

(***************************************************************************)
(* Products: sanitizeProductData fixes the fields that the type decides.   *)
(***************************************************************************)

\* What an administrator sends: every field may be missing in an edit, months also in a new product.
ProductEdits == [type: AtMostOne(ProductTypes), months: AtMostOne({1}), credits: AtMostOne({0, 1}), active: AtMostOne({FALSE})]

\* The fields that sanitizeProductData writes: none for a subscription but those that are given.
Sanitized(edit, row) ==
    LET type == OneOf(edit.type, row.type) IN
    [edit EXCEPT
       !.months = CASE type = "PASS_SINGLE" -> {1} [] type = "CREDIT_PACK" -> {0} [] OTHER -> @,
       !.credits = CASE type = "PASS_SINGLE" -> {0} [] type = "CREDIT_PACK" -> {OneOf(@, row.credits)} [] OTHER -> @]

\* A credit pack needs credits.
Rejected(edit, row) == OneOf(edit.type, row.type) = "CREDIT_PACK" /\ OneOf(edit.credits, row.credits) = 0

WithFields(edit, row) ==
    [row EXCEPT !.type = OneOf(edit.type, @), !.months = OneOf(edit.months, @), !.credits = OneOf(edit.credits, @),
                !.active = OneOf(edit.active, @)]

CreateProduct ==
    /\ Serve("createProduct")
    /\ \E p \in Products, edit \in ProductEdits :
         LET blank == [NoProduct EXCEPT !.there = TRUE, !.active = TRUE] IN
         /\ ~product[p].there /\ edit.type # {} /\ ~Rejected(edit, blank)
         /\ product' = [product EXCEPT ![p] = WithFields(Sanitized(edit, blank), blank)]
    /\ UNCHANGED <<schedule, category>>

\* createAdminCreditGrantProduct: its code is unique.
CreateGrantProduct ==
    /\ Serve("createGrantProduct")
    /\ \A p \in Products : ~product[p].system
    /\ \E p \in Products :
         /\ ~product[p].there
         /\ product' = [product EXCEPT ![p] = [NoProduct EXCEPT !.there = TRUE, !.type = "CREDIT_PACK", !.system = TRUE]]
    /\ UNCHANGED <<schedule, category>>

BeginEditProduct(r) ==
    /\ \E p \in Products, edit \in ProductEdits :
         LET row == product[p] IN
         /\ row.there /\ ~row.system /\ ~Rejected(edit, row)
         /\ Begin(r, "updateProduct", [op |-> "updateProduct", step |-> "save", product |-> p,
                                       edit |-> Sanitized(edit, row), read |-> row])
    /\ UNCHANGED plannerVars

SaveProduct(r) ==
    LET q == req[r]
        row == WithFields(q.edit, product[q.product]) IN
    /\ At(r, "updateProduct", "save")
    /\ product' = [product EXCEPT ![q.product] = [row EXCEPT !.overtaken = @ \/ product[q.product] # q.read]]
    /\ Reply(r)
    /\ UNCHANGED <<schedule, category>>

\* assertBankTransferPurchasable, by which createBankTransferPayment lets a payment copy the row.
Purchasable(row) == row.there /\ row.active /\ row.type \in {"PASS_SINGLE", "CREDIT_PACK"}

PlannerNext ==
    \/ CreateCategory \/ UpdateCategory \/ DeleteCategory \/ DeleteSchedule
    \/ CreateProduct \/ CreateGrantProduct
    \/ \E r \in Requests :
         \/ BeginSchedule(r) \/ SaveNewSchedule(r) \/ BeginEditSchedule(r) \/ SaveSchedule(r)
         \/ BeginEditProduct(r) \/ SaveProduct(r)

(***************************************************************************)
(* Properties.                                                             *)
(***************************************************************************)

\* A schedule ends no earlier than it starts, however its two times are edited one after the other,
\* unless an edit was decided on a row that another one had changed by the time it was saved
\* (createSchedule, updateSchedule).
SchedulesInOrder == \A s \in Schedules : schedule[s].start <= schedule[s].end \/ schedule[s].overtaken

\* A product that can be bought gives what its type says, a pass months and a pack credits, whatever it
\* was before, unless an edit of it was overtaken by another one (createProduct, updateProduct).
PurchasableAsTyped ==
    \A p \in Products :
      Purchasable(product[p]) =>
        \/ product[p].overtaken
        \/ product[p].type = "PASS_SINGLE" /\ product[p].months > 0 /\ product[p].credits = 0
        \/ product[p].type = "CREDIT_PACK" /\ product[p].months = 0 /\ product[p].credits > 0
=============================================================================
