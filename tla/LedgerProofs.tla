---------------------------- MODULE LedgerProofs ----------------------------
(***************************************************************************)
(* For every number of requests and records, every catalog of currencies   *)
(* with up to three decimals and every maximum: the ledger is well typed,  *)
(* its amounts stay in range, and families of records share a currency.    *)
(***************************************************************************)
EXTENDS Ledger, TLAPS

\* The exponents of the catalog make a factor a power of ten.
LEMMA FactorValues ==
    ASSUME NEW from \in Currencies, NEW to \in Currencies
    PROVE  Factor(from, to) \in {1, 10, 100, 1000}
<1>1. Exponent[from] \in 0..3 /\ Exponent[to] \in 0..3
    BY LedgerAssumption
<1> QED  BY <1>1 DEF Factor, Grows, PowerOfTen

\* Scaling an amount that is not blocked keeps it within 1..MaxAmount: what is
\* checked and what is written use the same factor.
LEMMA ScaledInRange ==
    ASSUME NEW from \in Currencies, NEW to \in Currencies,
           NEW amount \in 1..MaxAmount, ~Blocked(amount, from, to)
    PROVE  Scaled(amount, from, to) \in 1..MaxAmount
<1>1. Exponent[from] \in 0..3 /\ Exponent[to] \in 0..3 /\ MaxAmount \in Nat
    BY LedgerAssumption
<1>2. CASE Grows(from, to)
  <2>1. amount <= MaxAmount \div Factor(from, to)
      BY <1>1, <1>2, FactorValues DEF Blocked
  <2>2. amount * Factor(from, to) \in 1..MaxAmount
    <3>1. CASE Factor(from, to) = 1    BY <1>1, <2>1, <3>1
    <3>2. CASE Factor(from, to) = 10   BY <1>1, <2>1, <3>2
    <3>3. CASE Factor(from, to) = 100  BY <1>1, <2>1, <3>3
    <3>4. CASE Factor(from, to) = 1000 BY <1>1, <2>1, <3>4
    <3> QED  BY <3>1, <3>2, <3>3, <3>4, FactorValues
  <2> QED  BY <1>2, <2>2 DEF Scaled
<1>3. CASE ~Grows(from, to)
  <2>1. Factor(from, to) <= amount
    <3>1. CASE Exponent[to] < Exponent[from]
        BY <1>3, <3>1, FactorValues DEF Blocked
    <3>2. CASE Exponent[to] = Exponent[from]
        BY <1>1, <1>3, <3>2 DEF Factor, Grows, PowerOfTen
    <3> QED  BY <1>1, <1>3, <3>1, <3>2 DEF Grows
  <2>2. amount \div Factor(from, to) \in 1..MaxAmount
    <3>1. CASE Factor(from, to) = 1    BY <1>1, <2>1, <3>1
    <3>2. CASE Factor(from, to) = 10   BY <1>1, <2>1, <3>2
    <3>3. CASE Factor(from, to) = 100  BY <1>1, <2>1, <3>3
    <3>4. CASE Factor(from, to) = 1000 BY <1>1, <2>1, <3>4
    <3> QED  BY <3>1, <3>2, <3>3, <3>4, FactorValues
  <2> QED  BY <1>3, <2>2 DEF Scaled
<1> QED  BY <1>2, <1>3

LEMMA ScaledIsInteger ==
    ASSUME NEW from \in Currencies, NEW to \in Currencies, NEW amount \in Int
    PROVE  Scaled(amount, from, to) \in Int
BY FactorValues DEF Scaled

-----------------------------------------------------------------------------
(* Type correctness *)

LEMMA InitTypeOK == Init => TypeOK
BY LedgerAssumption DEF Init, TypeOK, Existing, Settings, Request, Idle

\* Inserting a well-typed row keeps the table well typed.
LEMMA InsertTyped ==
    ASSUME TypeOK, NEW id, NEW row \in Row, Insert(id, row)
    PROVE  Existing' \subseteq Rows /\ rows' \in [Existing' -> Row]
BY DEF TypeOK, Insert, Existing

\* Init makes it true and every action keeps it: rows are inserted and
\* rewritten with amounts and currencies that requests have read or users given.
LEMMA NextTypeOK == TypeOK /\ [Next]_vars => TypeOK'
<1> SUFFICES ASSUME TypeOK, [Next]_vars PROVE TypeOK'
    OBVIOUS
<1> USE LedgerAssumption
<1>0. \A a \in Amounts : a \in Int
    OBVIOUS
<1>1. ASSUME NEW c \in Clients, NEW table \in {"transactions", "recurring_rules"},
             NEW amount \in Amounts, CreateRead(c, table, amount)
      PROVE  TypeOK'
  <2>1. [phase |-> "insert", table |-> table, amount |-> amount,
         currency |-> settings.currency] \in Request
      BY DEF TypeOK, Request, Settings
  <2> QED  BY <1>1, <2>1 DEF CreateRead, TypeOK, Existing
<1>2. ASSUME NEW c \in Clients, NEW id \in Rows, CreateInsert(c, id) PROVE TypeOK'
  <2>1. request[c] \in [phase : {"insert"}, table : {"transactions", "recurring_rules"},
                         amount : Amounts, currency : Currencies]
      BY <1>2 DEF CreateInsert, TypeOK, Request, Idle
  <2>2. [table |-> request[c].table, amount |-> request[c].amount,
         currency |-> request[c].currency, of |-> NoRow] \in Row
      BY <1>0, <2>1 DEF Row, Tables
  <2>3. Existing' \subseteq Rows /\ rows' \in [Existing' -> Row]
      BY <1>2, <2>2, InsertTyped DEF CreateInsert
  <2>4. request' \in [Clients -> Request]
      BY <1>2 DEF CreateInsert, Reply, TypeOK, Request
  <2> QED  BY <1>2, <2>3, <2>4 DEF CreateInsert, TypeOK
<1>3. ASSUME NEW c \in Clients, NEW currency \in Currencies \cup {Unset},
             NEW theme \in Themes \cup {Unset}, SettingsRead(c, currency, theme)
      PROVE  TypeOK'
  <2> DEFINE to == [currency |-> IF currency = Unset THEN settings.currency ELSE currency,
                    theme |-> IF theme = Unset THEN settings.theme ELSE theme]
  <2>1. to \in Settings
      BY DEF TypeOK, Settings
  <2>2. [phase |-> "settings", from |-> settings.currency, to |-> to,
         rewrite |-> to.currency # settings.currency] \in Request
    <3>1. (to.currency # settings.currency) \in BOOLEAN /\ settings.currency \in Currencies
        BY DEF TypeOK, Settings
    <3> HIDE DEF to
    <3> QED  BY <2>1, <3>1 DEF Request
  <2> QED  BY <1>3, <2>2 DEF SettingsRead, TypeOK, Existing
<1>4. ASSUME NEW c \in Clients, SettingsWrite(c) PROVE TypeOK'
  <2>1. request[c].from \in Currencies /\ request[c].to \in Settings
      BY <1>4 DEF SettingsWrite, TypeOK, Request, Idle
  <2>2. settings' \in Settings
      BY <1>4, <2>1 DEF SettingsWrite
  <2>3. request' \in [Clients -> Request]
      BY <1>4 DEF SettingsWrite, Reply, TypeOK, Request
  <2>4. \A id \in Existing : Rewritten(id, request[c].from, request[c].to.currency) \in Row
    <3>1. request[c].to.currency \in Currencies
        BY <2>1 DEF Settings
    <3> TAKE id \in Existing
    <3>2. rows[id] \in Row
        BY DEF TypeOK
    <3>3. Scaled(rows[id].amount, request[c].from, request[c].to.currency) \in Int
        BY <2>1, <3>1, <3>2, ScaledIsInteger DEF Row
    <3> QED  BY <3>1, <3>2, <3>3 DEF Rewritten, Row
  <2>5. Existing' = Existing /\ rows' \in [Existing -> Row]
    <3>1. CASE request[c].rewrite
        BY <1>4, <2>4, <3>1 DEF SettingsWrite, Existing
    <3>2. CASE ~request[c].rewrite
        BY <1>4, <3>2 DEF SettingsWrite, Existing, TypeOK
    <3> QED  BY <3>1, <3>2
  <2> QED  BY <2>2, <2>3, <2>5 DEF TypeOK
<1>5. ASSUME NEW c \in Clients, Abandon(c) PROVE TypeOK'
    BY <1>5 DEF Abandon, Reply, TypeOK, Request, Existing
<1>6. ASSUME NEW id \in Rows, NEW amount \in Amounts, EditAmount(id, amount) PROVE TypeOK'
  <2>1. amount \in Int
      BY <1>0
  <2> QED  BY <1>6, <2>1 DEF EditAmount, TypeOK, Existing, Row
<1>7. ASSUME NEW id \in Rows, NEW amount \in Amounts, SetBudget(id, amount) PROVE TypeOK'
  <2> DEFINE row == [table |-> "budget_limits", amount |-> amount,
                     currency |-> settings.currency, of |-> NoRow]
  <2>1. row \in Row
      BY <1>0 DEF TypeOK, Settings, Row, Tables
  <2>2. Existing' \subseteq Rows /\ rows' \in [Existing' -> Row]
    <3> HIDE DEF row
    <3>1. CASE Insert(id, row)  BY <2>1, <3>1, InsertTyped
    <3>2. CASE id \in Existing /\ rows' = [rows EXCEPT ![id] = row]
        BY <2>1, <3>2 DEF TypeOK, Existing
    <3> QED  BY <1>7, <3>1, <3>2 DEF SetBudget, row
  <2> QED  BY <1>7, <2>2 DEF SetBudget, TypeOK
<1>8. ASSUME NEW id \in Rows, ClearBudget(id) PROVE TypeOK'
    BY <1>8 DEF ClearBudget, TypeOK, Existing
<1>9. ASSUME NEW rule \in Rows, NEW id \in Rows, GenerateOccurrence(rule, id) PROVE TypeOK'
  <2>1. [rows[rule] EXCEPT !.table = "recurring_occurrences", !.of = rule] \in Row
      BY <1>9 DEF GenerateOccurrence, TypeOK, Row, Tables
  <2>2. Existing' \subseteq Rows /\ rows' \in [Existing' -> Row]
      BY <1>9, <2>1, InsertTyped DEF GenerateOccurrence
  <2> QED  BY <1>9, <2>2 DEF GenerateOccurrence, TypeOK
<1>10. ASSUME NEW occurrence \in Existing, NEW id \in Rows,
              NEW amount \in Amounts \cup {rows[occurrence].amount},
              ConfirmOccurrence(occurrence, amount, id)
       PROVE  TypeOK'
  <2>1. rows[occurrence] \in Row /\ occurrence \in Rows /\ amount \in Int
      BY <1>0 DEF TypeOK, Row
  <2>2. [table |-> "transactions", amount |-> amount,
         currency |-> rows[occurrence].currency, of |-> occurrence] \in Row
      BY <2>1 DEF Row, Tables
  <2>3. Existing' \subseteq Rows /\ rows' \in [Existing' -> Row]
      BY <1>10, <2>2, InsertTyped DEF ConfirmOccurrence
  <2> QED  BY <1>10, <2>3 DEF ConfirmOccurrence, TypeOK
<1>11. CASE UNCHANGED vars
    BY <1>11 DEF vars, TypeOK, Existing
<1> QED  BY <1>1, <1>2, <1>3, <1>4, <1>5, <1>6, <1>7, <1>8, <1>9, <1>10, <1>11 DEF Next

\* The ledger is well typed in every reachable state.
THEOREM TypeCorrect == Spec => []TypeOK
BY InitTypeOK, NextTypeOK, PTL DEF Spec

-----------------------------------------------------------------------------
(* Amounts *)

LEMMA InsertInRange ==
    ASSUME AmountsInRange, NEW id, NEW row, row.amount \in 1..MaxAmount, Insert(id, row)
    PROVE  AmountsInRange'
BY DEF AmountsInRange, Insert, Existing

\* The steps that write an amount write one a user entered, one copied from
\* another record, or one that passed the check for being scaled.
LEMMA NextInRange == TypeOK /\ AmountsInRange /\ [Next]_vars => AmountsInRange'
<1> SUFFICES ASSUME TypeOK, AmountsInRange, [Next]_vars PROVE AmountsInRange'
    OBVIOUS
<1> USE LedgerAssumption
<1>0. \A a \in Amounts : a \in 1..MaxAmount
    OBVIOUS
<1>1. ASSUME rows' = rows PROVE AmountsInRange'
    BY <1>1 DEF AmountsInRange, Existing
<1>2. ASSUME NEW c \in Clients, NEW id \in Rows, CreateInsert(c, id) PROVE AmountsInRange'
  <2>1. request[c].amount \in Amounts
      BY <1>2 DEF CreateInsert, TypeOK, Request, Idle
  <2>2. request[c].amount \in 1..MaxAmount
      BY <1>0, <2>1
  <2> QED  BY <1>2, <2>2, InsertInRange DEF CreateInsert
<1>3. ASSUME NEW c \in Clients, SettingsWrite(c) PROVE AmountsInRange'
  <2>1. request[c].from \in Currencies /\ request[c].to.currency \in Currencies
      BY <1>3 DEF SettingsWrite, TypeOK, Request, Idle, Settings
  <2>2. CASE request[c].rewrite
    <3>1. \A id \in Existing :
            Rewritten(id, request[c].from, request[c].to.currency).amount \in 1..MaxAmount
      <4> TAKE id \in Existing
      <4>1. rows[id].amount \in 1..MaxAmount
          BY DEF AmountsInRange
      <4>2. ~Blocked(rows[id].amount, request[c].from, request[c].to.currency)
          BY <1>3, <2>2 DEF SettingsWrite
      <4>3. Scaled(rows[id].amount, request[c].from, request[c].to.currency) \in 1..MaxAmount
          BY <2>1, <4>1, <4>2, ScaledInRange
      <4>4. rows[id] \in Row
          BY DEF TypeOK
      <4> QED  BY <4>3, <4>4 DEF Rewritten, Row
    <3> QED  BY <1>3, <2>2, <3>1 DEF SettingsWrite, AmountsInRange, Existing
  <2>3. CASE ~request[c].rewrite
      BY <1>1, <1>3, <2>3 DEF SettingsWrite
  <2> QED  BY <2>2, <2>3
<1>4. ASSUME NEW id \in Rows, NEW amount \in Amounts, EditAmount(id, amount)
      PROVE  AmountsInRange'
    BY <1>0, <1>4 DEF EditAmount, AmountsInRange, TypeOK, Existing, Row
<1>5. ASSUME NEW id \in Rows, NEW amount \in Amounts, SetBudget(id, amount)
      PROVE  AmountsInRange'
  <2> DEFINE row == [table |-> "budget_limits", amount |-> amount,
                     currency |-> settings.currency, of |-> NoRow]
  <2>1. row.amount \in 1..MaxAmount
      BY <1>0
  <2> HIDE DEF row
  <2>2. CASE Insert(id, row)
      BY <2>1, <2>2, InsertInRange
  <2>3. CASE id \in Existing /\ rows' = [rows EXCEPT ![id] = row]
      BY <2>1, <2>3 DEF AmountsInRange, TypeOK, Existing
  <2> QED  BY <1>5, <2>2, <2>3 DEF SetBudget, row
<1>6. ASSUME NEW id \in Rows, ClearBudget(id) PROVE AmountsInRange'
    BY <1>6 DEF ClearBudget, AmountsInRange, Existing
<1>7. ASSUME NEW rule \in Rows, NEW id \in Rows, GenerateOccurrence(rule, id)
      PROVE  AmountsInRange'
  <2>1. [rows[rule] EXCEPT !.table = "recurring_occurrences", !.of = rule].amount
          \in 1..MaxAmount
      BY <1>7 DEF GenerateOccurrence, AmountsInRange, TypeOK, Row
  <2> QED  BY <1>7, <2>1, InsertInRange DEF GenerateOccurrence
<1>8. ASSUME NEW occurrence \in Existing, NEW id \in Rows,
             NEW amount \in Amounts \cup {rows[occurrence].amount},
             ConfirmOccurrence(occurrence, amount, id)
      PROVE  AmountsInRange'
  <2>1. amount \in 1..MaxAmount
      BY <1>0 DEF AmountsInRange
  <2> QED  BY <1>8, <2>1, InsertInRange DEF ConfirmOccurrence
<1>9. ASSUME NEW c \in Clients,
             \/ \E table \in {"transactions", "recurring_rules"}, amount \in Amounts :
                   CreateRead(c, table, amount)
             \/ \E currency \in Currencies \cup {Unset}, theme \in Themes \cup {Unset} :
                   SettingsRead(c, currency, theme)
             \/ Abandon(c)
      PROVE  AmountsInRange'
    BY <1>1, <1>9 DEF CreateRead, SettingsRead, Abandon
<1>10. CASE UNCHANGED vars
    BY <1>1, <1>10 DEF vars
<1> QED  BY <1>2, <1>3, <1>4, <1>5, <1>6, <1>7, <1>8, <1>9, <1>10 DEF Next

\* Amounts stay positive and within the maximum in every reachable state.
THEOREM AmountsStayInRange == Spec => []AmountsInRange
<1>1. Init => AmountsInRange
    BY DEF Init, AmountsInRange, Existing
<1> QED  BY <1>1, TypeCorrect, NextInRange, PTL DEF Spec

-----------------------------------------------------------------------------
(* Families *)

\* Parents are rules and occurrences, which are never deleted or replaced, as
\* budget limits are.
ParentsAreRecurring ==
    \A id \in Existing : rows[id].of # NoRow =>
        /\ rows[id].of \in Existing
        /\ rows[rows[id].of].table \in {"recurring_rules", "recurring_occurrences"}

Families == ParentsAreRecurring /\ FamiliesShareCurrency

LEMMA InsertKeepsFamilies ==
    ASSUME TypeOK, Families, NEW id, NEW row \in Row, Insert(id, row),
           row.of # NoRow =>
              /\ row.of \in Existing
              /\ rows[row.of].table \in {"recurring_rules", "recurring_occurrences"}
              /\ rows[row.of].currency = row.currency
    PROVE  Families'
<1>1. Existing' = Existing \cup {id} /\ rows'[id] = row /\ id \notin Existing
    BY DEF Insert, Existing
<1>2. \A i \in Existing : rows'[i] = rows[i]
    BY DEF Insert, Existing
<1>3. ParentsAreRecurring'
    BY <1>1, <1>2 DEF Families, ParentsAreRecurring
<1>4. FamiliesShareCurrency'
    BY <1>1, <1>2 DEF Families, FamiliesShareCurrency
<1> QED  BY <1>3, <1>4 DEF Families

\* Steps that keep each record's parent, table and currency keep families.
LEMMA SameFamilies ==
    ASSUME Families, Existing' = Existing,
           \A id \in Existing : /\ rows'[id].of = rows[id].of
                                /\ rows'[id].table = rows[id].table
                                /\ rows'[id].currency = rows[id].currency
    PROVE  Families'
BY DEF Families, ParentsAreRecurring, FamiliesShareCurrency

LEMMA NextFamilies == TypeOK /\ Families /\ [Next]_vars => Families'
<1> SUFFICES ASSUME TypeOK, Families, [Next]_vars PROVE Families'
    OBVIOUS
<1> USE LedgerAssumption
<1>0. \A a \in Amounts : a \in Int
    OBVIOUS
<1>1. ASSUME rows' = rows PROVE Families'
    BY <1>1, SameFamilies DEF Existing
<1>2. ASSUME NEW c \in Clients, NEW id \in Rows, CreateInsert(c, id) PROVE Families'
  <2> DEFINE row == [table |-> request[c].table, amount |-> request[c].amount,
                     currency |-> request[c].currency, of |-> NoRow]
  <2>1. request[c] \in [phase : {"insert"}, table : {"transactions", "recurring_rules"},
                         amount : Amounts, currency : Currencies]
      BY <1>2 DEF CreateInsert, TypeOK, Request, Idle
  <2>2. row \in Row /\ row.of = NoRow
      BY <1>0, <2>1 DEF Row, Tables
  <2>3. Insert(id, row)
      BY <1>2 DEF CreateInsert
  <2> HIDE DEF row
  <2> QED  BY <2>2, <2>3, InsertKeepsFamilies
<1>3. ASSUME NEW c \in Clients, SettingsWrite(c) PROVE Families'
  <2>1. CASE request[c].rewrite
    <3>1. Existing' = Existing
        BY <1>3, <2>1 DEF SettingsWrite, Existing
    <3>2. \A id \in Existing :
            /\ rows'[id].of = rows[id].of
            /\ rows'[id].table = rows[id].table
            /\ rows'[id].currency = request[c].to.currency
      <4> TAKE id \in Existing
      <4>1. rows[id] \in Row
          BY DEF TypeOK
      <4>2. rows'[id] = Rewritten(id, request[c].from, request[c].to.currency)
          BY <1>3, <2>1 DEF SettingsWrite, Existing
      <4> QED  BY <4>1, <4>2 DEF Rewritten, Row
    <3> QED  BY <3>1, <3>2 DEF Families, ParentsAreRecurring, FamiliesShareCurrency
  <2>2. CASE ~request[c].rewrite
      BY <1>1, <1>3, <2>2 DEF SettingsWrite
  <2> QED  BY <2>1, <2>2
<1>4. ASSUME NEW id \in Rows, NEW amount \in Amounts, EditAmount(id, amount) PROVE Families'
    BY <1>4, SameFamilies DEF EditAmount, TypeOK, Existing, Row
<1>5. ASSUME NEW id \in Rows, NEW amount \in Amounts, SetBudget(id, amount) PROVE Families'
  <2> DEFINE row == [table |-> "budget_limits", amount |-> amount,
                     currency |-> settings.currency, of |-> NoRow]
  <2>1. row \in Row /\ row.of = NoRow
      BY <1>0 DEF TypeOK, Settings, Row, Tables
  <2> HIDE DEF row
  <2>2. CASE Insert(id, row)
      BY <2>1, <2>2, InsertKeepsFamilies
  <2>3. CASE id \in Existing /\ rows[id].table = "budget_limits"
             /\ rows' = [rows EXCEPT ![id] = row]
    <3>1. Existing' = Existing /\ rows'[id] = row
        BY <2>3 DEF TypeOK, Existing
    <3>2. \A i \in Existing : i # id => rows'[i] = rows[i]
        BY <2>3 DEF TypeOK, Existing
    <3>3. \A i \in Existing : rows[i].of # id
        BY <2>3 DEF Families, ParentsAreRecurring, TypeOK
    <3> QED  BY <2>1, <3>1, <3>2, <3>3
             DEF Families, ParentsAreRecurring, FamiliesShareCurrency
  <2> QED  BY <1>5, <2>2, <2>3 DEF SetBudget, row
<1>6. ASSUME NEW id \in Rows, ClearBudget(id) PROVE Families'
  <2>1. Existing' = Existing \ {id} /\ \A i \in Existing' : rows'[i] = rows[i]
      BY <1>6 DEF ClearBudget, Existing
  <2>2. \A i \in Existing : rows[i].of # id
      BY <1>6 DEF ClearBudget, Families, ParentsAreRecurring, TypeOK
  <2> QED  BY <2>1, <2>2 DEF Families, ParentsAreRecurring, FamiliesShareCurrency
<1>7. ASSUME NEW rule \in Rows, NEW id \in Rows, GenerateOccurrence(rule, id) PROVE Families'
  <2> DEFINE row == [rows[rule] EXCEPT !.table = "recurring_occurrences", !.of = rule]
  <2>1. rows[rule] \in Row /\ rule \in Existing /\ rows[rule].table = "recurring_rules"
      BY <1>7 DEF GenerateOccurrence, TypeOK
  <2>2. row \in Row /\ row.of = rule /\ row.currency = rows[rule].currency
      BY <2>1 DEF Row, Tables
  <2>3. Insert(id, row)
      BY <1>7 DEF GenerateOccurrence
  <2> HIDE DEF row
  <2> QED  BY <2>1, <2>2, <2>3, InsertKeepsFamilies
<1>8. ASSUME NEW occurrence \in Existing, NEW id \in Rows,
             NEW amount \in Amounts \cup {rows[occurrence].amount},
             ConfirmOccurrence(occurrence, amount, id)
      PROVE  Families'
  <2> DEFINE row == [table |-> "transactions", amount |-> amount,
                     currency |-> rows[occurrence].currency, of |-> occurrence]
  <2>1. rows[occurrence] \in Row /\ occurrence \in Rows /\ amount \in Int
        /\ rows[occurrence].table = "recurring_occurrences"
      BY <1>0, <1>8 DEF ConfirmOccurrence, Confirmable, TypeOK, Row
  <2>2. row \in Row /\ row.of = occurrence /\ row.currency = rows[occurrence].currency
      BY <2>1 DEF Row, Tables
  <2>3. Insert(id, row)
      BY <1>8 DEF ConfirmOccurrence
  <2> HIDE DEF row
  <2> QED  BY <2>1, <2>2, <2>3, InsertKeepsFamilies
<1>9. ASSUME NEW c \in Clients,
             \/ \E table \in {"transactions", "recurring_rules"}, amount \in Amounts :
                   CreateRead(c, table, amount)
             \/ \E currency \in Currencies \cup {Unset}, theme \in Themes \cup {Unset} :
                   SettingsRead(c, currency, theme)
             \/ Abandon(c)
      PROVE  Families'
    BY <1>1, <1>9 DEF CreateRead, SettingsRead, Abandon
<1>10. CASE UNCHANGED vars
    BY <1>1, <1>10 DEF vars
<1> QED  BY <1>2, <1>3, <1>4, <1>5, <1>6, <1>7, <1>8, <1>9, <1>10 DEF Next

\* Rules, their occurrences and the transactions that confirm them share a
\* currency in every reachable state, under any interleaving of requests.
THEOREM FamiliesAgree == Spec => []FamiliesShareCurrency
<1>1. Init => Families
    BY DEF Init, Families, ParentsAreRecurring, FamiliesShareCurrency, Existing
<1>2. Families => FamiliesShareCurrency
    BY DEF Families
<1> QED  BY <1>1, <1>2, TypeCorrect, NextFamilies, PTL DEF Spec

-----------------------------------------------------------------------------
(* Changes of currency *)

\* A request that changes the settings rewrites the records exactly when the
\* currency it writes is not the one it has read.
Comparison ==
    \A c \in Clients :
        request[c].phase = "settings" =>
            (request[c].rewrite <=> request[c].to.currency # request[c].from)

LEMMA NextComparison == TypeOK /\ Comparison /\ [Next]_vars => Comparison'
<1> SUFFICES ASSUME TypeOK, Comparison, [Next]_vars PROVE Comparison'
    OBVIOUS
<1>1. ASSUME NEW c \in Clients, Reply(c) PROVE Comparison'
    BY <1>1 DEF Reply, Comparison, TypeOK, Idle
<1>2. ASSUME NEW c \in Clients, NEW table \in {"transactions", "recurring_rules"},
             NEW amount \in Amounts, CreateRead(c, table, amount)
      PROVE  Comparison'
    BY <1>2 DEF CreateRead, Comparison, TypeOK
<1>3. ASSUME NEW c \in Clients, NEW currency \in Currencies \cup {Unset},
             NEW theme \in Themes \cup {Unset}, SettingsRead(c, currency, theme)
      PROVE  Comparison'
    BY <1>3 DEF SettingsRead, Comparison, TypeOK
<1>4. ASSUME NEW c \in Clients, NEW id \in Rows, CreateInsert(c, id) PROVE Comparison'
    BY <1>1, <1>4 DEF CreateInsert
<1>5. ASSUME NEW c \in Clients, SettingsWrite(c) \/ Abandon(c) PROVE Comparison'
    BY <1>1, <1>5 DEF SettingsWrite, Abandon
<1>6. ASSUME UNCHANGED request PROVE Comparison'
    BY <1>6 DEF Comparison
<1>7. ASSUME NEW id \in Rows,
             \/ \E amount \in Amounts : EditAmount(id, amount) \/ SetBudget(id, amount)
             \/ ClearBudget(id)
             \/ \E rule \in Rows : GenerateOccurrence(rule, id)
             \/ \E occurrence \in Existing : \E amount \in Amounts \cup {rows[occurrence].amount} :
                   ConfirmOccurrence(occurrence, amount, id)
      PROVE  Comparison'
    BY <1>6, <1>7 DEF EditAmount, SetBudget, ClearBudget, GenerateOccurrence, ConfirmOccurrence
<1>8. CASE UNCHANGED vars
    BY <1>6, <1>8 DEF vars
<1> QED  BY <1>2, <1>3, <1>4, <1>5, <1>7, <1>8 DEF Next

LEMMA Compared == Spec => []Comparison
<1>1. Init => Comparison
    BY DEF Init, Comparison, Idle
<1> QED  BY <1>1, TypeCorrect, NextComparison, PTL DEF Spec

\* The record that a step may mix anew: none but one that copies or is a mixed
\* one, as long as the step is not that of a request with stale settings.
MixedAsBefore ==
    \A id \in Existing' :
        Mixed(id)' => \/ StaleWrite
                      \/ \E i \in Existing \cap {id, rows'[id].of} : Mixed(i)

\* While the settings stay, a step that inserts or replaces one record, in the
\* settings' currency or its parent's, mixes none.
LEMMA OneRecordMixesNone ==
    ASSUME NEW id, UNCHANGED settings, id \in Existing',
           \A i \in Existing' \ {id} : i \in Existing /\ rows'[i] = rows[i],
           \/ rows'[id].currency = settings.currency
           \/ \E i \in Existing \cap {id, rows'[id].of} : rows'[id].currency = rows[i].currency
    PROVE  MixedAsBefore
BY DEF MixedAsBefore, Mixed

LEMMA NextMixedAsBefore == TypeOK /\ Comparison /\ [Next]_vars => MixedAsBefore
<1> SUFFICES ASSUME TypeOK, Comparison, [Next]_vars PROVE MixedAsBefore
    OBVIOUS
<1>1. ASSUME rows' = rows, settings'.currency = settings.currency PROVE MixedAsBefore
    BY <1>1 DEF MixedAsBefore, Mixed, Existing
<1>2. ASSUME NEW c \in Clients, NEW id \in Rows, CreateInsert(c, id) PROVE MixedAsBefore
  <2>1. CASE request[c].currency = settings.currency
    <3>1. UNCHANGED settings /\ id \in Existing' /\ rows'[id].currency = settings.currency
        BY <1>2, <2>1 DEF CreateInsert, Insert, Existing
    <3>2. \A i \in Existing' \ {id} : i \in Existing /\ rows'[i] = rows[i]
        BY <1>2 DEF CreateInsert, Insert, Existing
    <3> QED  BY <3>1, <3>2, OneRecordMixesNone
  <2>2. CASE request[c].currency # settings.currency
    <3>1. StaleWrite
        BY <1>2, <2>2 DEF CreateInsert, Reply, StaleWrite, TypeOK
    <3> QED  BY <3>1 DEF MixedAsBefore
  <2> QED  BY <2>1, <2>2
<1>3. ASSUME NEW c \in Clients, SettingsWrite(c) PROVE MixedAsBefore
  <2>1. CASE request[c].from # settings.currency
    <3>1. StaleWrite
        BY <1>3, <2>1 DEF SettingsWrite, Reply, StaleWrite, TypeOK
    <3> QED  BY <3>1 DEF MixedAsBefore
  <2>2. CASE request[c].from = settings.currency /\ ~request[c].rewrite
    <3>1. settings'.currency = settings.currency /\ rows' = rows
        BY <1>3, <2>2 DEF SettingsWrite, Comparison
    <3> QED  BY <1>1, <3>1
  <2>3. CASE request[c].rewrite
    <3> DEFINE to == request[c].to.currency
    <3>1. Existing' = Existing /\ settings'.currency = to
        BY <1>3, <2>3 DEF SettingsWrite, Existing
    <3>2. \A id \in Existing : rows'[id].currency = to
      <4> TAKE id \in Existing
      <4>1. rows[id] \in Row
          BY DEF TypeOK
      <4>2. rows'[id] = Rewritten(id, request[c].from, to)
          BY <1>3, <2>3 DEF SettingsWrite, Existing
      <4> QED  BY <4>1, <4>2 DEF Rewritten, Row
    <3> QED  BY <3>1, <3>2 DEF MixedAsBefore, Mixed
  <2> QED  BY <2>1, <2>2, <2>3
<1>4. ASSUME NEW id \in Rows, NEW amount \in Amounts, EditAmount(id, amount)
      PROVE  MixedAsBefore
  <2>1. UNCHANGED settings /\ id \in Existing /\ Existing' = Existing
      BY <1>4 DEF EditAmount, TypeOK, Existing
  <2>2. rows'[id].currency = rows[id].currency
      BY <1>4 DEF EditAmount, TypeOK, Row
  <2>3. \A i \in Existing' \ {id} : i \in Existing /\ rows'[i] = rows[i]
      BY <1>4 DEF EditAmount, TypeOK, Existing
  <2> QED  BY <2>1, <2>2, <2>3, OneRecordMixesNone
<1>5. ASSUME NEW id \in Rows, NEW amount \in Amounts, SetBudget(id, amount)
      PROVE  MixedAsBefore
  <2>1. UNCHANGED settings /\ id \in Existing' /\ rows'[id].currency = settings.currency
      BY <1>5 DEF SetBudget, Insert, TypeOK, Existing
  <2>2. \A i \in Existing' \ {id} : i \in Existing /\ rows'[i] = rows[i]
      BY <1>5 DEF SetBudget, Insert, TypeOK, Existing
  <2> QED  BY <2>1, <2>2, OneRecordMixesNone
<1>6. ASSUME NEW id \in Rows, ClearBudget(id) PROVE MixedAsBefore
    BY <1>6 DEF ClearBudget, MixedAsBefore, Mixed, Existing
<1>7. ASSUME NEW rule \in Rows, NEW id \in Rows, GenerateOccurrence(rule, id)
      PROVE  MixedAsBefore
  <2>1. rows[rule] \in Row
      BY <1>7 DEF GenerateOccurrence, TypeOK
  <2>2. UNCHANGED settings /\ id \in Existing' /\ rule \in Existing
        /\ rows'[id].of = rule /\ rows'[id].currency = rows[rule].currency
      BY <1>7, <2>1 DEF GenerateOccurrence, Insert, Existing, Row
  <2>3. \A i \in Existing' \ {id} : i \in Existing /\ rows'[i] = rows[i]
      BY <1>7 DEF GenerateOccurrence, Insert, Existing
  <2> QED  BY <2>2, <2>3, OneRecordMixesNone
<1>8. ASSUME NEW occurrence \in Existing, NEW amount, NEW id \in Rows,
             ConfirmOccurrence(occurrence, amount, id)
      PROVE  MixedAsBefore
  <2>1. UNCHANGED settings /\ id \in Existing'
        /\ rows'[id].of = occurrence /\ rows'[id].currency = rows[occurrence].currency
      BY <1>8 DEF ConfirmOccurrence, Insert, Existing
  <2>2. \A i \in Existing' \ {id} : i \in Existing /\ rows'[i] = rows[i]
      BY <1>8 DEF ConfirmOccurrence, Insert, Existing
  <2> QED  BY <2>1, <2>2, OneRecordMixesNone
<1>9. ASSUME NEW c \in Clients,
             \/ \E table \in {"transactions", "recurring_rules"}, amount \in Amounts :
                   CreateRead(c, table, amount)
             \/ \E currency \in Currencies \cup {Unset}, theme \in Themes \cup {Unset} :
                   SettingsRead(c, currency, theme)
             \/ Abandon(c)
      PROVE  MixedAsBefore
    BY <1>1, <1>9 DEF CreateRead, SettingsRead, Abandon
<1>10. CASE UNCHANGED vars
    BY <1>1, <1>10 DEF vars
<1> QED  BY <1>2, <1>3, <1>4, <1>5, <1>6, <1>7, <1>8, <1>9, <1>10 DEF Next

\* Whatever requests overlap, a record is in another currency than the settings
\* only because a request wrote that had read settings no longer current, or
\* because it copies or is such a record.
THEOREM OnlyStaleWritesMix == Spec => MixedOnlyByStaleWrites
<1>1. TypeOK /\ Comparison /\ [Next]_vars =>
        [\A id \in Existing' :
           Mixed(id)' => \/ StaleWrite
                        \/ \E i \in Existing \cap {id, rows'[id].of} : Mixed(i)]_vars
    BY NextMixedAsBefore DEF MixedAsBefore
<1> QED  BY <1>1, TypeCorrect, Compared, PTL DEF Spec, MixedOnlyByStaleWrites

-----------------------------------------------------------------------------
(* Major units *)

\* Scaling keeps the amount in major units, but for truncated digits.
LEMMA ScalingKeepsMajorUnits ==
    ASSUME NEW from \in Currencies, NEW to \in Currencies, NEW amount \in Nat
    PROVE  /\ Scaled(amount, from, to) * PowerOfTen(Exponent[from])
                <= amount * PowerOfTen(Exponent[to])
           /\ amount * PowerOfTen(Exponent[to])
                < (Scaled(amount, from, to) + 1) * PowerOfTen(Exponent[from])
<1> DEFINE e == Exponent[from]
           f == Exponent[to]
<1>1. e \in {0, 1, 2, 3} /\ f \in {0, 1, 2, 3}
    BY LedgerAssumption
<1>2. /\ PowerOfTen(0) = 1 /\ PowerOfTen(1) = 10
      /\ PowerOfTen(2) = 100 /\ PowerOfTen(3) = 1000
    BY DEF PowerOfTen
<1>3. Factor(from, to) = PowerOfTen(IF f > e THEN f - e ELSE e - f)
    BY DEF Factor, Grows
<1>4. Scaled(amount, from, to) =
        IF f > e THEN amount * Factor(from, to) ELSE amount \div Factor(from, to)
    BY DEF Scaled, Grows
<1> HIDE DEF e, f
<1> SUFFICES /\ Scaled(amount, from, to) * PowerOfTen(e) <= amount * PowerOfTen(f)
             /\ amount * PowerOfTen(f) < (Scaled(amount, from, to) + 1) * PowerOfTen(e)
    BY DEF e, f
<1>5. CASE e = 0
  <2>1. CASE f = 0  BY <1>2, <1>3, <1>4, <1>5, <2>1
  <2>2. CASE f = 1  BY <1>2, <1>3, <1>4, <1>5, <2>2
  <2>3. CASE f = 2  BY <1>2, <1>3, <1>4, <1>5, <2>3
  <2>4. CASE f = 3  BY <1>2, <1>3, <1>4, <1>5, <2>4
  <2> QED  BY <1>1, <2>1, <2>2, <2>3, <2>4
<1>6. CASE e = 1
  <2>1. CASE f = 0  BY <1>2, <1>3, <1>4, <1>6, <2>1
  <2>2. CASE f = 1  BY <1>2, <1>3, <1>4, <1>6, <2>2
  <2>3. CASE f = 2  BY <1>2, <1>3, <1>4, <1>6, <2>3
  <2>4. CASE f = 3  BY <1>2, <1>3, <1>4, <1>6, <2>4
  <2> QED  BY <1>1, <2>1, <2>2, <2>3, <2>4
<1>7. CASE e = 2
  <2>1. CASE f = 0  BY <1>2, <1>3, <1>4, <1>7, <2>1
  <2>2. CASE f = 1  BY <1>2, <1>3, <1>4, <1>7, <2>2
  <2>3. CASE f = 2  BY <1>2, <1>3, <1>4, <1>7, <2>3
  <2>4. CASE f = 3  BY <1>2, <1>3, <1>4, <1>7, <2>4
  <2> QED  BY <1>1, <2>1, <2>2, <2>3, <2>4
<1>8. CASE e = 3
  <2>1. CASE f = 0  BY <1>2, <1>3, <1>4, <1>8, <2>1
  <2>2. CASE f = 1  BY <1>2, <1>3, <1>4, <1>8, <2>2
  <2>3. CASE f = 2  BY <1>2, <1>3, <1>4, <1>8, <2>3
  <2>4. CASE f = 3  BY <1>2, <1>3, <1>4, <1>8, <2>4
  <2> QED  BY <1>1, <2>1, <2>2, <2>3, <2>4
<1> QED  BY <1>1, <1>5, <1>6, <1>7, <1>8

\* A request whose settings are current scales each record of that currency from
\* the exponent the record is in.
LEMMA FreshChangeKeepsMajorUnits ==
    ASSUME TypeOK, Comparison, AmountsInRange, NEW c \in Clients, SettingsWrite(c),
           request[c].from = settings.currency, NEW id \in Existing, ~Mixed(id)
    PROVE  MajorUnitsEqual(rows[id], rows'[id])
<1> DEFINE from == request[c].from
           to == request[c].to.currency
           a == rows[id].amount
<1>1. from \in Currencies /\ to \in Currencies /\ rows[id].currency = from
      /\ rows[id] \in Row /\ a \in Nat
    BY LedgerAssumption
    DEF TypeOK, Request, Idle, SettingsWrite, Settings, Mixed, AmountsInRange
<1>2. CASE request[c].rewrite
  <2>1. rows'[id] = Rewritten(id, from, to)
      BY <1>2 DEF SettingsWrite, Existing
  <2>2. rows'[id].amount = Scaled(a, from, to) /\ rows'[id].currency = to
      BY <1>1, <2>1 DEF Rewritten, Row
  <2> HIDE DEF from, to, a
  <2>3. /\ Scaled(a, from, to) * PowerOfTen(Exponent[from]) <= a * PowerOfTen(Exponent[to])
        /\ a * PowerOfTen(Exponent[to])
             < (Scaled(a, from, to) + 1) * PowerOfTen(Exponent[from])
      BY <1>1, ScalingKeepsMajorUnits
  <2> QED  BY <1>1, <2>2, <2>3 DEF MajorUnitsEqual, a
<1>3. CASE ~request[c].rewrite
  <2>1. rows'[id] = rows[id]
      BY <1>3 DEF SettingsWrite
  <2>2. PowerOfTen(Exponent[from]) \in {1, 10, 100, 1000}
      BY <1>1, LedgerAssumption DEF PowerOfTen
  <2> HIDE DEF from, a
  <2>3. a * PowerOfTen(Exponent[from]) < (a + 1) * PowerOfTen(Exponent[from])
      BY <1>1, <2>2
  <2>4. a * PowerOfTen(Exponent[from]) <= a * PowerOfTen(Exponent[from])
      BY <1>1, <2>2
  <2> QED  BY <1>1, <2>1, <2>3, <2>4 DEF MajorUnitsEqual, a
<1> QED  BY <1>2, <1>3

\* A change of currency by a request whose settings are current keeps every
\* record of that currency at the same number of major units, but for digits
\* that the new currency does not have.
THEOREM FreshChangesKeepMajorUnits == Spec => MajorUnitsKeptUnlessStale
<1>1. TypeOK /\ Comparison /\ AmountsInRange /\ [Next]_vars =>
        [(\E c \in Clients : SettingsWrite(c) /\ request[c].from = settings.currency) =>
           \A id \in Existing : Mixed(id) \/ MajorUnitsEqual(rows[id], rows'[id])]_vars
    BY FreshChangeKeepsMajorUnits
<1> QED  BY <1>1, TypeCorrect, Compared, AmountsStayInRange, PTL
         DEF Spec, MajorUnitsKeptUnlessStale
=============================================================================
