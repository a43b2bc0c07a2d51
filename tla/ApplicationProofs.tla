--------------------------- MODULE ApplicationProofs ---------------------------
(***************************************************************************)
(* Proofs about the coin exchange, the board application and the shortest  *)
(* path program, for every number of users, browsers, trades, presses,     *)
(* messages and minutes, and every graph.                                  *)
(***************************************************************************)
EXTENDS Exchange, Board, DagPath, FiniteSetTheorems, SequenceTheorems,
        WellFoundedInduction, TLAPS

----------------------------------------------------------------------------
(* The exchange: what a wallet can be *)

Owners == Users \cup {Anonymous}
Wallets == [KRW : Int, coins : [Coins -> Int]]
Solvent(w) == w.KRW >= 0 /\ \A c \in Coins : w.coins[c] >= 0

\* A wallet worth no more than a new one and an allowance, and not overdrawn if it must
\* not be.
Fair(w, allowed, solvent) ==
  /\ w \in Wallets
  /\ Worth(w) <= PerCoin * (StartMoney + allowed)
  /\ solvent => Solvent(w)

\* What a request has still to save is as fair as what is stored.
Requests ==
  {None} \cup [at : {"join"}, owner : Users]
  \cup [at : {"save"}, owner : Owners, wallet : Wallets]
  \cup [at : {"pixel"}, owner : Owners, area : Areas, wallet : Wallets]

ExchangeTypeOK ==
  /\ accounts \subseteq Users
  /\ session \in [Browsers -> Owners]
  /\ DOMAIN wallets \subseteq Owners /\ wallets \in [DOMAIN wallets -> Wallets]
  /\ request \in [Browsers -> Requests]
  /\ allowance \in [Owners -> Nat] /\ negative \subseteq Owners

FairTo(w, o) == Fair(w, allowance[o], o \notin negative)
StoredFair == \A o \in DOMAIN wallets : FairTo(wallets[o], o)
PendingFair ==
  \A b \in Browsers : request[b].at \in {"save", "pixel"} =>
    /\ FairTo(request[b].wallet, request[b].owner)
    /\ request[b].owner \in DOMAIN wallets
ExchangeInv == ExchangeTypeOK /\ StoredFair /\ PendingFair

LEMMA ExchangeNumbers ==
  /\ PerCoin \in Nat /\ PerCoin > 0
  /\ StartMoney \in Nat /\ Price \in Nat /\ PixelPrice \in Nat
  /\ Amounts \subseteq Int /\ Areas \subseteq Int
BY ExchangeAssumption

LEMMA Products ==
  ASSUME NEW p \in Int, NEW s \in Int, NEW k \in Int
  PROVE  /\ p * s \in Int
         /\ p * (s + k) = p * s + p * k
         /\ p * (s - k) = p * s - p * k
         /\ p * (-s) = -(p * s)
OBVIOUS

LEMMA ProductsOrdered ==
  ASSUME NEW p \in Nat, p > 0, NEW s \in Int, NEW k \in Int
  PROVE  /\ s <= k => p * s <= p * k
         /\ p * s < p * k => s < k
OBVIOUS

LEMMA ProductsOfNat == ASSUME NEW p \in Nat, NEW s \in Nat PROVE p * s \in Nat
OBVIOUS

\* A cost is a whole number of KRW no more than one off the exact product, and of an
\* amount that is not negative no more than it.
LEMMA CostIs ==
  ASSUME NEW n \in Int, NEW k \in Costs(n)
  PROVE  /\ k \in Int
         /\ PerCoin * k - Price * n <= PerCoin /\ Price * n - PerCoin * k <= PerCoin
         /\ n >= 0 => k >= 0 /\ PerCoin * k <= Price * n
<1>1. ASSUME NEW m \in Nat, NEW j \in Truncated(m)
      PROVE  /\ j \in Nat /\ PerCoin * j <= Price * m
             /\ Price * m - PerCoin * j <= PerCoin
  <2>1. Price * m \in Nat
    BY ExchangeNumbers, ProductsOfNat
  <2>2. j \in 0 .. Price * m
    BY DEF Truncated
  <2>3. /\ 0 <= Price * m - PerCoin * j
        /\ Price * m - PerCoin * j < PerCoin \/ Price * m - PerCoin * j = PerCoin
    BY DEF Truncated
  <2>4. PerCoin * j \in Int
    BY <2>2, ExchangeNumbers, Products
  <2> QED
    BY <2>1, <2>2, <2>3, <2>4, ExchangeNumbers
<1>2. Price * n \in Int
  BY ExchangeNumbers, Products
<1>3. CASE n < 0
  <2>1. PICK j \in Truncated(-n) : k = -j
    BY <1>3 DEF Costs
  <2>2. -n \in Nat
    BY <1>3
  <2>3. j \in Nat /\ PerCoin * j <= Price * (-n) /\ Price * (-n) - PerCoin * j <= PerCoin
    BY <1>1, <2>1, <2>2
  <2>4. Price * (-n) = -(Price * n) /\ PerCoin * k = -(PerCoin * j) /\ PerCoin * j \in Int
    BY <2>1, <2>3, ExchangeNumbers, Products
  <2> QED
    BY <1>2, <1>3, <2>1, <2>3, <2>4, ExchangeNumbers
<1>4. CASE n >= 0
  <2>1. k \in Truncated(n) /\ n \in Nat
    BY <1>4 DEF Costs
  <2>2. k \in Nat /\ PerCoin * k <= Price * n /\ Price * n - PerCoin * k <= PerCoin
    BY <1>1, <2>1
  <2>3. PerCoin * k \in Int
    BY <2>2, ExchangeNumbers, Products
  <2> QED
    BY <1>2, <2>2, <2>3, ExchangeNumbers
<1> QED
  BY <1>3, <1>4

\* Some units of one coin more.
LEMMA UnitsOf ==
  ASSUME NEW coins \in [Coins -> Int], NEW c \in Coins, NEW k \in Int
  PROVE  /\ Units(coins) \in Int
         /\ Units([coins EXCEPT ![c] = coins[c] + k]) = Units(coins) + k
<1> DEFINE more == [coins EXCEPT ![c] = coins[c] + k]
<1>1. \A d \in Coins : coins[d] \in Int
  OBVIOUS
<1>2. more[c] = coins[c] + k /\ \A d \in Coins : d # c => more[d] = coins[d]
  OBVIOUS
<1> HIDE DEF more
<1>3. Units(coins) \in Int
  BY <1>1 DEF Units, Coins
<1>4. Units(more) = Units(coins) + k
  <2> DEFINE d(x) == IF x = c THEN k ELSE 0
  <2>1. \A x \in Coins : more[x] = coins[x] + d(x) /\ d(x) \in Int
    BY <1>1, <1>2
  <2>2. d("BTC") + d("ETH") + d("BCH") + d("XRP") + d("LTC") + d("DASH") + d("XMR") + d("BTG")
        + d("EOS") + d("QTUM") + d("ETC") + d("ZEC") = k
    BY DEF Coins
  <2> HIDE DEF d
  <2> QED
    BY <1>1, <2>1, <2>2 DEF Units, Coins
<1> QED
  BY <1>3, <1>4 DEF more

\* A wallet that gives k KRW for n parts of a coin, or takes them, at a cost that is no
\* more than one KRW off: it is worth at most one KRW more.
LEMMA TradeWorth ==
  ASSUME NEW w \in Wallets, NEW v, NEW c \in Coins, NEW n \in Int, NEW k \in Int,
         v.KRW = w.KRW - k, v.coins = [w.coins EXCEPT ![c] = w.coins[c] + n],
         Price * n - PerCoin * k <= PerCoin,
         NEW a \in Int, Worth(w) <= PerCoin * (StartMoney + a)
  PROVE  Worth(v) <= PerCoin * (StartMoney + (a + 1))
<1>1. w.KRW \in Int /\ w.coins \in [Coins -> Int]
  BY DEF Wallets
<1>2. PICK s \in Int : s = Units(w.coins) /\ Units(v.coins) = s + n
  <2>1. /\ Units(w.coins) \in Int
        /\ Units([w.coins EXCEPT ![c] = w.coins[c] + n]) = Units(w.coins) + n
    BY <1>1, UnitsOf
  <2> QED
    BY <2>1
<1>3. /\ PerCoin * (w.KRW - k) = PerCoin * w.KRW - PerCoin * k
      /\ Price * (s + n) = Price * s + Price * n
      /\ PerCoin * w.KRW \in Int /\ PerCoin * k \in Int /\ Price * s \in Int /\ Price * n \in Int
  BY <1>1, <1>2, ExchangeNumbers, Products
<1>4. Worth(w) = PerCoin * w.KRW + Price * s
  BY <1>2 DEF Worth
<1>5. Worth(v) = (PerCoin * w.KRW - PerCoin * k) + (Price * s + Price * n)
  BY <1>2, <1>3 DEF Worth
<1>6. PICK t \in Int : t = StartMoney + a
  BY ExchangeNumbers
<1>7. PerCoin * (t + 1) = PerCoin * t + PerCoin /\ PerCoin * t \in Int
  <2>1. PerCoin \in Int /\ PerCoin * 1 = PerCoin
    BY ExchangeNumbers
  <2>2. PerCoin * (t + 1) = PerCoin * t + PerCoin * 1 /\ PerCoin * t \in Int
    BY <2>1, Products
  <2> QED
    BY <2>1, <2>2
<1>8. StartMoney + (a + 1) = t + 1
  BY <1>6, ExchangeNumbers
<1>9. PerCoin * (StartMoney + (a + 1)) = PerCoin * t + PerCoin
  BY <1>7, <1>8
<1>10. PerCoin * w.KRW + Price * s <= PerCoin * t
  BY <1>4, <1>6
<1> HIDE DEF Worth
<1> QED
  BY <1>3, <1>5, <1>7, <1>9, <1>10, ExchangeNumbers

LEMMA BoughtFair ==
  ASSUME NEW w, NEW a \in Int, NEW ok \in BOOLEAN, Fair(w, a, ok), NEW c \in Coins,
         NEW n \in Int, NEW k \in Costs(n), Price * n < PerCoin * w.KRW
  PROVE  Fair(Bought(w, c, n, k), a + 1, ok /\ n >= 0)
<1>1. /\ w \in Wallets /\ w.KRW \in Int /\ w.coins \in [Coins -> Int]
      /\ Worth(w) <= PerCoin * (StartMoney + a)
      /\ ok => Solvent(w)
  BY DEF Fair, Wallets
<1>2. /\ k \in Int /\ Price * n - PerCoin * k <= PerCoin
      /\ n >= 0 => PerCoin * k <= Price * n
  BY CostIs
<1>3. PICK v : v = Bought(w, c, n, k)
  OBVIOUS
<1>4. v.KRW = w.KRW - k /\ v.coins = [w.coins EXCEPT ![c] = w.coins[c] + n]
  BY <1>3 DEF Bought
<1>5. v \in Wallets
  <2>1. [w.coins EXCEPT ![c] = w.coins[c] + n] \in [Coins -> Int] /\ w.KRW - k \in Int
    BY <1>1, <1>2
  <2> QED
    BY <1>3, <2>1 DEF Bought, Wallets
<1>6. Worth(v) <= PerCoin * (StartMoney + (a + 1))
  BY <1>1, <1>2, <1>4, TradeWorth
<1>7. ASSUME ok, n >= 0 PROVE Solvent(v)
  <2>1. PerCoin * k < PerCoin * w.KRW
    BY <1>1, <1>2, <1>7, ExchangeNumbers, Products
  <2>2. k < w.KRW
    BY <1>1, <1>2, <2>1, ExchangeNumbers, ProductsOrdered
  <2>3. v.KRW >= 0
    BY <1>1, <1>2, <1>4, <2>2
  <2>4. \A d \in Coins : v.coins[d] >= 0
    BY <1>1, <1>4, <1>7 DEF Solvent
  <2> QED
    BY <2>3, <2>4 DEF Solvent
<1> QED
  BY <1>3, <1>5, <1>6, <1>7 DEF Fair

LEMMA SoldFair ==
  ASSUME NEW w, NEW a \in Int, NEW ok \in BOOLEAN, Fair(w, a, ok), NEW c \in Coins,
         NEW n \in Int, NEW k \in Costs(n), n <= w.coins[c]
  PROVE  Fair(Sold(w, c, n, k), a + 1, ok /\ n >= 0)
<1>1. /\ w \in Wallets /\ w.KRW \in Int /\ w.coins \in [Coins -> Int]
      /\ Worth(w) <= PerCoin * (StartMoney + a)
      /\ ok => Solvent(w)
  BY DEF Fair, Wallets
<1>2. /\ k \in Int /\ PerCoin * k - Price * n <= PerCoin
      /\ n >= 0 => k >= 0
  BY CostIs
<1>3. PICK v : v = Sold(w, c, n, k)
  OBVIOUS
<1>4. v.KRW = w.KRW + k /\ v.coins = [w.coins EXCEPT ![c] = w.coins[c] - n]
  BY <1>3 DEF Sold
<1>5. v \in Wallets
  <2>1. [w.coins EXCEPT ![c] = w.coins[c] - n] \in [Coins -> Int] /\ w.KRW + k \in Int
    BY <1>1, <1>2
  <2> QED
    BY <1>3, <2>1 DEF Sold, Wallets
<1>6. Worth(v) <= PerCoin * (StartMoney + (a + 1))
  <2>1. PICK j, m : j = -k /\ m = -n
    OBVIOUS
  <2>2. j \in Int /\ m \in Int /\ w.KRW + k = w.KRW - j /\ w.coins[c] - n = w.coins[c] + m
    BY <1>1, <1>2, <2>1
  <2>3. Price * m - PerCoin * j <= PerCoin
    <3>1. /\ Price * m = -(Price * n) /\ PerCoin * j = -(PerCoin * k)
          /\ Price * n \in Int /\ PerCoin * k \in Int
      BY <1>2, <2>1, ExchangeNumbers, Products
    <3> QED
      BY <1>2, <3>1, ExchangeNumbers
  <2> QED
    BY <1>1, <1>4, <2>2, <2>3, TradeWorth
<1>7. ASSUME ok, n >= 0 PROVE Solvent(v)
  BY <1>1, <1>2, <1>4, <1>7 DEF Solvent
<1> QED
  BY <1>3, <1>5, <1>6, <1>7 DEF Fair

\* Pixels of negative area give what the allowance counts.
LEMMA PixelsFair ==
  ASSUME NEW w, NEW a \in Int, NEW ok \in BOOLEAN, Fair(w, a, ok), NEW p \in Areas,
         p * PixelPrice < w.KRW
  PROVE  Fair([w EXCEPT !.KRW = w.KRW - p * PixelPrice],
              IF p < 0 THEN a - p * PixelPrice ELSE a, ok)
<1>1. /\ w \in Wallets /\ w.KRW \in Int /\ w.coins \in [Coins -> Int]
      /\ Worth(w) <= PerCoin * (StartMoney + a)
      /\ ok => Solvent(w)
  BY DEF Fair, Wallets
<1>2. PICK x \in Int : x = p * PixelPrice /\ (p >= 0 => x >= 0)
  <2>1. p \in Int /\ p * PixelPrice \in Int
    BY ExchangeNumbers
  <2>2. p >= 0 => p * PixelPrice >= 0
    BY <2>1, ExchangeNumbers
  <2> QED
    BY <2>1, <2>2
<1>3. PICK v : v = [w EXCEPT !.KRW = w.KRW - x]
  OBVIOUS
<1>4. v.KRW = w.KRW - x /\ v.coins = w.coins /\ v \in Wallets
  BY <1>1, <1>2, <1>3 DEF Wallets
<1>5. PICK b \in Int : b = IF p < 0 THEN a - x ELSE a
  BY <1>2
<1>6. a - x <= b
  BY <1>2, <1>5, ExchangeNumbers
<1>7. Worth(v) <= PerCoin * (StartMoney + b)
  <2>1. "BTC" \in Coins /\ Units(w.coins) \in Int
    BY <1>1, UnitsOf DEF Coins
  <2>2. PICK s \in Int : s = Price * Units(w.coins)
    BY <2>1, ExchangeNumbers, Products
  <2>3. /\ PerCoin * (w.KRW - x) = PerCoin * w.KRW - PerCoin * x
        /\ PerCoin * w.KRW \in Int /\ PerCoin * x \in Int
    BY <1>1, <1>2, ExchangeNumbers, Products
  <2>4. PICK t \in Int : t = StartMoney + a
    BY ExchangeNumbers
  <2>5. PerCoin * (t - x) = PerCoin * t - PerCoin * x /\ PerCoin * t \in Int
    BY <1>2, <2>4, ExchangeNumbers, Products
  <2>6. PICK u \in Int : u = StartMoney + b /\ t - x <= u
    BY <1>2, <1>6, <2>4, ExchangeNumbers
  <2>7. PerCoin * (t - x) <= PerCoin * u /\ PerCoin * u \in Int
    BY <1>2, <2>4, <2>6, ExchangeNumbers, Products, ProductsOrdered
  <2>8. PerCoin * w.KRW + s <= PerCoin * t
    BY <1>1, <2>2, <2>4 DEF Worth
  <2>9. Worth(v) = (PerCoin * w.KRW - PerCoin * x) + s
    BY <1>4, <2>2, <2>3 DEF Worth
  <2>10. Worth(v) <= PerCoin * u
    BY <2>3, <2>5, <2>7, <2>8, <2>9
  <2> QED
    BY <2>6, <2>10
<1>8. ok => Solvent(v)
  BY <1>1, <1>2, <1>4 DEF Solvent
<1>9. Fair(v, b, ok)
  BY <1>4, <1>7, <1>8 DEF Fair
<1> QED
  BY <1>2, <1>3, <1>5, <1>9

\* What is fair stays so when the allowance grows.
LEMMA FairMore ==
  ASSUME NEW w, NEW a \in Int, NEW ok, Fair(w, a, ok), NEW b \in Int, a <= b,
         NEW so, so => ok
  PROVE  Fair(w, b, so)
<1>1. PICK s, t \in Int : s = StartMoney + a /\ t = StartMoney + b /\ s <= t
  BY ExchangeNumbers
<1>2. PerCoin * s <= PerCoin * t /\ PerCoin * s \in Int /\ PerCoin * t \in Int
  BY <1>1, ExchangeNumbers, Products, ProductsOrdered
<1>3. w \in Wallets /\ Worth(w) <= PerCoin * s
  BY <1>1 DEF Fair
<1>4. Worth(w) \in Int
  <2>1. w.KRW \in Int /\ w.coins \in [Coins -> Int] /\ "BTC" \in Coins
    BY <1>3 DEF Wallets, Coins
  <2>2. Units(w.coins) \in Int
    BY <2>1, UnitsOf
  <2>3. PerCoin * w.KRW \in Int /\ Price * Units(w.coins) \in Int
    BY <2>1, <2>2, ExchangeNumbers, Products
  <2> QED
    BY <2>3 DEF Worth
<1>5. Worth(w) <= PerCoin * (StartMoney + b)
  BY <1>1, <1>2, <1>3, <1>4
<1> QED
  BY <1>5 DEF Fair

LEMMA NewFair == Fair([KRW |-> StartMoney, coins |-> [c \in Coins |-> 0]], 0, TRUE)
<1> DEFINE zero == [c \in Coins |-> 0]
           w == [KRW |-> StartMoney, coins |-> zero]
<1>1. w \in Wallets /\ Solvent(w)
  BY ExchangeNumbers DEF Wallets, Solvent
<1>2. \A c \in Coins : zero[c] = 0
  OBVIOUS
<1>3. w.KRW = StartMoney /\ w.coins = zero
  OBVIOUS
<1> HIDE DEF zero, w
<1>4. Units(zero) = 0
  BY <1>2 DEF Units, Coins
<1>5. Worth(w) = PerCoin * StartMoney /\ StartMoney + 0 = StartMoney
  BY <1>3, <1>4, ExchangeNumbers, Products DEF Worth
<1>6. Worth(w) <= PerCoin * (StartMoney + 0)
  BY <1>5, ExchangeNumbers, Products
<1> QED
  BY <1>1, <1>6 DEF Fair, w, zero

LEMMA RequestIs ==
  ASSUME NEW r \in Requests
  PROVE  /\ r.at \in {"none", "join", "save", "pixel"}
         /\ r.at = "save" => r.owner \in Owners /\ r.wallet \in Wallets
         /\ r.at = "pixel" => r.owner \in Owners /\ r.wallet \in Wallets /\ r.area \in Areas
BY DEF Requests, None

\* Steps that give no owner less: what was fair is so.
HistoryGrows ==
  /\ allowance' \in [Owners -> Nat] /\ \A o \in Owners : allowance[o] <= allowance'[o]
  /\ negative \subseteq negative' /\ negative' \subseteq Owners

LEMMA HistoryKept ==
  ASSUME ExchangeTypeOK, allowance' = allowance, negative' = negative PROVE HistoryGrows
BY DEF ExchangeTypeOK, HistoryGrows

LEMMA StaysFair ==
  ASSUME ExchangeTypeOK, HistoryGrows, NEW o \in Owners, NEW w, FairTo(w, o)
  PROVE  Fair(w, allowance'[o], o \notin negative')
<1>1. allowance[o] \in Int /\ allowance'[o] \in Int /\ allowance[o] <= allowance'[o]
  BY DEF ExchangeTypeOK, HistoryGrows
<1>2. o \notin negative' => o \notin negative
  BY DEF HistoryGrows
<1> QED
  BY <1>1, <1>2, FairMore DEF FairTo

\* A step of one browser that saves no wallet.
LEMMA RequestMoves ==
  ASSUME ExchangeInv, HistoryGrows, NEW b \in Browsers, NEW r \in Requests,
         request' = [request EXCEPT ![b] = r], wallets' = wallets,
         r.at \in {"save", "pixel"} =>
           /\ Fair(r.wallet, allowance'[r.owner], r.owner \notin negative')
           /\ r.owner \in DOMAIN wallets,
         accounts' \subseteq Users, session' \in [Browsers -> Owners]
  PROVE  ExchangeInv'
<1>1. ExchangeTypeOK /\ StoredFair /\ PendingFair
  BY DEF ExchangeInv
<1>2. ExchangeTypeOK'
  BY <1>1 DEF ExchangeTypeOK, HistoryGrows
<1>3. StoredFair'
  <2>1. ASSUME NEW o \in DOMAIN wallets PROVE Fair(wallets[o], allowance'[o], o \notin negative')
    BY <1>1, StaysFair DEF StoredFair, ExchangeTypeOK
  <2> QED
    BY <2>1 DEF StoredFair, FairTo
<1>4. request'[b] = r /\ \A c \in Browsers \ {b} : request'[c] = request[c]
  BY <1>1 DEF ExchangeTypeOK
<1>5. ASSUME NEW c \in Browsers, request'[c].at \in {"save", "pixel"}
      PROVE  /\ Fair(request'[c].wallet, allowance'[request'[c].owner],
                     request'[c].owner \notin negative')
             /\ request'[c].owner \in DOMAIN wallets'
  <2>1. CASE c = b
    BY <1>4, <1>5, <2>1
  <2>2. CASE c # b
    <3>1. FairTo(request[c].wallet, request[c].owner) /\ request[c].owner \in DOMAIN wallets
      BY <1>1, <1>4, <1>5, <2>2 DEF PendingFair
    <3>2. Fair(request[c].wallet, allowance'[request[c].owner], request[c].owner \notin negative')
      BY <1>1, <3>1, StaysFair DEF ExchangeTypeOK
    <3> QED
      BY <1>4, <2>2, <3>1, <3>2
  <2> QED
    BY <2>1, <2>2
<1>6. PendingFair'
  BY <1>5 DEF PendingFair, FairTo
<1> QED
  BY <1>2, <1>3, <1>6 DEF ExchangeInv

LEMMA NoRequest == None \in Requests /\ None.at = "none"
BY DEF Requests, None

LEMMA LoginKeeps ==
  ASSUME ExchangeInv, NEW b \in Browsers, Login(b) \/ RequestFails(b) \/ JoinPixel(b)
  PROVE  ExchangeInv'
<1> USE DEF ExchangeInv
<1>1. CASE Login(b)
  <2>1. session' \in [Browsers -> Owners]
    BY <1>1 DEF Login, ExchangeTypeOK, Owners
  <2>2. /\ request' = request /\ wallets' = wallets /\ accounts' = accounts
        /\ allowance' = allowance /\ negative' = negative
    BY <1>1 DEF Login, historyVars
  <2>3. ExchangeTypeOK' /\ StoredFair' /\ PendingFair'
    BY <2>1, <2>2 DEF ExchangeTypeOK, StoredFair, PendingFair, FairTo
  <2> QED
    BY <2>3
<1>2. CASE RequestFails(b) \/ JoinPixel(b)
  <2>1. /\ request' = [request EXCEPT ![b] = None] /\ wallets' = wallets
        /\ accounts' = accounts /\ session' = session
        /\ allowance' = allowance /\ negative' = negative
    BY <1>2 DEF RequestFails, JoinPixel, historyVars
  <2>2. accounts \subseteq Users /\ session \in [Browsers -> Owners]
    BY DEF ExchangeTypeOK
  <2> QED
    BY <2>1, <2>2, NoRequest, HistoryKept, RequestMoves
<1> QED
  BY <1>1, <1>2

LEMMA JoinUserKeeps ==
  ASSUME ExchangeInv, NEW b \in Browsers, JoinUser(b)
  PROVE  ExchangeInv'
<1>1. PICK u \in Users :
        /\ accounts' = accounts \cup {u} /\ session' = [session EXCEPT ![b] = u]
        /\ request' = [request EXCEPT ![b] = [at |-> "join", owner |-> u]]
        /\ wallets' = wallets /\ allowance' = allowance /\ negative' = negative
  BY DEF JoinUser, historyVars
<1>2. PICK r : r = [at |-> "join", owner |-> u]
  OBVIOUS
<1>3. r \in Requests /\ r.at = "join"
  <2>1. r \in [at : {"join"}, owner : Users] /\ r.at = "join"
    BY <1>2
  <2> QED
    BY <2>1 DEF Requests
<1>4. /\ accounts' \subseteq Users /\ session' \in [Browsers -> Owners]
      /\ HistoryGrows
  BY <1>1, HistoryKept DEF ExchangeInv, ExchangeTypeOK, Owners
<1> QED
  BY <1>1, <1>2, <1>3, <1>4, RequestMoves

LEMMA MakeNewKeeps ==
  ASSUME ExchangeInv, NEW b \in Browsers, MakeNew(b)
  PROVE  ExchangeInv'
<1> USE DEF ExchangeInv
<1>1. PICK o, w :
        /\ o = session[b] /\ w = [KRW |-> StartMoney, coins |-> [c \in Coins |-> 0]]
        /\ wallets' = Put(wallets, o, w)
        /\ accounts' = accounts /\ session' = session /\ request' = request
        /\ allowance' = allowance /\ negative' = negative
  BY DEF MakeNew, historyVars
<1>2. o \in Owners /\ FairTo(w, o) /\ w \in Wallets
  <2>1. o \in Owners /\ allowance[o] \in Nat
    BY <1>1 DEF ExchangeTypeOK
  <2>2. Fair(w, 0, TRUE)
    BY <1>1, NewFair
  <2>3. Fair(w, allowance[o], o \notin negative)
    <3>1. allowance[o] \in Int /\ 0 <= allowance[o] /\ 0 \in Int
      BY <2>1
    <3> QED
      BY <2>2, <3>1, FairMore, Zenon
  <2> QED
    BY <2>1, <2>2, <2>3 DEF Fair, FairTo
<1>3. /\ DOMAIN wallets' = DOMAIN wallets \cup {o}
      /\ \A p \in DOMAIN wallets' : wallets'[p] = IF p = o THEN w ELSE wallets[p]
      /\ wallets' \in [DOMAIN wallets' -> Wallets]
  <2>1. wallets' = [p \in DOMAIN wallets \cup {o} |-> IF p = o THEN w ELSE wallets[p]]
    BY <1>1 DEF Put
  <2>2. \A p \in DOMAIN wallets : wallets[p] \in Wallets
    BY DEF ExchangeTypeOK
  <2>3. DOMAIN wallets' = DOMAIN wallets \cup {o}
    BY <2>1
  <2> QED
    BY <1>2, <2>1, <2>2, <2>3
<1>4. ExchangeTypeOK'
  BY <1>1, <1>2, <1>3 DEF ExchangeTypeOK
<1>5. StoredFair'
  BY <1>1, <1>2, <1>3 DEF StoredFair, FairTo
<1>6. PendingFair'
  BY <1>1, <1>3 DEF PendingFair, FairTo
<1> QED
  BY <1>4, <1>5, <1>6

\* A request that will save wallet v of its owner.
LEMMA SaveIs ==
  ASSUME NEW o \in Owners, NEW v \in Wallets, NEW r, r = [at |-> "save", owner |-> o, wallet |-> v]
  PROVE  r \in Requests /\ r.at = "save" /\ r.owner = o /\ r.wallet = v
<1>1. r \in [at : {"save"}, owner : Owners, wallet : Wallets]
  OBVIOUS
<1> QED
  BY <1>1 DEF Requests

LEMMA MarketKeeps ==
  ASSUME ExchangeInv, NEW b \in Browsers, NEW c \in Coins, Market(b, c)
  PROVE  ExchangeInv'
<1> USE DEF ExchangeInv
<1>0. PICK o, w : o = session[b] /\ w = wallets[o]
  OBVIOUS
<1>1. PICK n \in Amounts :
        /\ negative' = IF n < 0 THEN negative \cup {o} ELSE negative
        /\ \/ /\ Price * n < PerCoin * w.KRW
              /\ \E k \in Costs(n) :
                   request' = [request EXCEPT ![b] =
                     [at |-> "save", owner |-> o, wallet |-> Bought(w, c, n, k)]]
           \/ /\ n <= w.coins[c]
              /\ \E k \in Costs(n) :
                   request' = [request EXCEPT ![b] =
                     [at |-> "save", owner |-> o, wallet |-> Sold(w, c, n, k)]]
           \/ request' = request
  BY <1>0 DEF Market
<1>2. /\ wallets' = wallets /\ accounts' = accounts /\ session' = session /\ o \in DOMAIN wallets
      /\ allowance' = [allowance EXCEPT ![o] = allowance[o] + 1]
  BY <1>0 DEF Market
<1>3. /\ FairTo(w, o) /\ o \in Owners /\ accounts \subseteq Users
      /\ session \in [Browsers -> Owners] /\ n \in Int /\ allowance[o] \in Int
  BY <1>0, <1>2, ExchangeNumbers DEF StoredFair, ExchangeTypeOK
<1>4. HistoryGrows /\ allowance'[o] = allowance[o] + 1
  BY <1>1, <1>2, <1>3 DEF HistoryGrows, ExchangeTypeOK
<1>5. o \notin negative' => o \notin negative /\ n >= 0
  BY <1>1, <1>3
<1>6. ASSUME NEW v, Fair(v, allowance[o] + 1, (o \notin negative) /\ n >= 0),
             request' = [request EXCEPT ![b] = [at |-> "save", owner |-> o, wallet |-> v]]
      PROVE  ExchangeInv'
  <2>1. PICK r : r = [at |-> "save", owner |-> o, wallet |-> v]
    OBVIOUS
  <2>2. r \in Requests /\ r.at = "save" /\ r.owner = o /\ r.wallet = v
    BY <1>3, <1>6, <2>1, SaveIs DEF Fair
  <2>3. request' = [request EXCEPT ![b] = r]
    BY <1>6, <2>1
  <2>4. Fair(v, allowance'[o], o \notin negative')
    BY <1>4, <1>5, <1>6 DEF Fair
  <2> QED
    BY <1>2, <1>3, <1>4, <2>2, <2>3, <2>4, RequestMoves
<1>7. CASE request' = request
  <2>1. ExchangeTypeOK'
    BY <1>2, <1>4, <1>7 DEF ExchangeTypeOK, HistoryGrows
  <2>2. ASSUME NEW p \in DOMAIN wallets PROVE Fair(wallets[p], allowance'[p], p \notin negative')
    BY <1>4, StaysFair DEF StoredFair, ExchangeTypeOK
  <2>3. ASSUME NEW d \in Browsers, request[d].at \in {"save", "pixel"}
        PROVE  /\ Fair(request[d].wallet, allowance'[request[d].owner], request[d].owner \notin negative')
               /\ request[d].owner \in DOMAIN wallets
    BY <1>4, <2>3, StaysFair DEF PendingFair, ExchangeTypeOK
  <2> QED
    BY <1>2, <1>7, <2>1, <2>2, <2>3 DEF StoredFair, PendingFair, FairTo
<1>8. (o \notin negative) \in BOOLEAN /\ Fair(w, allowance[o], o \notin negative)
  BY <1>3 DEF FairTo
<1>9. CASE /\ Price * n < PerCoin * w.KRW
           /\ \E k \in Costs(n) :
                request' = [request EXCEPT ![b] =
                  [at |-> "save", owner |-> o, wallet |-> Bought(w, c, n, k)]]
  <2>1. PICK k \in Costs(n) :
          request' = [request EXCEPT ![b] =
            [at |-> "save", owner |-> o, wallet |-> Bought(w, c, n, k)]]
    BY <1>9
  <2>2. Fair(Bought(w, c, n, k), allowance[o] + 1, (o \notin negative) /\ n >= 0)
    BY <1>3, <1>8, <1>9, BoughtFair
  <2> QED
    BY <1>6, <2>1, <2>2
<1>10. CASE /\ n <= w.coins[c]
            /\ \E k \in Costs(n) :
                 request' = [request EXCEPT ![b] =
                   [at |-> "save", owner |-> o, wallet |-> Sold(w, c, n, k)]]
  <2>1. PICK k \in Costs(n) :
          request' = [request EXCEPT ![b] =
            [at |-> "save", owner |-> o, wallet |-> Sold(w, c, n, k)]]
    BY <1>10
  <2>2. Fair(Sold(w, c, n, k), allowance[o] + 1, (o \notin negative) /\ n >= 0)
    BY <1>3, <1>8, <1>10, SoldFair
  <2> QED
    BY <1>6, <2>1, <2>2
<1> QED
  BY <1>1, <1>7, <1>9, <1>10

LEMMA MarketPixelKeeps ==
  ASSUME ExchangeInv, NEW b \in Browsers, MarketPixel(b)
  PROVE  ExchangeInv'
<1> USE DEF ExchangeInv
<1>0. PICK o, w : o = session[b] /\ w = wallets[o]
  OBVIOUS
<1>1. PICK a \in Areas :
        /\ allowance' = [allowance EXCEPT ![o] =
             IF a < 0 THEN allowance[o] - a * PixelPrice ELSE allowance[o]]
        /\ request' = [request EXCEPT ![b] =
             IF a * PixelPrice < w.KRW
             THEN [at |-> "pixel", owner |-> o, area |-> a,
                   wallet |-> [w EXCEPT !.KRW = w.KRW - a * PixelPrice]]
             ELSE None]
  BY <1>0 DEF MarketPixel
<1>2. /\ o \in DOMAIN wallets /\ negative' = negative
      /\ wallets' = wallets /\ accounts' = accounts /\ session' = session
  BY <1>0 DEF MarketPixel
<1>3. /\ FairTo(w, o) /\ o \in Owners /\ accounts \subseteq Users
      /\ session \in [Browsers -> Owners] /\ allowance[o] \in Int
  BY <1>0, <1>2 DEF StoredFair, ExchangeTypeOK
<1>4. PICK more \in Int :
        /\ more = IF a < 0 THEN allowance[o] - a * PixelPrice ELSE allowance[o]
        /\ more >= allowance[o]
  <2>1. a \in Int /\ PixelPrice \in Nat
    BY ExchangeNumbers
  <2>2. a * PixelPrice \in Int /\ (a < 0 => a * PixelPrice <= 0)
    BY <2>1
  <2> QED
    BY <1>3, <2>2
<1>5. HistoryGrows /\ allowance'[o] = more
  <2>1. more \in Nat /\ allowance' = [allowance EXCEPT ![o] = more]
    BY <1>1, <1>3, <1>4 DEF ExchangeTypeOK
  <2> QED
    BY <1>2, <1>3, <1>4, <2>1 DEF HistoryGrows, ExchangeTypeOK
<1>6. PICK r \in Requests :
        /\ request' = [request EXCEPT ![b] = r]
        /\ r.at \in {"save", "pixel"} =>
             Fair(r.wallet, allowance'[r.owner], r.owner \notin negative') /\ r.owner \in DOMAIN wallets
  <2>1. CASE a * PixelPrice < w.KRW
    <3>1. PICK v : v = [w EXCEPT !.KRW = w.KRW - a * PixelPrice]
      OBVIOUS
    <3>2. Fair(v, more, o \notin negative)
      BY <1>3, <1>4, <2>1, <3>1, PixelsFair DEF FairTo
    <3>3. PICK r : r = [at |-> "pixel", owner |-> o, area |-> a, wallet |-> v]
      OBVIOUS
    <3>4. r \in [at : {"pixel"}, owner : Owners, area : Areas, wallet : Wallets]
      BY <1>3, <3>2, <3>3 DEF Fair
    <3>5. r \in Requests
      BY <3>4 DEF Requests
    <3>6. request' = [request EXCEPT ![b] = r] /\ r.wallet = v /\ r.owner = o
      BY <1>1, <2>1, <3>1, <3>3
    <3> QED
      BY <1>2, <1>5, <3>2, <3>5, <3>6
  <2>2. CASE ~(a * PixelPrice < w.KRW)
    BY <1>1, <2>2, NoRequest
  <2> QED
    BY <2>1, <2>2
<1> QED
  BY <1>2, <1>3, <1>5, <1>6, RequestMoves

LEMMA SavePixelKeeps ==
  ASSUME ExchangeInv, NEW b \in Browsers, SavePixel(b)
  PROVE  ExchangeInv'
<1> USE DEF ExchangeInv
<1>1. PICK o, v :
        /\ o = request[b].owner /\ v = request[b].wallet /\ request[b].at = "pixel"
        /\ request' = [request EXCEPT ![b] = [at |-> "save", owner |-> o, wallet |-> v]]
        /\ wallets' = wallets /\ accounts' = accounts /\ session' = session
        /\ allowance' = allowance /\ negative' = negative
  BY DEF SavePixel, historyVars
<1>2. /\ FairTo(v, o) /\ o \in DOMAIN wallets /\ o \in Owners
      /\ accounts \subseteq Users /\ session \in [Browsers -> Owners]
  BY <1>1 DEF PendingFair, ExchangeTypeOK
<1>3. PICK r : r = [at |-> "save", owner |-> o, wallet |-> v]
  OBVIOUS
<1>4. r \in Requests /\ r.at = "save" /\ r.owner = o /\ r.wallet = v
  BY <1>2, <1>3, SaveIs DEF FairTo, Fair
<1>5. request' = [request EXCEPT ![b] = r]
  BY <1>1, <1>3
<1>6. Fair(v, allowance'[o], o \notin negative') /\ HistoryGrows
  BY <1>1, <1>2, HistoryKept DEF FairTo
<1> QED
  BY <1>1, <1>2, <1>4, <1>5, <1>6, RequestMoves

LEMMA SaveWalletKeeps ==
  ASSUME ExchangeInv, NEW b \in Browsers, SaveWallet(b)
  PROVE  ExchangeInv'
<1> USE DEF ExchangeInv
<1>1. PICK o, v :
        /\ o = request[b].owner /\ v = request[b].wallet /\ request[b].at = "save"
        /\ wallets' = [wallets EXCEPT ![o] = v]
        /\ request' = [request EXCEPT ![b] = None]
        /\ accounts' = accounts /\ session' = session
        /\ allowance' = allowance /\ negative' = negative
  BY DEF SaveWallet, historyVars
<1>2. FairTo(v, o) /\ v \in Wallets /\ o \in DOMAIN wallets
  BY <1>1 DEF PendingFair, FairTo, Fair
<1>3. /\ DOMAIN wallets' = DOMAIN wallets /\ wallets' \in [DOMAIN wallets -> Wallets]
      /\ \A p \in DOMAIN wallets : wallets'[p] = IF p = o THEN v ELSE wallets[p]
  BY <1>1, <1>2 DEF ExchangeTypeOK
<1>4. /\ request' \in [Browsers -> Requests]
      /\ request'[b] = None /\ \A c \in Browsers \ {b} : request'[c] = request[c]
  BY <1>1, NoRequest DEF ExchangeTypeOK
<1>5. ExchangeTypeOK'
  BY <1>1, <1>3, <1>4 DEF ExchangeTypeOK
<1>6. StoredFair'
  BY <1>1, <1>2, <1>3 DEF StoredFair, FairTo
<1>7. PendingFair'
  BY <1>1, <1>3, <1>4, NoRequest DEF PendingFair, FairTo
<1> QED
  BY <1>5, <1>6, <1>7

LEMMA ExchangeInitOK == ExchangeInit => ExchangeInv
<1> SUFFICES ASSUME ExchangeInit PROVE ExchangeInv
  OBVIOUS
<1>1. DOMAIN wallets = {} /\ wallets \in [DOMAIN wallets -> Wallets]
  BY DEF ExchangeInit
<1>2. request \in [Browsers -> Requests] /\ \A b \in Browsers : request[b].at = "none"
  BY NoRequest DEF ExchangeInit
<1>3. /\ accounts \subseteq Users /\ session \in [Browsers -> Owners]
      /\ allowance \in [Owners -> Nat] /\ negative \subseteq Owners
  BY DEF ExchangeInit, Owners
<1> QED
  BY <1>1, <1>2, <1>3 DEF ExchangeInv, ExchangeTypeOK, StoredFair, PendingFair

LEMMA ExchangeKeeps == ExchangeInv /\ [ExchangeNext]_exchangeVars => ExchangeInv'
<1> SUFFICES ASSUME ExchangeInv, [ExchangeNext]_exchangeVars PROVE ExchangeInv'
  OBVIOUS
<1>1. CASE UNCHANGED exchangeVars
  BY <1>1 DEF exchangeVars, ExchangeInv, ExchangeTypeOK, StoredFair, PendingFair, FairTo
<1>2. ASSUME NEW b \in Browsers, NEW c \in Coins, Market(b, c) PROVE ExchangeInv'
  BY <1>2, MarketKeeps
<1>3. ASSUME NEW b \in Browsers,
             \/ market_btc(b) \/ market_eth(b) \/ market_bch(b) \/ market_xrp(b)
             \/ market_ltc(b) \/ market_dash(b) \/ market_xmr(b) \/ market_btg(b)
             \/ market_eos(b) \/ market_qtum(b) \/ market_etc(b) \/ market_zec(b)
      PROVE  \E c \in Coins : Market(b, c)
  BY <1>3 DEF market_btc, market_eth, market_bch, market_xrp, market_ltc, market_dash,
              market_xmr, market_btg, market_eos, market_qtum, market_etc, market_zec, Coins
<1> QED
  BY <1>1, <1>2, <1>3, LoginKeeps, JoinUserKeeps, MakeNewKeeps, SaveWalletKeeps,
     MarketPixelKeeps, SavePixelKeeps DEF ExchangeNext

\* However many requests of however many browsers interleave and fail, with any amounts and
\* areas the forms admit, no wallet that is stored is worth more than a new one and what
\* truncated costs (views.py:76) and negative areas (views.py:629) have given its owner, and
\* none is overdrawn whose owner never asked for a negative amount.
THEOREM TradesGainNothing == ExchangeSpec => []NothingGained
<1>1. ExchangeSpec => []ExchangeInv
  BY ExchangeInitOK, ExchangeKeeps, PTL DEF ExchangeSpec
<1>2. ExchangeInv => NothingGained
  BY DEF ExchangeInv, StoredFair, FairTo, Fair, Solvent, NothingGained
<1> QED
  BY <1>1, <1>2, PTL

----------------------------------------------------------------------------
(* The board: what main has left to do *)

FndOps == {"INCREASE", "RESET", "SET_BOARD_TIME", "ADD_MINUTE", "ADD_HOUR", "ADD_BASE",
           "ADD_SQUARE", "CHANGE_BASE"}
LcdOps == {"RESET", "ADD_CHAR", "REPLACE"}

Devices == {"FND", "LCD", "DOT", "LED"}

\* A statement of main's work: one for some control_* function is one it knows.
Valid(s) ==
  /\ s.do \in {"control", "assign", "judge"}
  /\ s.do = "control" => \/ s.dev = "FND" /\ s.op \in FndOps
                         \/ s.dev = "LCD" /\ s.op \in LcdOps
                         \/ s.dev \in {"DOT", "LED"}

\* Flags with which the handler changes the number, and statements that set flags.
Hot(flags) == flags \in {{"MODE_1"}, {"MODE_1", "BOARD_TIME"}}
SetsFlags(s) == s.do = "assign" /\ "alarm_flag" \in DOMAIN s.values
SetsHot(s) == SetsFlags(s) /\ Hot(s.values.alarm_flag)
Mild(s) == SetsFlags(s) => "MODE_1" \notin s.values.alarm_flag
IsFnd(s) == s.do = "control" /\ s.dev = "FND"

\* A sequence of statements, outside mode 0 of mild ones.
Made(list, mild) == \E S : list \in Seq(S) /\ \A s \in S : Valid(s) /\ (mild => Mild(s))

\* Before the number is changed no statement makes the flags hot, and one that sets them
\* comes first if they are.
Ordered(list) ==
  \A i \in DOMAIN list : IsFnd(list[i]) => \A j \in 1..(i - 1) : ~SetsHot(list[j])
Resets(list) == \E j \in DOMAIN list : SetsFlags(list[j])
Cooled(list) ==
  \A i \in DOMAIN list : IsFnd(list[i]) => \E j \in 1..(i - 1) : SetsFlags(list[j])
Orderly(list, flags) == Ordered(list) /\ (Hot(flags) => Cooled(list))

----------------------------------------------------------------------------
(* Lists of statements *)

LEMMA MadeIs ==
  ASSUME NEW list, NEW mild, Made(list, mild)
  PROVE  /\ Len(list) \in Nat /\ DOMAIN list = 1..Len(list)
         /\ \A i \in DOMAIN list : Valid(list[i]) /\ (mild => Mild(list[i]))
<1>1. PICK S : list \in Seq(S) /\ \A s \in S : Valid(s) /\ (mild => Mild(s))
  BY DEF Made
<1> QED
  BY <1>1

LEMMA MadeTail ==
  ASSUME NEW list, NEW mild, Made(list, mild), list # <<>>
  PROVE  /\ Made(Tail(list), mild) /\ Valid(Head(list)) /\ (mild => Mild(Head(list)))
         /\ Head(list) = list[1] /\ Len(list) \in Nat /\ Len(list) >= 1
         /\ DOMAIN list = 1..Len(list) /\ DOMAIN Tail(list) = 1..(Len(list) - 1)
         /\ \A i \in DOMAIN Tail(list) : Tail(list)[i] = list[i + 1]
<1>1. PICK S : list \in Seq(S) /\ \A s \in S : Valid(s) /\ (mild => Mild(s))
  BY DEF Made
<1>2. Head(list) \in S /\ Tail(list) \in Seq(S) /\ Head(list) = list[1]
  BY <1>1
<1>3. /\ Len(list) \in Nat /\ Len(list) >= 1 /\ DOMAIN list = 1..Len(list)
      /\ Len(Tail(list)) = Len(list) - 1
  BY <1>1
<1>4. DOMAIN Tail(list) = 1..(Len(list) - 1)
  BY <1>2, <1>3
<1>5. \A i \in 1..(Len(list) - 1) : Tail(list)[i] = list[i + 1]
  BY <1>1, <1>3
<1>6. Made(Tail(list), mild)
  BY <1>1, <1>2 DEF Made
<1> QED
  BY <1>1, <1>2, <1>3, <1>4, <1>5, <1>6

LEMMA MadeJoin ==
  ASSUME NEW p, NEW q, NEW mild, Made(p, mild), Made(q, mild)
  PROVE  /\ Made(p \o q, mild)
         /\ Len(p) \in Nat /\ DOMAIN p = 1..Len(p) /\ Len(q) \in Nat /\ DOMAIN q = 1..Len(q)
         /\ DOMAIN (p \o q) = 1..(Len(p) + Len(q))
         /\ \A i \in 1..(Len(p) + Len(q)) : (p \o q)[i] = IF i <= Len(p) THEN p[i] ELSE q[i - Len(p)]
<1>1. PICK S : p \in Seq(S) /\ \A s \in S : Valid(s) /\ (mild => Mild(s))
  BY DEF Made
<1>2. PICK T : q \in Seq(T) /\ \A s \in T : Valid(s) /\ (mild => Mild(s))
  BY DEF Made
<1>3. p \in Seq(S \cup T) /\ q \in Seq(S \cup T)
  BY <1>1, <1>2
<1>4. p \o q \in Seq(S \cup T) /\ Len(p \o q) = Len(p) + Len(q)
  BY <1>3
<1>5. Made(p \o q, mild)
  BY <1>1, <1>2, <1>4 DEF Made
<1>6. \A i \in 1..(Len(p) + Len(q)) : (p \o q)[i] = IF i <= Len(p) THEN p[i] ELSE q[i - Len(p)]
  BY <1>3
<1>7. /\ Len(p) \in Nat /\ DOMAIN p = 1..Len(p) /\ Len(q) \in Nat /\ DOMAIN q = 1..Len(q)
      /\ DOMAIN (p \o q) = 1..(Len(p) + Len(q))
  BY <1>3, <1>4
<1> QED
  BY <1>5, <1>6, <1>7

LEMMA MadeSome ==
  /\ \A mild : Made(<<>>, mild)
  /\ \A a, mild : Valid(a) /\ (mild => Mild(a)) => Made(<<a>>, mild)
  /\ \A a, b, mild : Valid(a) /\ (mild => Mild(a)) /\ Valid(b) /\ (mild => Mild(b))
       => Made(<<a, b>>, mild)
<1>1. ASSUME NEW mild PROVE Made(<<>>, mild)
  <2>0. PICK S, list : S = {} /\ list = <<>>
    OBVIOUS
  <2>1. list \in Seq(S)
    BY <2>0
  <2>2. \A s \in S : Valid(s) /\ (mild => Mild(s))
    BY <2>0
  <2>3. Made(list, mild)
    BY <2>1, <2>2 DEF Made
  <2> QED
    BY <2>0, <2>3
<1>2. ASSUME NEW a, NEW mild, Valid(a), mild => Mild(a) PROVE Made(<<a>>, mild)
  <2>0. PICK S, list : S = {a} /\ list = <<a>>
    OBVIOUS
  <2>1. list \in Seq(S)
    BY <2>0
  <2>2. \A s \in S : Valid(s) /\ (mild => Mild(s))
    BY <1>2, <2>0
  <2>3. Made(list, mild)
    BY <2>1, <2>2 DEF Made
  <2> QED
    BY <2>0, <2>3
<1>3. ASSUME NEW a, NEW b, NEW mild, Valid(a), mild => Mild(a), Valid(b), mild => Mild(b)
      PROVE  Made(<<a, b>>, mild)
  <2>0. PICK S, list : S = {a, b} /\ list = <<a, b>>
    OBVIOUS
  <2>1. list \in Seq(S)
    BY <2>0
  <2>2. \A s \in S : Valid(s) /\ (mild => Mild(s))
    BY <1>3, <2>0
  <2>3. Made(list, mild)
    BY <2>1, <2>2 DEF Made
  <2> QED
    BY <2>0, <2>3
<1> QED
  BY <1>1, <1>2, <1>3

\* Main goes on to the next statement; flags are what the first one leaves.
LEMMA OrderlyTail ==
  ASSUME NEW list, NEW mild, Made(list, mild), list # <<>>, NEW f, Orderly(list, f), NEW g,
         g = IF SetsFlags(Head(list)) THEN Head(list).values.alarm_flag ELSE f
  PROVE  Orderly(Tail(list), g)
<1> DEFINE n == Len(list)
           q == Tail(list)
<1>1. /\ n \in Nat /\ n >= 1 /\ DOMAIN list = 1..n /\ DOMAIN q = 1..(n - 1)
      /\ Head(list) = list[1] /\ \A i \in 1..(n - 1) : q[i] = list[i + 1]
  BY MadeTail
<1> HIDE DEF n, q
<1>2. \A i \in 1..(n - 1) : i + 1 \in 1..n /\ 1 \in 1..((i + 1) - 1)
  BY <1>1
<1>3. \A i \in 1..(n - 1) : \A j \in 1..(i - 1) : j \in 1..(n - 1) /\ j + 1 \in 1..((i + 1) - 1)
  BY <1>1
<1>4. Ordered(q)
  <2> SUFFICES ASSUME NEW i \in 1..(n - 1), IsFnd(q[i]), NEW j \in 1..(i - 1) PROVE ~SetsHot(q[j])
    BY <1>1 DEF Ordered
  <2>1. q[i] = list[i + 1] /\ q[j] = list[j + 1] /\ i + 1 \in DOMAIN list /\ j + 1 \in 1..((i + 1) - 1)
    BY <1>1, <1>2, <1>3
  <2> QED
    BY <2>1 DEF Orderly, Ordered
<1>5. ASSUME Hot(g), NEW i \in 1..(n - 1), IsFnd(q[i])
      PROVE  \E j \in 1..(i - 1) : SetsFlags(q[j])
  <2>1. q[i] = list[i + 1] /\ i + 1 \in DOMAIN list /\ 1 \in 1..((i + 1) - 1)
    BY <1>1, <1>2
  <2>2. ~SetsHot(list[1])
    BY <1>5, <2>1 DEF Orderly, Ordered
  <2>3. ~SetsFlags(list[1]) /\ Hot(f)
    BY <1>1, <1>5, <2>2 DEF SetsHot
  <2>4. PICK k \in 1..((i + 1) - 1) : SetsFlags(list[k])
    BY <1>5, <2>1, <2>3 DEF Orderly, Cooled
  <2>5. k # 1 /\ k - 1 \in 1..(i - 1) /\ k - 1 \in 1..(n - 1) /\ (k - 1) + 1 = k
    BY <1>1, <2>3, <2>4
  <2>6. q[k - 1] = list[k]
    BY <1>1, <2>5
  <2> QED
    BY <2>4, <2>5, <2>6
<1>6. Hot(g) => Cooled(q)
  BY <1>1, <1>5 DEF Cooled
<1> QED
  BY <1>4, <1>6 DEF Orderly, q

\* More statements before those of q.
LEMMA OrderlyJoin ==
  ASSUME NEW p, NEW q, NEW mild, Made(p, mild), Made(q, mild), NEW f, Orderly(p, f),
         \A i \in DOMAIN p : ~SetsHot(p[i]), Ordered(q), Orderly(q, f) \/ Resets(p)
  PROVE  Orderly(p \o q, f)
<1> DEFINE m == Len(p)
           n == Len(q)
           s == p \o q
<1>1. /\ m \in Nat /\ DOMAIN p = 1..m /\ n \in Nat /\ DOMAIN q = 1..n /\ DOMAIN s = 1..(m + n)
      /\ \A i \in 1..(m + n) : s[i] = IF i <= m THEN p[i] ELSE q[i - m]
  BY MadeJoin
<1> HIDE DEF m, n, s
<1>2. \A i \in 1..m : i \in 1..(m + n) /\ s[i] = p[i]
  BY <1>1
<1>3. \A i \in 1..n : m + i \in 1..(m + n) /\ s[m + i] = q[i]
  <2>1. \A i \in 1..n : m + i \in 1..(m + n) /\ ~(m + i <= m) /\ (m + i) - m = i
    BY <1>1
  <2> QED
    BY <1>1, <2>1
<1>4. ASSUME NEW i \in 1..(m + n), ~(i <= m) PROVE \E k \in 1..n : i = m + k
  <2>1. i - m \in 1..n /\ i = m + (i - m)
    BY <1>1, <1>4
  <2> QED
    BY <2>1
<1>5. Ordered(s)
  <2> SUFFICES ASSUME NEW i \in 1..(m + n), IsFnd(s[i]), NEW j \in 1..(i - 1) PROVE ~SetsHot(s[j])
    BY <1>1 DEF Ordered
  <2>1. CASE j <= m
    <3>1. j \in 1..m
      BY <1>1, <2>1
    <3> QED
      BY <1>1, <1>2, <3>1
  <2>2. CASE ~(j <= m)
    <3>1. j \in 1..(m + n) /\ ~(i <= m)
      BY <1>1, <2>2
    <3>2. PICK k \in 1..n, l \in 1..n : i = m + k /\ j = m + l
      BY <1>4, <2>2, <3>1
    <3>3. l \in 1..(k - 1)
      BY <1>1, <3>2
    <3> QED
      BY <1>1, <1>3, <3>2, <3>3 DEF Ordered
  <2> QED
    BY <2>1, <2>2
<1>6. ASSUME Hot(f), NEW i \in 1..(m + n), IsFnd(s[i]) PROVE \E j \in 1..(i - 1) : SetsFlags(s[j])
  <2>1. CASE i <= m
    <3>1. i \in 1..m
      BY <1>1, <2>1
    <3>2. PICK j \in 1..(i - 1) : SetsFlags(p[j])
      BY <1>1, <1>2, <1>6, <3>1 DEF Orderly, Cooled
    <3>3. j \in 1..m
      BY <1>1, <3>1
    <3> QED
      BY <1>2, <3>2, <3>3
  <2>2. CASE ~(i <= m)
    <3>1. PICK k \in 1..n : i = m + k
      BY <1>4, <2>2
    <3>2. CASE Resets(p)
      <4>1. PICK j \in 1..m : SetsFlags(p[j])
        BY <1>1, <3>2 DEF Resets
      <4>2. j \in 1..(i - 1)
        BY <1>1, <2>2
      <4> QED
        BY <1>2, <4>1, <4>2
    <3>3. CASE Orderly(q, f)
      <4>1. PICK j \in 1..(k - 1) : SetsFlags(q[j])
        BY <1>1, <1>3, <1>6, <3>1, <3>3 DEF Orderly, Cooled
      <4>2. j \in 1..n /\ m + j \in 1..(i - 1)
        BY <1>1, <3>1
      <4> QED
        BY <1>3, <4>1, <4>2
    <3> QED
      BY <3>2, <3>3
  <2> QED
    BY <2>1, <2>2
<1>7. Hot(f) => Cooled(s)
  BY <1>1, <1>6 DEF Cooled
<1> QED
  BY <1>5, <1>7 DEF Orderly, s

Fine(s, mild) == Valid(s) /\ (mild => Mild(s))

LEMMA MadeOf ==
  ASSUME NEW S, NEW list \in Seq(S), NEW mild, \A s \in S : Fine(s, mild)
  PROVE  Made(list, mild)
<1>1. \A s \in S : Valid(s) /\ (mild => Mild(s))
  BY DEF Fine
<1> QED
  BY <1>1 DEF Made

LEMMA MadeThree ==
  ASSUME NEW a, NEW b, NEW c, NEW mild, Fine(a, mild), Fine(b, mild), Fine(c, mild)
  PROVE  Made(<<a, b, c>>, mild)
<1>1. PICK S, list : S = {a, b, c} /\ list = <<a, b, c>>
  OBVIOUS
<1>2. list \in Seq(S) /\ \A s \in S : Fine(s, mild)
  BY <1>1
<1> QED
  BY <1>1, <1>2, MadeOf

LEMMA MadeFour ==
  ASSUME NEW a, NEW b, NEW c, NEW d, NEW mild,
         Fine(a, mild), Fine(b, mild), Fine(c, mild), Fine(d, mild)
  PROVE  Made(<<a, b, c, d>>, mild)
<1>1. PICK S, list : S = {a, b, c, d} /\ list = <<a, b, c, d>>
  OBVIOUS
<1>2. list \in Seq(S) /\ \A s \in S : Fine(s, mild)
  BY <1>1
<1> QED
  BY <1>1, <1>2, MadeOf

LEMMA MadeFive ==
  ASSUME NEW a, NEW b, NEW c, NEW d, NEW e, NEW mild,
         Fine(a, mild), Fine(b, mild), Fine(c, mild), Fine(d, mild), Fine(e, mild)
  PROVE  Made(<<a, b, c, d, e>>, mild)
<1>1. PICK S, list : S = {a, b, c, d, e} /\ list = <<a, b, c, d, e>>
  OBVIOUS
<1>2. list \in Seq(S) /\ \A s \in S : Fine(s, mild)
  BY <1>1
<1> QED
  BY <1>1, <1>2, MadeOf

LEMMA MadeSix ==
  ASSUME NEW a, NEW b, NEW c, NEW d, NEW e, NEW g, NEW mild,
         Fine(a, mild), Fine(b, mild), Fine(c, mild), Fine(d, mild), Fine(e, mild), Fine(g, mild)
  PROVE  Made(<<a, b, c, d, e, g>>, mild)
<1>1. PICK S, list : S = {a, b, c, d, e, g} /\ list = <<a, b, c, d, e, g>>
  OBVIOUS
<1>2. list \in Seq(S) /\ \A s \in S : Fine(s, mild)
  BY <1>1
<1> QED
  BY <1>1, <1>2, MadeOf

\* What the statements are.
LEMMA Statements ==
  /\ \A op, mild : op \in FndOps => Fine(Fnd(op), mild)
  /\ \A op, mild : op \in LcdOps => Fine(Lcd(op), mild) /\ ~IsFnd(Lcd(op))
  /\ \A op, mild : Fine(Dot(op), mild) /\ ~IsFnd(Dot(op))
  /\ \A op, mild : Fine(Led(op), mild) /\ ~IsFnd(Led(op))
  /\ \A op : /\ ~SetsFlags(Fnd(op)) /\ ~SetsFlags(Lcd(op)) /\ ~SetsFlags(Dot(op))
             /\ ~SetsFlags(Led(op))
  /\ \A v : Assign(v).do = "assign" /\ Assign(v).values = v /\ ~IsFnd(Assign(v)) /\ Valid(Assign(v))
  /\ \A v, mild : "alarm_flag" \notin DOMAIN v => Fine(Assign(v), mild) /\ ~SetsFlags(Assign(v))
  /\ ~SetsFlags(Alarm) /\ ~IsFnd(Alarm) /\ \A mild : Fine(Alarm, mild)
<1>1. \A op, mild : op \in FndOps => Fine(Fnd(op), mild)
  BY DEF Fine, Fnd, Valid, Mild, SetsFlags
<1>2. \A op, mild : op \in LcdOps => Fine(Lcd(op), mild) /\ ~IsFnd(Lcd(op))
  BY DEF Fine, Lcd, Valid, Mild, SetsFlags, IsFnd
<1>3. \A op, mild : Fine(Dot(op), mild) /\ ~IsFnd(Dot(op))
  BY DEF Fine, Dot, Valid, Mild, SetsFlags, IsFnd
<1>4. \A op, mild : Fine(Led(op), mild) /\ ~IsFnd(Led(op))
  BY DEF Fine, Led, Valid, Mild, SetsFlags, IsFnd
<1>5. \A op : ~SetsFlags(Fnd(op)) /\ ~SetsFlags(Lcd(op)) /\ ~SetsFlags(Dot(op)) /\ ~SetsFlags(Led(op))
  BY DEF Fnd, Lcd, Dot, Led, SetsFlags
<1>6. \A v : Assign(v).do = "assign" /\ Assign(v).values = v /\ ~IsFnd(Assign(v)) /\ Valid(Assign(v))
  BY DEF Assign, IsFnd, Valid
<1>7. ASSUME NEW v, NEW mild, "alarm_flag" \notin DOMAIN v
      PROVE  Fine(Assign(v), mild) /\ ~SetsFlags(Assign(v))
  <2>1. ~SetsFlags(Assign(v))
    BY <1>6, <1>7 DEF SetsFlags
  <2> QED
    BY <1>6, <2>1 DEF Fine, Mild
<1>8. ~SetsFlags(Alarm) /\ ~IsFnd(Alarm) /\ \A mild : Fine(Alarm, mild)
  <2>1. "alarm_flag" \notin DOMAIN [armed |-> TRUE]
    OBVIOUS
  <2> QED
    BY <1>6, <1>7, <2>1 DEF Alarm
<1> QED
  BY <1>1, <1>2, <1>3, <1>4, <1>5, <1>6, <1>7, <1>8

\* An assignment of the flags among others.
LEMMA FlagsSet ==
  ASSUME NEW v, "alarm_flag" \in DOMAIN v
  PROVE  /\ SetsFlags(Assign(v)) /\ Assign(v).values.alarm_flag = v.alarm_flag
         /\ "MODE_1" \notin v.alarm_flag => (\A mild : Fine(Assign(v), mild)) /\ ~SetsHot(Assign(v))
         /\ \A mild : ~mild => Fine(Assign(v), mild)
<1>1. SetsFlags(Assign(v)) /\ Assign(v).values.alarm_flag = v.alarm_flag
  BY Statements DEF SetsFlags
<1>2. ASSUME "MODE_1" \notin v.alarm_flag PROVE (\A mild : Fine(Assign(v), mild)) /\ ~SetsHot(Assign(v))
  <2>1. Mild(Assign(v))
    BY <1>1, <1>2 DEF Mild
  <2>2. ~Hot(v.alarm_flag)
    BY <1>2 DEF Hot
  <2> QED
    BY <1>1, <2>1, <2>2, Statements DEF Fine, SetsHot
<1>3. \A mild : ~mild => Fine(Assign(v), mild)
  BY Statements DEF Fine
<1> QED
  BY <1>1, <1>2, <1>3

LEMMA MadeWeaker ==
  ASSUME NEW list, Made(list, TRUE), NEW mild
  PROVE  Made(list, mild)
<1>1. PICK S : list \in Seq(S) /\ \A s \in S : Valid(s) /\ Mild(s)
  BY DEF Made
<1>2. \A s \in S : Fine(s, mild)
  BY <1>1 DEF Fine
<1> QED
  BY <1>1, <1>2, MadeOf

\* Outside mode 0 any list is in order; and so is one without the number.
LEMMA MildOrderly ==
  ASSUME NEW list, Made(list, TRUE), NEW f, "MODE_1" \notin f
  PROVE  Orderly(list, f)
<1>1. \A i \in DOMAIN list : Mild(list[i])
  BY MadeIs
<1>2. \A i \in DOMAIN list : ~SetsHot(list[i])
  BY <1>1 DEF SetsHot, Mild, Hot
<1>3. Ordered(list)
  <2> SUFFICES ASSUME NEW i \in DOMAIN list, NEW j \in 1..(i - 1) PROVE ~SetsHot(list[j])
    BY DEF Ordered
  <2>1. j \in DOMAIN list
    BY MadeIs
  <2> QED
    BY <1>2, <2>1
<1>4. ~Hot(f)
  BY DEF Hot
<1> QED
  BY <1>3, <1>4 DEF Orderly

LEMMA NoFndOrderly ==
  ASSUME NEW list, \A i \in DOMAIN list : ~IsFnd(list[i]), NEW f
  PROVE  Orderly(list, f)
BY DEF Orderly, Ordered, Cooled

----------------------------------------------------------------------------
(* main's lists *)

LEMMA InitializeBoard ==
  /\ \A mild : Made(initialize_board, mild)
  /\ \A f : Orderly(initialize_board, f)
  /\ Resets(initialize_board) /\ \A i \in DOMAIN initialize_board : ~SetsHot(initialize_board[i])
<1> DEFINE v == [alarm_flag |-> {}, sec |-> 0, prev |-> -1, numeric |-> FALSE,
                 cnt |-> 0, ingame |-> FALSE, ans |-> {}, minutes |-> 0]
           a == Assign([armed |-> FALSE])
           b == Assign(v)
<1>1. "alarm_flag" \in DOMAIN v /\ "MODE_1" \notin v.alarm_flag /\ "alarm_flag" \notin DOMAIN [armed |-> FALSE]
  OBVIOUS
<1>2. (\A mild : Fine(a, mild)) /\ ~SetsFlags(a) /\ ~IsFnd(a)
  BY <1>1, Statements
<1> HIDE DEF v
<1>3. (\A mild : Fine(b, mild)) /\ SetsFlags(b) /\ ~SetsHot(b) /\ ~IsFnd(b)
  BY <1>1, FlagsSet, Statements
<1>4. initialize_board = <<a, b, Fnd("RESET"), Lcd("RESET"), Dot("RESET"), Led("RESET")>>
  BY DEF initialize_board, v
<1> HIDE DEF a, b
<1>5. PICK c, d, e, g : c = Fnd("RESET") /\ d = Lcd("RESET") /\ e = Dot("RESET") /\ g = Led("RESET")
  OBVIOUS
<1>6. /\ \A mild : Fine(c, mild) /\ Fine(d, mild) /\ Fine(e, mild) /\ Fine(g, mild)
      /\ ~IsFnd(d) /\ ~IsFnd(e) /\ ~IsFnd(g)
      /\ ~SetsFlags(c) /\ ~SetsFlags(d) /\ ~SetsFlags(e) /\ ~SetsFlags(g)
  BY <1>5, Statements DEF FndOps, LcdOps
<1>7. PICK list : list = <<a, b, c, d, e, g>> /\ list = initialize_board
  BY <1>4, <1>5
<1>8. /\ DOMAIN list = 1..6 /\ list[1] = a /\ list[2] = b /\ list[3] = c /\ list[4] = d
      /\ list[5] = e /\ list[6] = g
  BY <1>7
<1>9. \A mild : Made(initialize_board, mild)
  BY <1>2, <1>3, <1>6, <1>7, MadeSix
<1>10. \A i \in DOMAIN list : ~SetsHot(list[i])
  BY <1>2, <1>3, <1>6, <1>8 DEF SetsHot
<1>11. \A i \in DOMAIN list : IsFnd(list[i]) => i = 3
  BY <1>2, <1>3, <1>6, <1>8
<1>12. Ordered(list)
  <2>1. \A j \in 1..(3 - 1) : j \in DOMAIN list
    BY <1>8
  <2> QED
    BY <1>10, <1>11, <2>1 DEF Ordered
<1>13. Cooled(list)
  <2>1. 2 \in 1..(3 - 1) /\ SetsFlags(list[2])
    BY <1>3, <1>8
  <2> QED
    BY <1>11, <2>1 DEF Cooled
<1>14. Resets(list)
  <2>1. 2 \in DOMAIN list /\ SetsFlags(list[2])
    BY <1>3, <1>8
  <2> QED
    BY <2>1 DEF Resets
<1> QED
  BY <1>7, <1>9, <1>10, <1>12, <1>13, <1>14 DEF Orderly

LEMMA InitiateMode ==
  ASSUME NEW n \in 0..4
  PROVE  Made(initiate_mode(n), n # 0) /\ Ordered(initiate_mode(n))
<1>1. CASE n = 0
  <2>1. PICK a, b, c, d :
          /\ a = Fnd("SET_BOARD_TIME") /\ b = Led("SET")
          /\ c = Assign([alarm_flag |-> {"MODE_1", "BOARD_TIME"}]) /\ d = Alarm
    OBVIOUS
  <2>0. initiate_mode(n) = <<Fnd("SET_BOARD_TIME"), Led("SET"),
                             Assign([alarm_flag |-> {"MODE_1", "BOARD_TIME"}]), Alarm>>
    BY <1>1 DEF initiate_mode
  <2>2. PICK list : list = <<a, b, c, d>> /\ list = initiate_mode(n)
    BY <2>0, <2>1
  <2>3. PICK v, mild : v = [alarm_flag |-> {"MODE_1", "BOARD_TIME"}] /\ mild = FALSE
    OBVIOUS
  <2>10. "alarm_flag" \in DOMAIN v /\ ~mild /\ (n # 0) = mild
    BY <1>1, <2>3
  <2>4. /\ Fine(a, mild) /\ Fine(b, mild) /\ Fine(d, mild)
        /\ ~IsFnd(b) /\ ~IsFnd(c) /\ ~IsFnd(d)
    BY <2>1, Statements DEF FndOps
  <2>9. Fine(c, mild)
    BY <2>1, <2>3, <2>10, FlagsSet
  <2>5. Made(list, mild)
    BY <2>2, <2>4, <2>9, MadeFour
  <2>6. /\ DOMAIN list = 1..4 /\ list[1] = a /\ list[2] = b /\ list[3] = c /\ list[4] = d
    BY <2>2
  <2>7. \A i \in DOMAIN list : IsFnd(list[i]) => i = 1
    BY <2>4, <2>6
  <2>8. Ordered(list)
    BY <2>7 DEF Ordered
  <2> QED
    BY <2>2, <2>5, <2>8, <2>10
<1>2. CASE n = 1
  <2>0. initiate_mode(n) = <<Led("SET")>>
    BY <1>2 DEF initiate_mode
  <2>1. PICK a, list : a = Led("SET") /\ list = <<a>> /\ list = initiate_mode(n)
    BY <2>0
  <2>2. Fine(a, n # 0) /\ ~IsFnd(a)
    BY <2>1, Statements
  <2>3. Made(list, n # 0)
    BY <2>1, <2>2, MadeSome DEF Fine
  <2>4. \A i \in DOMAIN list : ~IsFnd(list[i])
    BY <2>1, <2>2
  <2> QED
    BY <2>1, <2>3, <2>4, NoFndOrderly DEF Orderly
<1>3. CASE n = 2
  <2>0. initiate_mode(n) = <<Dot("PRINT_INPUT_MODE")>>
    BY <1>3 DEF initiate_mode
  <2>1. PICK a, list : a = Dot("PRINT_INPUT_MODE") /\ list = <<a>> /\ list = initiate_mode(n)
    BY <2>0
  <2>2. Fine(a, n # 0) /\ ~IsFnd(a)
    BY <2>1, Statements
  <2>3. Made(list, n # 0)
    BY <2>1, <2>2, MadeSome DEF Fine
  <2>4. \A i \in DOMAIN list : ~IsFnd(list[i])
    BY <2>1, <2>2
  <2> QED
    BY <2>1, <2>3, <2>4, NoFndOrderly DEF Orderly
<1>4. CASE n = 3
  <2>1. PICK a, b, c : a = Dot("CURSOR_SHOW") /\ b = Assign([alarm_flag |-> {"MODE_4"}]) /\ c = Alarm
    OBVIOUS
  <2>0. initiate_mode(n) = <<Dot("CURSOR_SHOW"), Assign([alarm_flag |-> {"MODE_4"}]), Alarm>>
    BY <1>4 DEF initiate_mode
  <2>2. PICK list : list = <<a, b, c>> /\ list = initiate_mode(n)
    BY <2>0, <2>1
  <2>3. /\ "alarm_flag" \in DOMAIN [alarm_flag |-> {"MODE_4"}]
        /\ "MODE_1" \notin [alarm_flag |-> {"MODE_4"}].alarm_flag
    OBVIOUS
  <2>4. /\ \A mild : Fine(a, mild) /\ Fine(b, mild) /\ Fine(c, mild)
        /\ ~IsFnd(a) /\ ~IsFnd(b) /\ ~IsFnd(c)
    BY <2>1, <2>3, Statements, FlagsSet
  <2>5. Made(list, n # 0)
    BY <2>2, <2>4, MadeThree
  <2>6. DOMAIN list = 1..3 /\ list[1] = a /\ list[2] = b /\ list[3] = c
    BY <2>2
  <2>7. \A i \in DOMAIN list : ~IsFnd(list[i])
    BY <2>4, <2>6
  <2> QED
    BY <2>2, <2>5, <2>7, NoFndOrderly DEF Orderly
<1>5. CASE n = 4
  <2>1. initiate_mode(n) = <<>>
    BY <1>5 DEF initiate_mode
  <2>2. \A i \in DOMAIN <<>> : ~IsFnd(<<>>[i])
    OBVIOUS
  <2> QED
    BY <2>1, <2>2, MadeSome, NoFndOrderly DEF Orderly
<1> QED
  BY <1>1, <1>2, <1>3, <1>4, <1>5

LEMMA ChangedMode ==
  ASSUME NEW n \in 0..4, NEW f
  PROVE  /\ Made(initialize_board \o initiate_mode(n), n # 0)
         /\ Orderly(initialize_board \o initiate_mode(n), f)
         /\ Resets(initialize_board \o initiate_mode(n))
<1>1. PICK p, q : p = initialize_board /\ q = initiate_mode(n)
  OBVIOUS
<1>2. Made(p, n # 0) /\ Orderly(p, f) /\ Resets(p) /\ \A i \in DOMAIN p : ~SetsHot(p[i])
  BY <1>1, InitializeBoard
<1>3. Made(q, n # 0) /\ Ordered(q)
  BY <1>1, InitiateMode
<1>4. Made(p \o q, n # 0) /\ Orderly(p \o q, f)
  BY <1>2, <1>3, MadeJoin, OrderlyJoin
<1>5. Resets(p \o q)
  <2>1. PICK i \in DOMAIN p : SetsFlags(p[i])
    BY <1>2 DEF Resets
  <2>2. i \in DOMAIN (p \o q) /\ (p \o q)[i] = p[i]
    <3>1. /\ Len(p) \in Nat /\ DOMAIN p = 1..Len(p) /\ Len(q) \in Nat
          /\ DOMAIN (p \o q) = 1..(Len(p) + Len(q))
          /\ \A j \in 1..(Len(p) + Len(q)) : (p \o q)[j] = IF j <= Len(p) THEN p[j] ELSE q[j - Len(p)]
      BY <1>2, <1>3, MadeJoin
    <3>2. i \in 1..(Len(p) + Len(q)) /\ i <= Len(p)
      BY <3>1
    <3> QED
      BY <3>1, <3>2
  <2> QED
    BY <2>1, <2>2 DEF Resets
<1> QED
  BY <1>1, <1>4, <1>5

LEMMA OneSwitch == {1} # {2} /\ {1} # {3} /\ {1} # {4} /\ {2} # {3} /\ {2} # {4} /\ {3} # {4}
<1>1. 1 \notin {2} /\ 1 \notin {3} /\ 1 \notin {4} /\ 2 \notin {3} /\ 2 \notin {4} /\ 3 \notin {4}
  OBVIOUS
<1> QED
  BY <1>1

LEMMA Mode1 ==
  ASSUME NEW m, NEW sw, NEW mild, ~mild
  PROVE  Made(mode1(m, sw), mild) /\ Orderly(mode1(m, sw), m.alarm_flag)
<1> DEFINE f == m.alarm_flag \ {"BOARD_TIME"}
<1>1. ASSUME NEW op \in FndOps
      PROVE  Made(EditTime(m, op), mild) /\ Orderly(EditTime(m, op), m.alarm_flag)
  <2>1. CASE "BLINK" \in m.alarm_flag
    <3>1. PICK a, list : a = Fnd(op) /\ list = <<a>> /\ list = EditTime(m, op)
      BY <2>1 DEF EditTime
    <3>2. Made(list, mild)
      BY <3>1, Statements, MadeSome DEF Fine
    <3>3. Ordered(list)
      <4>1. DOMAIN list = {1} /\ 1..(1 - 1) = {}
        BY <3>1
      <4> QED
        BY <4>1 DEF Ordered
    <3>4. ~Hot(m.alarm_flag)
      BY <2>1 DEF Hot
    <3> QED
      BY <3>1, <3>2, <3>3, <3>4 DEF Orderly
  <2>2. CASE "BLINK" \notin m.alarm_flag
    <3>1. PICK list : list = <<>> /\ list = EditTime(m, op)
      BY <2>2 DEF EditTime
    <3>2. DOMAIN list = {}
      BY <3>1
    <3> QED
      BY <3>1, <3>2, MadeSome, NoFndOrderly
  <2> QED
    BY <2>1, <2>2
<1>2. CASE sw = {1}
  <2>1. PICK v, w, x : v = [alarm_flag |-> f] /\ w = [alarm_flag |-> Toggle(f, "BLINK")] /\ x = [sec |-> 0]
    OBVIOUS
  <2>2. "alarm_flag" \in DOMAIN v /\ "alarm_flag" \in DOMAIN w /\ "alarm_flag" \notin DOMAIN x
    BY <2>1
  <2>3. PICK a, b, c, d, e :
          a = Assign(v) /\ b = Assign(w) /\ c = Led("SET") /\ d = Assign(x) /\ e = Alarm
    OBVIOUS
  <2>4. mode1(m, sw) = <<Assign([alarm_flag |-> f]), Assign([alarm_flag |-> Toggle(f, "BLINK")]),
                         Led("SET"), Assign([sec |-> 0]), Alarm>>
    BY <1>2, OneSwitch DEF mode1
  <2>5. PICK list : list = <<a, b, c, d, e>> /\ list = mode1(m, sw)
    BY <2>1, <2>3, <2>4
  <2>6. Fine(a, mild) /\ Fine(b, mild)
    BY <2>2, <2>3, FlagsSet
  <2>7. /\ Fine(c, mild) /\ Fine(d, mild) /\ Fine(e, mild)
        /\ ~IsFnd(a) /\ ~IsFnd(b) /\ ~IsFnd(c) /\ ~IsFnd(d) /\ ~IsFnd(e)
    BY <2>2, <2>3, Statements
  <2>8. Made(list, mild)
    BY <2>5, <2>6, <2>7, MadeFive
  <2>9. /\ DOMAIN list = 1..5 /\ list[1] = a /\ list[2] = b /\ list[3] = c /\ list[4] = d
        /\ list[5] = e
    BY <2>5
  <2>10. \A i \in DOMAIN list : ~IsFnd(list[i])
    BY <2>7, <2>9
  <2> QED
    BY <2>5, <2>8, <2>10, NoFndOrderly
<1>3. CASE sw # {1} /\ sw = {2}
  BY <1>1, <1>3 DEF mode1, FndOps
<1>4. CASE sw # {1} /\ sw # {2} /\ sw = {3}
  BY <1>1, <1>4 DEF mode1, FndOps
<1>5. CASE sw # {1} /\ sw # {2} /\ sw # {3} /\ sw = {4}
  BY <1>1, <1>5 DEF mode1, FndOps
<1>6. CASE sw # {1} /\ sw # {2} /\ sw # {3} /\ sw # {4}
  <2>1. PICK list : list = <<>> /\ list = mode1(m, sw)
    BY <1>6 DEF mode1
  <2>2. DOMAIN list = {}
    BY <2>1
  <2> QED
    BY <2>1, <2>2, MadeSome, NoFndOrderly
<1> QED
  BY <1>2, <1>3, <1>4, <1>5, <1>6

LEMMA Mode2 ==
  ASSUME NEW m, NEW sw, NEW mild
  PROVE  Made(mode2(m, sw), mild)
<1>1. ASSUME NEW op \in FndOps PROVE Made(<<Fnd(op)>>, mild)
  BY Statements, MadeSome DEF Fine
<1>2. Made(<<>>, mild)
  BY MadeSome
<1> DEFINE p == CASE sw = {1} -> << Fnd("CHANGE_BASE") >>
                  [] sw = {2} -> << Fnd("ADD_SQUARE") >>
                  [] sw = {3} -> << Fnd("ADD_BASE") >>
                  [] sw = {4} -> << Fnd("INCREASE") >>
                  [] OTHER    -> << >>
<1>3. mode2(m, sw) = p \o <<Led("SET")>>
  BY DEF mode2
<1>5. Made(p, mild)
  <2>1. CASE sw = {1}
    BY <1>1, OneSwitch, <2>1 DEF FndOps
  <2>2. CASE sw = {2}
    BY <1>1, OneSwitch, <2>2 DEF FndOps
  <2>3. CASE sw = {3}
    BY <1>1, OneSwitch, <2>3 DEF FndOps
  <2>4. CASE sw = {4}
    BY <1>1, OneSwitch, <2>4 DEF FndOps
  <2>5. CASE sw # {1} /\ sw # {2} /\ sw # {3} /\ sw # {4}
    BY <1>2, <2>5
  <2> QED
    BY <2>1, <2>2, <2>3, <2>4, <2>5
<1> HIDE DEF p
<1>6. PICK a, q : a = Led("SET") /\ q = <<a>> /\ mode2(m, sw) = p \o q
  BY <1>3
<1>7. Made(q, mild)
  BY <1>6, Statements, MadeSome DEF Fine
<1> QED
  BY <1>5, <1>6, <1>7, MadeJoin

LEMMA Mode3 ==
  ASSUME NEW m, NEW sw, NEW mild
  PROVE  Made(mode3(m, sw), mild)
<1>1. ASSUME NEW v, "alarm_flag" \notin DOMAIN v PROVE Fine(Assign(v), mild)
  BY <1>1, Statements
<1>2. Made(ClearText, mild)
  <2>1. PICK v, a, b : v = [prev |-> -1] /\ a = Assign(v) /\ b = Lcd("RESET")
    OBVIOUS
  <2>2. "alarm_flag" \notin DOMAIN v
    BY <2>1
  <2>3. Fine(a, mild) /\ Fine(b, mild)
    BY <1>1, <2>1, <2>2, Statements DEF LcdOps
  <2>4. ClearText = <<a, b>>
    BY <2>1 DEF ClearText
  <2> QED
    BY <2>3, <2>4, MadeSome DEF Fine
<1>3. Made(TypeLetter(m, sw), mild)
  <2>1. PICK cur, v, w, x :
          /\ cur = (CHOOSE s \in sw : TRUE) /\ v = [cnt |-> (m.cnt + 1) % 3] /\ w = [cnt |-> 0]
          /\ x = [prev |-> cur]
    OBVIOUS
  <2>2. "alarm_flag" \notin DOMAIN v /\ "alarm_flag" \notin DOMAIN w /\ "alarm_flag" \notin DOMAIN x
    BY <2>1
  <2>3. PICK a, b, c, d, e :
          a = Assign(v) /\ b = Assign(w) /\ c = Assign(x) /\ d = Lcd("ADD_CHAR") /\ e = Lcd("REPLACE")
    OBVIOUS
  <2>4. Fine(a, mild) /\ Fine(b, mild) /\ Fine(c, mild)
    BY <1>1, <2>2, <2>3
  <2>5. Fine(d, mild) /\ Fine(e, mild)
    BY <2>3, Statements DEF LcdOps
  <2>6. Made(<<d>>, mild) /\ Made(<<a, e>>, mild)
    BY <2>4, <2>5, MadeSome DEF Fine
  <2>7. Made(<<b, d, c>>, mild)
    BY <2>4, <2>5, MadeThree
  <2>8. TypeLetter(m, sw) = IF m.numeric THEN <<d>> ELSE IF m.prev = cur THEN <<a, e>> ELSE <<b, d, c>>
    BY <2>1, <2>3 DEF TypeLetter
  <2> QED
    BY <2>6, <2>7, <2>8
<1>4. Made(<<Assign([numeric |-> ~m.numeric]), Dot("PRINT_INPUT_MODE")>>, mild)
  <2>1. PICK v, a, b :
          v = [numeric |-> ~m.numeric] /\ a = Assign(v) /\ b = Dot("PRINT_INPUT_MODE")
    OBVIOUS
  <2>2. "alarm_flag" \notin DOMAIN v
    BY <2>1
  <2>3. Fine(a, mild) /\ Fine(b, mild)
    BY <1>1, <2>1, <2>2, Statements
  <2>4. Made(<<a, b>>, mild)
    BY <2>3, MadeSome DEF Fine
  <2> QED
    BY <2>1, <2>4
<1>5. Made(<<Lcd("ADD_CHAR")>>, mild) /\ Made(<<Fnd("INCREASE")>>, mild)
  BY Statements, MadeSome DEF Fine, LcdOps, FndOps
<1>6. Made(<<>>, mild)
  BY MadeSome
<1> DEFINE p == <<Fnd("INCREASE")>>
           q == CASE Cardinality(sw) = 1 -> TypeLetter(m, sw)
                  [] sw = {2, 3} -> ClearText
                  [] sw = {5, 6} -> << Assign([numeric |-> ~m.numeric]), Dot("PRINT_INPUT_MODE") >>
                  [] sw = {8, 9} -> << Lcd("ADD_CHAR") >>
                  [] OTHER       -> << >>
<1>7. \/ q = TypeLetter(m, sw) \/ q = ClearText
      \/ q = <<Assign([numeric |-> ~m.numeric]), Dot("PRINT_INPUT_MODE")>>
      \/ q = <<Lcd("ADD_CHAR")>> \/ q = <<>>
  OBVIOUS
<1>8. mode3(m, sw) = p \o q
  BY DEF mode3
<1>9. Made(p, mild)
  BY <1>5
<1> HIDE DEF p, q
<1>10. Made(q, mild)
  BY <1>2, <1>3, <1>4, <1>5, <1>6, <1>7
<1> QED
  BY <1>8, <1>9, <1>10, MadeJoin

LEMMA Mode4 ==
  ASSUME NEW m, NEW sw, NEW mild, mild => "MODE_1" \notin m.alarm_flag
  PROVE  Made(mode4(m, sw), mild)
<1> DEFINE f == Toggle(m.alarm_flag, "MODE_4")
<1>1. mild => "MODE_1" \notin f
  BY DEF Toggle
<1> HIDE DEF f
<1>2. Made(<<Assign([alarm_flag |-> f])>>, mild)
  <2>1. PICK v : v = [alarm_flag |-> f]
    OBVIOUS
  <2>2. "alarm_flag" \in DOMAIN v /\ v.alarm_flag = f
    BY <2>1
  <2>3. Fine(Assign(v), mild)
    BY <1>1, <2>2, FlagsSet
  <2>4. Made(<<Assign(v)>>, mild)
    BY <2>3, MadeSome DEF Fine
  <2> QED
    BY <2>1, <2>4
<1>3. \A op : Made(<<Dot(op)>>, mild)
  BY Statements, MadeSome DEF Fine
<1>4. Made(<<Dot("CURSOR_SHOW"), Alarm>>, mild)
  BY Statements, MadeSome DEF Fine
<1>5. Made(<<>>, mild) /\ Made(<<Fnd("INCREASE")>>, mild)
  BY Statements, MadeSome DEF Fine, FndOps
<1> DEFINE p == <<Fnd("INCREASE")>>
           h == IF f # {} THEN << Dot("CURSOR_SHOW"), Alarm >> ELSE << Dot("CURSOR_HIDE") >>
           q == CASE sw = {3} -> << Assign([alarm_flag |-> f]) >> \o h
                  [] Cardinality(sw) = 1 /\ sw # {3} -> << Dot(DotKeys[CHOOSE s \in sw : TRUE]) >>
                  [] OTHER -> << >>
<1>6. Made(h, mild)
  BY <1>3, <1>4
<1>7. mode4(m, sw) = p \o q
  BY DEF mode4, f
<1>8. Made(p, mild)
  BY <1>5
<1> HIDE DEF p, h
<1>9. Made(<<Assign([alarm_flag |-> f])>> \o h, mild)
  BY <1>2, <1>6, MadeJoin
<1>10. \/ q = <<Assign([alarm_flag |-> f])>> \o h
       \/ q = <<Dot(DotKeys[CHOOSE s \in sw : TRUE])>> \/ q = <<>>
  OBVIOUS
<1> HIDE DEF q
<1>11. Made(q, mild)
  BY <1>3, <1>5, <1>9, <1>10
<1> QED
  BY <1>7, <1>8, <1>11, MadeJoin

LEMMA Mode5 ==
  ASSUME NEW m, NEW sw, NEW mild, mild => "MODE_1" \notin m.alarm_flag
  PROVE  Made(mode5(m, sw), mild)
<1> DEFINE f == m.alarm_flag \cup {"MODE_5"}
<1>1. mild => "MODE_1" \notin f
  OBVIOUS
<1> HIDE DEF f
<1>2. PICK v, w, x, y, z :
        /\ v = [ingame |-> TRUE] /\ w = [sec |-> 2] /\ x = [alarm_flag |-> f]
        /\ y = [ans |-> {}] /\ z = [ingame |-> FALSE]
  OBVIOUS
<1>3. /\ "alarm_flag" \notin DOMAIN v /\ "alarm_flag" \notin DOMAIN w
      /\ "alarm_flag" \notin DOMAIN y /\ "alarm_flag" \notin DOMAIN z
      /\ "alarm_flag" \in DOMAIN x /\ x.alarm_flag = f
  BY <1>2
<1>4. /\ Fine(Assign(v), mild) /\ Fine(Assign(w), mild) /\ Fine(Assign(y), mild)
      /\ Fine(Assign(z), mild)
  BY <1>3, Statements
<1>5. Fine(Assign(x), mild)
  BY <1>1, <1>3, FlagsSet
<1>6. /\ Fine(Dot("PRINT_3"), mild) /\ Fine(Alarm, mild) /\ Fine(Led("RESET"), mild)
      /\ Fine(Dot("RESET"), mild) /\ Fine(Lcd("RESET"), mild) /\ Fine(Fnd("RESET"), mild)
      /\ Fine(Fnd("INCREASE"), mild)
  BY Statements DEF FndOps, LcdOps
<1> DEFINE p == IF m.ingame THEN << Fnd("INCREASE") >> ELSE << >>
           a == << Assign(v), Dot("PRINT_3"), Assign(w), Assign(x), Alarm >>
           b == << Assign(y), Assign(z), Led("RESET"), Dot("RESET"), Lcd("RESET"), Fnd("RESET") >>
           q == CASE sw = {5} /\ ~m.ingame -> a [] sw = {9} -> b [] OTHER -> << >>
           j == [do |-> "judge", sw |-> sw]
<1>7. Made(a, mild)
  BY <1>4, <1>5, <1>6, MadeFive
<1>8. Made(b, mild)
  BY <1>4, <1>6, MadeSix
<1>9. Made(p, mild)
  <2>1. Made(<<Fnd("INCREASE")>>, mild) /\ Made(<<>>, mild)
    BY <1>6, MadeSome DEF Fine
  <2> QED
    BY <2>1
<1>10. mode5(m, sw) = (p \o q) \o <<j>>
  BY <1>2 DEF mode5, f
<1>11. Fine(j, mild)
  BY DEF Fine, Valid, Mild, SetsFlags
<1> HIDE DEF p, a, b, j
<1>12. Made(q, mild)
  BY <1>7, <1>8, MadeSome
<1>13. Made(<<j>>, mild)
  BY <1>11, MadeSome DEF Fine
<1> HIDE DEF q
<1>14. Made(p \o q, mild)
  BY <1>9, <1>12, MadeJoin
<1> QED
  BY <1>10, <1>13, <1>14, MadeJoin

\* What a press makes main do.
LEMMA RunMode ==
  ASSUME NEW n \in 0..4, NEW m, NEW sw, n # 0 => "MODE_1" \notin m.alarm_flag
  PROVE  Made(run_mode(n, m, sw), n # 0) /\ Orderly(run_mode(n, m, sw), m.alarm_flag)
<1>1. CASE n = 0
  <2>1. PICK mild : mild = (n # 0)
    OBVIOUS
  <2>2. ~mild
    BY <1>1, <2>1
  <2>3. run_mode(n, m, sw) = mode1(m, sw)
    BY <1>1 DEF run_mode
  <2> QED
    BY <2>1, <2>2, <2>3, Mode1
<1>2. CASE n # 0
  <2>1. "MODE_1" \notin m.alarm_flag
    BY <1>2
  <2>2. \A mild : /\ Made(mode2(m, sw), mild) /\ Made(mode3(m, sw), mild)
                  /\ Made(mode4(m, sw), mild) /\ Made(mode5(m, sw), mild)
    BY <2>1, Mode2, Mode3, Mode4, Mode5
  <2>3. \/ run_mode(n, m, sw) = mode2(m, sw) \/ run_mode(n, m, sw) = mode3(m, sw)
        \/ run_mode(n, m, sw) = mode4(m, sw) \/ run_mode(n, m, sw) = mode5(m, sw)
    <3>1. n = 1 \/ n = 2 \/ n = 3 \/ n = 4
      BY <1>2
    <3> QED
      BY <3>1 DEF run_mode
  <2>4. PICK list : list = run_mode(n, m, sw) /\ \A mild : Made(list, mild)
    BY <2>2, <2>3
  <2>5. Orderly(list, m.alarm_flag)
    BY <2>1, <2>4, MildOrderly
  <2> QED
    BY <2>4, <2>5
<1> QED
  BY <1>1, <1>2

LEMMA Congratulated ==
  /\ \A mild : Made(Congratulation, mild)
  /\ \A i \in DOMAIN Congratulation : ~IsFnd(Congratulation[i]) /\ ~SetsFlags(Congratulation[i])
<1>1. PICK p, q, S :
        /\ p = <<Dot("REVERSE")>> /\ q = [i \in 1..9 |-> Lcd("ADD_CHAR")] /\ S = {Lcd("ADD_CHAR")}
  OBVIOUS
<1>2. Congratulation = p \o q
  BY <1>1 DEF Congratulation
<1>3. q \in Seq(S)
  BY <1>1
<1>4. (\A s \in S : \A mild : Fine(s, mild)) /\ \A s \in S : ~IsFnd(s) /\ ~SetsFlags(s)
  BY <1>1, Statements DEF LcdOps
<1>5. \A mild : Made(q, mild) /\ Made(p, mild)
  <2>1. \A mild : Made(q, mild)
    BY <1>3, <1>4, MadeOf
  <2>2. \A mild : Made(p, mild)
    BY <1>1, Statements, MadeSome DEF Fine
  <2> QED
    BY <2>1, <2>2
<1>6. /\ Len(p) = 1 /\ p[1] = Dot("REVERSE") /\ DOMAIN q = 1..9 /\ Len(q) = 9
      /\ \A i \in 1..9 : q[i] \in S
  BY <1>1, <1>3
<1>7. \A mild : Made(p \o q, mild)
  BY <1>5, MadeJoin
<1>8. /\ DOMAIN (p \o q) = 1..10
      /\ \A i \in 1..10 : (p \o q)[i] = IF i <= 1 THEN p[i] ELSE q[i - 1]
  <2>1. PICK mild : Made(p, mild) /\ Made(q, mild)
    BY <1>5
  <2>2. PICK k \in Nat, l \in Nat :
          /\ k = Len(p) /\ l = Len(q) /\ DOMAIN (p \o q) = 1..(k + l)
          /\ \A i \in 1..(k + l) : (p \o q)[i] = IF i <= k THEN p[i] ELSE q[i - k]
    BY <2>1, MadeJoin
  <2>3. k = 1 /\ k + l = 10
    BY <1>6, <2>2
  <2> QED
    BY <2>2, <2>3
<1>9. \A i \in 1..10 : ~IsFnd((p \o q)[i]) /\ ~SetsFlags((p \o q)[i])
  <2> SUFFICES ASSUME NEW i \in 1..10 PROVE ~IsFnd((p \o q)[i]) /\ ~SetsFlags((p \o q)[i])
    OBVIOUS
  <2>1. CASE i = 1
    <3>1. (p \o q)[i] = Dot("REVERSE")
      BY <1>6, <1>8, <2>1
    <3> QED
      BY <3>1, Statements
  <2>2. CASE i # 1
    <3>1. ~(i <= 1) /\ i - 1 \in 1..9
      BY <2>2
    <3> QED
      BY <1>4, <1>6, <1>8, <3>1
  <2> QED
    BY <2>1, <2>2
<1> QED
  BY <1>2, <1>7, <1>8, <1>9

LEMMA ResetsTail ==
  ASSUME NEW list, NEW mild, Made(list, mild), list # <<>>, Resets(list), ~SetsFlags(Head(list))
  PROVE  Resets(Tail(list))
<1>1. PICK n \in Nat :
        /\ n = Len(list) /\ DOMAIN list = 1..n /\ DOMAIN Tail(list) = 1..(n - 1)
        /\ Head(list) = list[1] /\ \A i \in 1..(n - 1) : Tail(list)[i] = list[i + 1]
  BY MadeTail
<1>2. PICK j \in 1..n : SetsFlags(list[j])
  BY <1>1 DEF Resets
<1>3. j # 1
  BY <1>1, <1>2
<1>4. j - 1 \in 1..(n - 1) /\ (j - 1) + 1 = j
  BY <1>3
<1>5. Tail(list)[j - 1] = list[j]
  BY <1>1, <1>4
<1> QED
  BY <1>1, <1>2, <1>4, <1>5 DEF Resets

LEMMA ResetsJoin ==
  ASSUME NEW p, NEW q, NEW mild, Made(p, mild), Made(q, mild), Resets(q)
  PROVE  Resets(p \o q)
<1>1. PICK m \in Nat, n \in Nat :
        /\ m = Len(p) /\ n = Len(q) /\ DOMAIN q = 1..n /\ DOMAIN (p \o q) = 1..(m + n)
        /\ \A i \in 1..(m + n) : (p \o q)[i] = IF i <= m THEN p[i] ELSE q[i - m]
  BY MadeJoin
<1>2. PICK j \in 1..n : SetsFlags(q[j])
  BY <1>1 DEF Resets
<1>3. m + j \in 1..(m + n) /\ ~(m + j <= m) /\ (m + j) - m = j
  OBVIOUS
<1>4. (p \o q)[m + j] = q[j]
  BY <1>1, <1>3
<1> QED
  BY <1>1, <1>2, <1>3, <1>4 DEF Resets

\* The handler's part: it sets no flags, and changes the number with certain flags only.
LEMMA HandlerKeepsFlags ==
  ASSUME NEW a
  PROVE  "alarm_flag" \notin DOMAIN HandlerValues(a)
BY DEF HandlerValues

LEMMA HandlerDoes ==
  ASSUME NEW mild
  PROVE  /\ Made(HandlerOps, mild) /\ \A i \in DOMAIN HandlerOps : HandlerOps[i].do = "control"
         /\ \A i \in DOMAIN HandlerOps : HandlerOps[i].dev = "FND" => Hot(mem.alarm_flag)
<1>1. ASSUME NEW op
      PROVE  /\ Led(op).do = "control" /\ Led(op).dev # "FND"
             /\ Dot(op).do = "control" /\ Dot(op).dev # "FND" /\ Fnd(op).do = "control"
  BY DEF Led, Dot, Fnd
<1>2. ASSUME NEW s, Fine(s, mild), s.do = "control", s.dev = "FND" => Hot(mem.alarm_flag)
      PROVE  /\ Made(<<s>>, mild)
             /\ \A i \in DOMAIN <<s>> : /\ <<s>>[i].do = "control"
                                        /\ <<s>>[i].dev = "FND" => Hot(mem.alarm_flag)
  <2>1. Made(<<s>>, mild)
    BY <1>2, MadeSome DEF Fine
  <2> QED
    BY <1>2, <2>1
<1>3. \/ \E s : /\ HandlerOps = <<s>> /\ Fine(s, mild) /\ s.do = "control"
                /\ s.dev = "FND" => Hot(mem.alarm_flag)
      \/ HandlerOps = <<Dot("RESET"), Dot("REVERSE"), Led("SET")>>
      \/ HandlerOps = <<>>
  <2>1. \/ HandlerOps = <<Led("SET")>>
        \/ HandlerOps = <<Fnd("SET_BOARD_TIME")>> /\ mem.alarm_flag = {"MODE_1", "BOARD_TIME"}
        \/ HandlerOps = <<Fnd("ADD_MINUTE")>> /\ Counted
        \/ HandlerOps = <<Dot("CURSOR_SHOW")>> \/ HandlerOps = <<Dot("PRINT")>>
        \/ HandlerOps = <<Dot("RESET"), Dot("REVERSE"), Led("SET")>> \/ HandlerOps = <<>>
    BY DEF HandlerOps
  <2>2. /\ mem.alarm_flag = {"MODE_1", "BOARD_TIME"} => Hot(mem.alarm_flag)
        /\ Counted => Hot(mem.alarm_flag)
    BY DEF Counted, Hot
  <2>3. /\ Fine(Led("SET"), mild) /\ Fine(Dot("CURSOR_SHOW"), mild) /\ Fine(Dot("PRINT"), mild)
        /\ Fine(Fnd("SET_BOARD_TIME"), mild) /\ Fine(Fnd("ADD_MINUTE"), mild)
    BY Statements DEF FndOps
  <2> QED
    BY <1>1, <2>1, <2>2, <2>3
<1>4. CASE HandlerOps = <<Dot("RESET"), Dot("REVERSE"), Led("SET")>>
  <2>1. PICK a, b, c, list :
          /\ a = Dot("RESET") /\ b = Dot("REVERSE") /\ c = Led("SET") /\ list = <<a, b, c>>
          /\ list = HandlerOps
    BY <1>4
  <2>2. Made(list, mild)
    BY <2>1, Statements, MadeThree
  <2>3. DOMAIN list = 1..3 /\ list[1] = a /\ list[2] = b /\ list[3] = c
    BY <2>1
  <2>4. \A i \in DOMAIN list : list[i].do = "control" /\ list[i].dev # "FND"
    BY <1>1, <2>1, <2>3
  <2> QED
    BY <2>1, <2>2, <2>4
<1>5. CASE HandlerOps = <<>>
  <2>1. DOMAIN HandlerOps = {}
    BY <1>5
  <2> QED
    BY <1>5, <2>1, MadeSome
<1> QED
  BY <1>2, <1>3, <1>4, <1>5


----------------------------------------------------------------------------
(* The queue *)

IsList(q) == \E S : q \in Seq(S)
IsFor(m, d) == m.mtype = 2 /\ m.dtype = d

\* No message has ended the output process, or only the last of those to it will.
NoTerm(q) == \A i \in DOMAIN q : q[i].dtype # "TERM"
TermLast(q) ==
  \A i \in DOMAIN q : q[i].dtype = "TERM" => \A j \in DOMAIN q : i < j => q[j].mtype # 2

\* When the messages in q are shown, device d, which shows seen, will be clear.
Clears(q, seen, d) ==
  \/ (\A i \in DOMAIN q : ~IsFor(q[i], d)) /\ seen = {}
  \/ \E i \in DOMAIN q : /\ IsFor(q[i], d) /\ q[i].data = {}
                         /\ \A j \in DOMAIN q : i < j => ~IsFor(q[j], d)

LEMMA Enqueued ==
  ASSUME NEW q, IsList(q), NEW m
  PROVE  /\ IsList(Append(q, m))
         /\ NoTerm(q) /\ m.dtype # "TERM" => NoTerm(Append(q, m))
         /\ TermLast(q) /\ m.dtype # "TERM" /\ m.mtype # 2 => TermLast(Append(q, m))
         /\ NoTerm(q) => TermLast(Append(q, m))
         /\ \A d, seen : Clears(q, seen, d) /\ ~IsFor(m, d) => Clears(Append(q, m), seen, d)
         /\ \A d, seen : IsFor(m, d) /\ m.data = {} => Clears(Append(q, m), seen, d)
<1>1. PICK S : q \in Seq(S)
  BY DEF IsList
<1>2. PICK n, r :
        /\ n \in Nat /\ n = Len(q) /\ DOMAIN q = 1..n /\ r = Append(q, m) /\ DOMAIN r = 1..(n + 1)
        /\ r[n + 1] = m /\ \A i \in 1..n : r[i] = q[i]
  <2>1. q \in Seq(S \cup {m}) /\ m \in S \cup {m}
    BY <1>1
  <2>2. /\ Len(q) \in Nat /\ DOMAIN q = 1..Len(q) /\ DOMAIN Append(q, m) = 1..(Len(q) + 1)
        /\ Append(q, m)[Len(q) + 1] = m /\ \A i \in 1..Len(q) : Append(q, m)[i] = q[i]
    BY <2>1
  <2> QED
    BY <2>2
<1>3. IsList(r)
  <2>1. q \in Seq(S \cup {m}) /\ m \in S \cup {m}
    BY <1>1
  <2>2. Append(q, m) \in Seq(S \cup {m})
    BY <2>1
  <2> QED
    BY <1>2, <2>2 DEF IsList
<1>4. /\ \A i \in 1..(n + 1) : i \in 1..n \/ i = n + 1
      /\ \A i \in 1..n : i \in 1..(n + 1) /\ i < n + 1 /\ ~(n + 1 < i)
      /\ n + 1 \in 1..(n + 1) /\ ~(n + 1 < n + 1)
  BY <1>2
<1>5. ASSUME NoTerm(q), m.dtype # "TERM" PROVE NoTerm(r)
  BY <1>2, <1>4, <1>5 DEF NoTerm
<1>6. ASSUME TermLast(q), m.dtype # "TERM", m.mtype # 2 PROVE TermLast(r)
  BY <1>2, <1>4, <1>6 DEF TermLast
<1>7. ASSUME NoTerm(q) PROVE TermLast(r)
  BY <1>2, <1>4, <1>7 DEF TermLast, NoTerm
<1>8. ASSUME NEW d, NEW seen, Clears(q, seen, d), ~IsFor(m, d) PROVE Clears(r, seen, d)
  <2>1. CASE (\A i \in DOMAIN q : ~IsFor(q[i], d)) /\ seen = {}
    BY <1>2, <1>4, <1>8, <2>1 DEF Clears
  <2>2. ASSUME NEW i \in DOMAIN q, IsFor(q[i], d), q[i].data = {},
               \A j \in DOMAIN q : i < j => ~IsFor(q[j], d)
        PROVE  Clears(r, seen, d)
    <3>1. i \in DOMAIN r /\ r[i] = q[i]
      BY <1>2, <1>4
    <3>2. \A j \in DOMAIN r : i < j => ~IsFor(r[j], d)
      BY <1>2, <1>4, <1>8, <2>2
    <3> QED
      BY <2>2, <3>1, <3>2 DEF Clears
  <2> QED
    BY <1>8, <2>1, <2>2 DEF Clears
<1>9. ASSUME NEW d, NEW seen, IsFor(m, d), m.data = {} PROVE Clears(r, seen, d)
  BY <1>2, <1>4, <1>9 DEF Clears
<1> QED
  BY <1>2, <1>3, <1>5, <1>6, <1>7, <1>8, <1>9

LEMMA Dequeued ==
  ASSUME NEW q, IsList(q), NEW r \in DOMAIN q
  PROVE  /\ IsList(RemoveAt(q, r))
         /\ NoTerm(q) => NoTerm(RemoveAt(q, r))
         /\ TermLast(q) => TermLast(RemoveAt(q, r))
         /\ \A d, seen :
              /\ Clears(q, seen, d) /\ q[r].mtype = 2
              /\ \A i \in DOMAIN q : q[i].mtype = 2 => r <= i
              => Clears(RemoveAt(q, r), IF q[r].dtype = d THEN q[r].data ELSE seen, d)
<1>1. PICK S : q \in Seq(S)
  BY DEF IsList
<1>2. PICK n, p :
        /\ n \in Nat /\ n = Len(q) /\ DOMAIN q = 1..n /\ p = RemoveAt(q, r) /\ p \in Seq(S)
        /\ DOMAIN p = 1..(n - 1)
        /\ \A i \in 1..(n - 1) : p[i] = IF i < r THEN q[i] ELSE q[i + 1]
  <2> DEFINE u == SubSeq(q, 1, r - 1)
             v == SubSeq(q, r + 1, Len(q))
             n == Len(q)
             p == RemoveAt(q, r)
  <2>1. n \in Nat /\ DOMAIN q = 1..n /\ r \in 1..n
    BY <1>1
  <2>2. u \in Seq(S) /\ Len(u) = r - 1 /\ \A i \in 1..(r - 1) : u[i] = q[i]
    BY <1>1, <2>1
  <2>3. v \in Seq(S) /\ Len(v) = n - r /\ \A i \in 1..(n - r) : v[i] = q[r + i]
    BY <1>1, <2>1
  <2>4. p = u \o v
    BY DEF RemoveAt
  <2> HIDE DEF u, v, n, p
  <2>5. p \in Seq(S) /\ Len(p) = (r - 1) + (n - r)
    <3>0. u \in Seq(S) /\ v \in Seq(S)
      BY <2>2, <2>3
    <3>1. p \in Seq(S) /\ Len(p) = Len(u) + Len(v)
      BY <2>4, <3>0
    <3> QED
      BY <2>2, <2>3, <3>1
  <2>6. (r - 1) + (n - r) = n - 1
    BY <2>1
  <2>7. DOMAIN p = 1..(n - 1)
    BY <2>5, <2>6
  <2>8. \A i \in 1..((r - 1) + (n - r)) : p[i] = IF i <= r - 1 THEN u[i] ELSE v[i - (r - 1)]
    BY <2>2, <2>3, <2>4
  <2>9. ASSUME NEW i \in 1..(n - 1), i < r PROVE p[i] = q[i]
    <3>1. i <= r - 1 /\ i \in 1..(r - 1)
      BY <2>1, <2>9
    <3> QED
      BY <2>2, <2>6, <2>8, <3>1
  <2>10. ASSUME NEW i \in 1..(n - 1), ~(i < r) PROVE p[i] = q[i + 1]
    <3>1. ~(i <= r - 1) /\ i - (r - 1) \in 1..(n - r) /\ r + (i - (r - 1)) = i + 1
      BY <2>1, <2>10
    <3> QED
      BY <2>3, <2>6, <2>8, <3>1
  <2> QED
    BY <2>1, <2>5, <2>7, <2>9, <2>10 DEF n, p
<1> DEFINE at(i) == IF i < r THEN i ELSE i + 1
           from(j) == IF j < r THEN j ELSE j - 1
<1>3. /\ r \in 1..n
      /\ \A i \in 1..(n - 1) : at(i) \in 1..n /\ at(i) # r
      /\ \A i, j \in 1..(n - 1) : i < j => at(i) < at(j)
      /\ \A j \in 1..n : j # r => from(j) \in 1..(n - 1) /\ at(from(j)) = j
      /\ \A j \in 1..n : \A i \in 1..(n - 1) : j # r /\ from(j) < i => j < at(i)
  BY <1>2
<1>4. \A i \in 1..(n - 1) : p[i] = q[at(i)]
  BY <1>2
<1> HIDE DEF at, from
<1>5. NoTerm(q) => NoTerm(p)
  BY <1>2, <1>3, <1>4 DEF NoTerm
<1>6. ASSUME TermLast(q) PROVE TermLast(p)
  <2> SUFFICES ASSUME NEW i \in 1..(n - 1), p[i].dtype = "TERM", NEW j \in 1..(n - 1), i < j
               PROVE  p[j].mtype # 2
    BY <1>2 DEF TermLast
  <2>1. at(i) \in 1..n /\ at(j) \in 1..n /\ at(i) < at(j) /\ p[i] = q[at(i)] /\ p[j] = q[at(j)]
    BY <1>3, <1>4
  <2> QED
    BY <1>2, <1>6, <2>1 DEF TermLast
<1>7. ASSUME NEW d, NEW seen, Clears(q, seen, d), q[r].mtype = 2,
             \A i \in 1..n : q[i].mtype = 2 => r <= i
      PROVE  Clears(p, IF q[r].dtype = d THEN q[r].data ELSE seen, d)
  <2>1. CASE (\A i \in DOMAIN q : ~IsFor(q[i], d)) /\ seen = {}
    <3>1. q[r].dtype # d
      BY <1>7, <2>1 DEF IsFor
    <3> QED
      BY <1>2, <1>3, <1>4, <2>1, <3>1 DEF Clears
  <2>2. ASSUME NEW i \in 1..n, IsFor(q[i], d), q[i].data = {},
               \A j \in 1..n : i < j => ~IsFor(q[j], d)
        PROVE  Clears(p, IF q[r].dtype = d THEN q[r].data ELSE seen, d)
    <3>1. CASE i = r
      <4>1. \A j \in 1..n : j # r => ~IsFor(q[j], d)
        <5> SUFFICES ASSUME NEW j \in 1..n, j # r, IsFor(q[j], d) PROVE FALSE
          OBVIOUS
        <5>1. r <= j
          BY <1>7 DEF IsFor
        <5>2. i < j
          BY <1>3, <3>1, <5>1
        <5> QED
          BY <2>2, <5>2
      <4>2. \A j \in 1..(n - 1) : ~IsFor(p[j], d)
        BY <1>3, <1>4, <4>1
      <4> QED
        BY <1>2, <2>2, <3>1, <4>2 DEF Clears, IsFor
    <3>2. CASE i # r
      <4>1. from(i) \in 1..(n - 1) /\ p[from(i)] = q[i]
        BY <1>3, <1>4, <3>2
      <4>2. \A j \in 1..(n - 1) : from(i) < j => ~IsFor(p[j], d)
        BY <1>3, <1>4, <2>2, <3>2
      <4> QED
        BY <1>2, <2>2, <4>1, <4>2 DEF Clears
    <3> QED
      BY <3>1, <3>2
  <2> QED
    BY <1>2, <1>7, <2>1, <2>2 DEF Clears
<1>8. IsList(p)
  BY <1>2 DEF IsList
<1> QED
  BY <1>2, <1>5, <1>6, <1>7, <1>8

\* A nonempty set of numbers has a least element.
LEMMA LeastNumber ==
  ASSUME NEW S \in SUBSET Nat, S # {}
  PROVE  \E n \in S : \A m \in S : n <= m
<1> DEFINE R == {p \in Nat \X Nat : p[1] < p[2]}
<1>1. IsWellFoundedOn(R, Nat)
  BY NatLessThanWellFounded DEF OpToRel
<1>2. \A m, n \in Nat : <<m, n>> \in R <=> m < n
  OBVIOUS
<1> HIDE DEF R
<1>3. PICK n \in S : \A m \in S : ~(<<m, n>> \in R)
  BY <1>1, WFMin
<1>4. ASSUME NEW m \in S PROVE n <= m
  <2>1. m \in Nat /\ n \in Nat /\ ~(<<m, n>> \in R)
    BY <1>3
  <2> QED
    BY <2>1, <1>2
<1> QED
  BY <1>4

\* A receive takes the first message of its type.
LEMMA FirstIs ==
  ASSUME IsList(msgq), NEW mtype, Waiting(mtype) # {}
  PROVE  /\ First(mtype) \in DOMAIN msgq /\ msgq[First(mtype)].mtype = mtype
         /\ \A i \in DOMAIN msgq : msgq[i].mtype = mtype => First(mtype) <= i
<1>1. Waiting(mtype) \in SUBSET Nat
  BY DEF IsList, Waiting
<1>2. \E n \in Waiting(mtype) : \A m \in Waiting(mtype) : n <= m
  BY <1>1, LeastNumber
<1>3. First(mtype) \in Waiting(mtype) /\ \A m \in Waiting(mtype) : First(mtype) <= m
  BY <1>2 DEF First
<1> QED
  BY <1>3 DEF Waiting

----------------------------------------------------------------------------
(* What main does when it leaves *)

\* The device that step k of Leave resets; the last message is for the output process.
Word(k) == CASE k = 4 -> "FND" [] k = 5 -> "LCD" [] k = 6 -> "DOT" [] k = 7 -> "LED"
             [] k = 8 -> "TERM"

LEMMA WordIs ==
  /\ Word(4) = "FND" /\ Word(5) = "LCD" /\ Word(6) = "DOT" /\ Word(7) = "LED" /\ Word(8) = "TERM"
  /\ \A k \in 4..7 : Word(k) \in Devices /\ Word(k) # "TERM"
  /\ \A j, k \in 4..8 : Word(j) = Word(k) => j = k
  /\ \A d \in Devices : \E k \in 4..7 : d = Word(k)
<1>1. /\ Word(4) = "FND" /\ Word(5) = "LCD" /\ Word(6) = "DOT" /\ Word(7) = "LED"
      /\ Word(8) = "TERM"
  BY DEF Word
<1>2. 4..7 = {4, 5, 6, 7} /\ 4..8 = {4, 5, 6, 7, 8}
  OBVIOUS
<1>3. \A k \in {4, 5, 6, 7} : Word(k) \in Devices /\ Word(k) # "TERM"
  BY <1>1 DEF Devices
<1>4. \A j, k \in {4, 5, 6, 7, 8} : Word(j) = Word(k) => j = k
  BY <1>1
<1>5. \A d \in Devices : \E k \in {4, 5, 6, 7} : d = Word(k)
  BY <1>1 DEF Devices
<1> QED
  BY <1>1, <1>2, <1>3, <1>4, <1>5

LEMMA Concat ==
  ASSUME NEW S, NEW p, NEW q, NEW r, p \in Seq(S), q \in Seq(S), r = p \o q
  PROVE  /\ r \in Seq(S) /\ Len(r) = Len(p) + Len(q)
         /\ \A i \in 1..(Len(p) + Len(q)) : r[i] = IF i <= Len(p) THEN p[i] ELSE q[i - Len(p)]
<1>1. r \in Seq(S) /\ Len(r) = Len(p) + Len(q)
  OBVIOUS
<1>2. \A i \in 1..(Len(p) + Len(q)) : (p \o q)[i] = IF i <= Len(p) THEN p[i] ELSE q[i - Len(p)]
  OBVIOUS
<1> QED
  BY <1>1, <1>2

LEMMA LeaveIs ==
  /\ IsList(Leave) /\ Len(Leave) = 10
  /\ Leave[1].do = "kill" /\ Leave[2].do = "assign" /\ Leave[3].do = "assign"
  /\ Leave[2].values = [armed |-> FALSE] /\ "armed" \notin DOMAIN Leave[3].values
  /\ \A k \in 4..7 : /\ Leave[k].do = "control" /\ Leave[k].dev = Word(k)
                     /\ Leave[k].op = "RESET"
  /\ Leave[8].do = "term" /\ Leave[9].do = "wait" /\ Leave[10].do = "remove"
<1>1. PICK v, w :
        /\ v = [armed |-> FALSE]
        /\ w = [alarm_flag |-> {}, sec |-> 0, prev |-> -1, numeric |-> FALSE,
                cnt |-> 0, ingame |-> FALSE, ans |-> {}, minutes |-> 0]
  OBVIOUS
<1>2. "armed" \notin DOMAIN w
  BY <1>1
<1>3. PICK a, b, c, d, e, g :
        /\ a = Assign(v) /\ b = Assign(w) /\ c = Fnd("RESET") /\ d = Lcd("RESET")
        /\ e = Dot("RESET") /\ g = Led("RESET")
  OBVIOUS
<1>4. PICK h, x, y, z :
        h = [do |-> "kill"] /\ x = [do |-> "term"] /\ y = [do |-> "wait"] /\ z = [do |-> "remove"]
  OBVIOUS
<1>5. initialize_board = <<a, b, c, d, e, g>>
  BY <1>1, <1>3 DEF initialize_board
<1>6. PICK S : /\ a \in S /\ b \in S /\ c \in S /\ d \in S /\ e \in S /\ g \in S
               /\ h \in S /\ x \in S /\ y \in S /\ z \in S
  <2>1. PICK S : S = {a, b, c, d, e, g, h, x, y, z}
    OBVIOUS
  <2> QED
    BY <2>1
<1>7. PICK k, p, q : k = <<h>> /\ p = <<a, b, c, d, e, g>> /\ q = <<x, y, z>>
  OBVIOUS
<1>8. k \in Seq(S) /\ Len(k) = 1 /\ k[1] = h
  <2>1. k \in Seq(S)
    BY <1>6, <1>7
  <2> QED
    BY <1>7, <2>1
<1>9. /\ p \in Seq(S) /\ Len(p) = 6
      /\ p[1] = a /\ p[2] = b /\ p[3] = c /\ p[4] = d /\ p[5] = e /\ p[6] = g
  <2>1. p \in Seq(S)
    BY <1>6, <1>7
  <2> QED
    BY <1>7, <2>1
<1>10. q \in Seq(S) /\ Len(q) = 3 /\ q[1] = x /\ q[2] = y /\ q[3] = z
  <2>1. q \in Seq(S)
    BY <1>6, <1>7
  <2> QED
    BY <1>7, <2>1
<1>11. Leave = (k \o p) \o q
  BY <1>4, <1>5, <1>7 DEF Leave
<1>12. PICK u, r : u = k \o p /\ r = u \o q
  OBVIOUS
<1>13. u \in Seq(S) /\ Len(u) = 7 /\ \A i \in 1..7 : u[i] = IF i <= 1 THEN k[i] ELSE p[i - 1]
  <2>1. k \in Seq(S) /\ p \in Seq(S)
    BY <1>8, <1>9
  <2>3. Len(k) = 1 /\ Len(k) + Len(p) = 7
    BY <1>8, <1>9
  <2>2. /\ u \in Seq(S) /\ Len(u) = Len(k) + Len(p)
        /\ \A i \in 1..(Len(k) + Len(p)) : u[i] = IF i <= Len(k) THEN k[i] ELSE p[i - Len(k)]
    BY <2>1, <1>12, Concat
  <2> QED
    BY <2>2, <2>3
<1>14. /\ u[1] = h /\ u[2] = a /\ u[3] = b /\ u[4] = c /\ u[5] = d /\ u[6] = e /\ u[7] = g
  BY <1>8, <1>9, <1>13
<1>15. r \in Seq(S) /\ Len(r) = 10 /\ \A i \in 1..10 : r[i] = IF i <= 7 THEN u[i] ELSE q[i - 7]
  <2>1. u \in Seq(S) /\ q \in Seq(S) /\ Len(u) = 7 /\ Len(u) + Len(q) = 10
    BY <1>10, <1>13
  <2>2. /\ r \in Seq(S) /\ Len(r) = Len(u) + Len(q)
        /\ \A i \in 1..(Len(u) + Len(q)) : r[i] = IF i <= Len(u) THEN u[i] ELSE q[i - Len(u)]
    BY <2>1, <1>12, Concat
  <2> QED
    BY <2>1, <2>2
<1>21. Leave = r
  BY <1>11, <1>12
<1>16. /\ Leave[1] = h /\ Leave[2] = a /\ Leave[3] = b /\ Leave[4] = c /\ Leave[5] = d
       /\ Leave[6] = e /\ Leave[7] = g /\ Leave[8] = x /\ Leave[9] = y /\ Leave[10] = z
  BY <1>10, <1>14, <1>15, <1>21
<1>17. /\ a.do = "assign" /\ a.values = v /\ b.do = "assign" /\ b.values = w
       /\ c.do = "control" /\ c.dev = "FND" /\ c.op = "RESET"
       /\ d.do = "control" /\ d.dev = "LCD" /\ d.op = "RESET"
       /\ e.do = "control" /\ e.dev = "DOT" /\ e.op = "RESET"
       /\ g.do = "control" /\ g.dev = "LED" /\ g.op = "RESET"
  BY <1>3 DEF Assign, Fnd, Lcd, Dot, Led
<1>18. h.do = "kill" /\ x.do = "term" /\ y.do = "wait" /\ z.do = "remove"
  BY <1>4
<1>19. \A j \in 4..7 : /\ Leave[j].do = "control" /\ Leave[j].dev = Word(j)
                       /\ Leave[j].op = "RESET"
  <2>1. 4..7 = {4, 5, 6, 7}
    OBVIOUS
  <2>2. \A j \in {4, 5, 6, 7} : /\ Leave[j].do = "control" /\ Leave[j].dev = Word(j)
                                /\ Leave[j].op = "RESET"
    BY <1>16, <1>17, WordIs
  <2> QED
    BY <2>1, <2>2
<1>20. IsList(Leave) /\ Len(Leave) = 10
  BY <1>15, <1>21 DEF IsList
<1> QED
  BY <1>1, <1>2, <1>16, <1>17, <1>18, <1>19, <1>20

\* Main has the statements of Leave from k on left to do.
LeaveFrom(list, k) ==
  /\ IsList(list) /\ Len(list) = 11 - k
  /\ \A i \in 1..(11 - k) : list[i] = Leave[k + i - 1]

LEMMA LeaveHead ==
  ASSUME NEW k \in 1..10, NEW list, LeaveFrom(list, k)
  PROVE  list # <<>> /\ Head(list) = Leave[k] /\ (k < 10 => LeaveFrom(Tail(list), k + 1))
<1>1. PICK S : list \in Seq(S)
  BY DEF LeaveFrom, IsList
<1>2. Len(list) = 11 - k /\ 1 \in 1..(11 - k) /\ (k + 1) - 1 = k
  BY DEF LeaveFrom
<1>3. list # <<>> /\ Head(list) = list[1]
  BY <1>1, <1>2
<1>4. list[1] = Leave[k]
  <2>1. list[1] = Leave[(k + 1) - 1]
    BY <1>2 DEF LeaveFrom
  <2> QED
    BY <1>2, <2>1
<1>5. ASSUME k < 10 PROVE LeaveFrom(Tail(list), k + 1)
  <2>1. PICK q : q = Tail(list)
    OBVIOUS
  <2>2. q \in Seq(S) /\ Len(q) = 11 - (k + 1)
    BY <1>1, <1>2, <1>3, <2>1
  <2>3. \A i \in 1..(11 - (k + 1)) : q[i] = list[i + 1]
    BY <1>1, <1>2, <1>3, <2>1
  <2>4. \A i \in 1..(11 - (k + 1)) : i + 1 \in 1..(11 - k) /\ k + (i + 1) - 1 = (k + 1) + i - 1
    OBVIOUS
  <2>5. \A i \in 1..(11 - (k + 1)) : q[i] = Leave[(k + 1) + i - 1]
    <3> SUFFICES ASSUME NEW i \in 1..(11 - (k + 1)) PROVE q[i] = Leave[(k + 1) + i - 1]
      OBVIOUS
    <3>1. list[i + 1] = Leave[k + (i + 1) - 1]
      BY <2>4 DEF LeaveFrom
    <3> QED
      BY <2>3, <2>4, <3>1
  <2> QED
    BY <2>1, <2>2, <2>5 DEF LeaveFrom, IsList
<1> QED
  BY <1>3, <1>4, <1>5

LEMMA LeaveStarts == LeaveFrom(Leave, 1)
<1>1. IsList(Leave) /\ Len(Leave) = 11 - 1
  BY LeaveIs
<1>2. \A i \in 1..(11 - 1) : 1 + i - 1 = i
  OBVIOUS
<1> QED
  BY <1>1, <1>2 DEF LeaveFrom

----------------------------------------------------------------------------
(* The invariant of the board *)

Fields == {"armed", "alarm_flag", "fnd_curr", "lcd_idx", "dots", "led_mask"}

BoardShape ==
  /\ mode \in 0..4 /\ Fields \subseteq DOMAIN mem /\ stage \in {"do", "copy", "send"}
  /\ Made(handling, FALSE) /\ \A i \in DOMAIN handling : handling[i].do = "control"
  /\ IsList(msgq) /\ DOMAIN shown = Devices
  /\ "msg" \in DOMAIN input /\ input.msg.mtype # 2 /\ input.msg.dtype # "TERM"

\* What main has left to do, in any mode.
TodoInOrder ==
  /\ Made(todo, mode # 0) /\ Orderly(todo, mem.alarm_flag)
  /\ mode # 0 => "MODE_1" \notin mem.alarm_flag \/ Resets(todo)

\* Main waits for messages or works on one.
Working ==
  /\ TodoInOrder /\ FndNotShared /\ NoTerm(msgq)
  /\ stage # "do" => todo # <<>> /\ Head(todo).do = "control"
  /\ stage = "send" => copy.dtype \in Devices

\* Main leaves: the alarm goes off at step 2, and then device after device is cleared.
Leaving(k) ==
  /\ LeaveFrom(todo, k)
  /\ k >= 3 => handling = <<>> /\ mem.armed = FALSE
  /\ stage = "copy" => k \in 4..7 /\ Snapshot(mem, Word(k)) = Message(2, Word(k), {})
  /\ stage = "send" => k \in 4..8 /\ copy = Message(2, Word(k), {})
  /\ k <= 8 => NoTerm(msgq)
  /\ TermLast(msgq)
  /\ msgq # Removed => \A j \in 4..7 : j < k => Clears(msgq, shown[Word(j)], Word(j))

BoardInv ==
  /\ BoardShape
  /\ Working \/ \E k \in 1..10 : Leaving(k)
  /\ BoardClearedAtEnd

----------------------------------------------------------------------------
(* What does not depend on main's state *)

\* What main shares with its handler leaves the flags and the alarm alone.
LEMMA ControlKeeps ==
  ASSUME NEW m, NEW s, NEW time, Valid(s), s.do = "control"
  PROVE  /\ DOMAIN Control(m, s, time) = DOMAIN m
         /\ Fields \subseteq DOMAIN m =>
              /\ Control(m, s, time).alarm_flag = m.alarm_flag
              /\ Control(m, s, time).armed = m.armed
<1> DEFINE Kept(x) == /\ DOMAIN x = DOMAIN m
                      /\ Fields \subseteq DOMAIN m => x.alarm_flag = m.alarm_flag /\ x.armed = m.armed
<1>1. CASE s.dev = "FND" /\ s.op \in FndOps
  <2>1. Control(m, s, time) = ControlFnd(m, s.op, time)
    BY <1>1 DEF Control
  <2>2. Kept(ChangedBase(m))
    BY DEF ChangedBase, Fields
  <2>3. Kept(ControlFnd(m, s.op, time))
    <3>1. s.op = "CHANGE_BASE" => ControlFnd(m, s.op, time) = ChangedBase(m)
      BY DEF ControlFnd
    <3>2. s.op \in FndOps \ {"CHANGE_BASE"} => Kept(ControlFnd(m, s.op, time))
      BY DEF ControlFnd, FndOps, Fields
    <3> QED
      BY <1>1, <2>2, <3>1, <3>2
  <2> QED
    BY <2>1, <2>3
<1>2. CASE s.dev = "LCD" /\ s.op \in LcdOps
  <2>1. Control(m, s, time) = ControlLcd(m, s.op)
    BY <1>2 DEF Control
  <2> QED
    BY <1>2, <2>1 DEF ControlLcd, LcdOps, Fields
<1>3. CASE s.dev = "DOT"
  <2>1. Control(m, s, time) = ControlDot(m, s.op)
    BY <1>3 DEF Control
  <2> QED
    BY <2>1 DEF ControlDot, Fields
<1>4. CASE s.dev = "LED"
  BY <1>4 DEF Control, Fields
<1> QED
  BY <1>1, <1>2, <1>3, <1>4 DEF Valid

\* A device's message after its RESET is clear.
LEMMA ResetClears ==
  ASSUME NEW m, NEW s, NEW time, Fields \subseteq DOMAIN m, s.do = "control", s.op = "RESET",
         s.dev \in Devices
  PROVE  Snapshot(Control(m, s, time), s.dev) = Message(2, s.dev, {})
<1>1. CASE s.dev = "FND"
  <2>1. Control(m, s, time) = [m EXCEPT !.fnd_curr = 0, !.fnd_base = 2]
    BY <1>1 DEF Control, ControlFnd
  <2>2. Control(m, s, time).fnd_curr = 0
    BY <2>1 DEF Fields
  <2> QED
    BY <1>1, <2>2 DEF Snapshot
<1>2. CASE s.dev = "LCD"
  <2>1. Control(m, s, time) = [m EXCEPT !.lcd_idx = 0]
    BY <1>2 DEF Control, ControlLcd
  <2>2. Control(m, s, time).lcd_idx = 0
    BY <2>1 DEF Fields
  <2> QED
    BY <1>2, <2>2 DEF Snapshot
<1>3. CASE s.dev = "DOT"
  <2>1. Control(m, s, time) = [m EXCEPT !.dot_input_mode = 0, !.dots = {}]
    BY <1>3 DEF Control, ControlDot
  <2>2. Control(m, s, time).dots = {}
    BY <2>1 DEF Fields
  <2> QED
    BY <1>3, <2>2 DEF Snapshot
<1>4. CASE s.dev = "LED"
  <2>1. Control(m, s, time) = [m EXCEPT !.led_mask = {}]
    BY <1>4 DEF Control
  <2>2. Control(m, s, time).led_mask = {}
    BY <2>1 DEF Fields
  <2> QED
    BY <1>4, <2>2 DEF Snapshot
<1> QED
  BY <1>1, <1>2, <1>3, <1>4 DEF Devices

\* The control_* call that main is at is one main knows.
LEMMA ControlKnown ==
  ASSUME BoardInv, todo # <<>>, Head(todo).do = "control"
  PROVE  Valid(Head(todo)) /\ Head(todo).dev \in Devices
<1>1. CASE Working
  <2>1. PICK mild : mild = (mode # 0)
    OBVIOUS
  <2>2. Valid(Head(todo))
    BY <1>1, <2>1, MadeTail DEF Working, TodoInOrder
  <2> QED
    BY <2>2 DEF Valid, Devices
<1>2. ASSUME NEW k \in 1..10, Leaving(k) PROVE Valid(Head(todo)) /\ Head(todo).dev \in Devices
  <2>1. Head(todo) = Leave[k]
    BY <1>2, LeaveHead DEF Leaving
  <2>2. k \in 4..7
    <3>1. k \in {1, 2, 3, 8, 9, 10} \/ k \in 4..7
      OBVIOUS
    <3> QED
      BY <2>1, <3>1, LeaveIs
  <2>3. Leave[k].do = "control" /\ Leave[k].dev = Word(k) /\ Leave[k].op = "RESET"
    BY <2>2, LeaveIs
  <2>4. Word(k) \in Devices
    BY <2>2, WordIs
  <2> QED
    BY <2>1, <2>3, <2>4 DEF Valid, Devices, FndOps, LcdOps
<1> QED
  BY <1>1, <1>2 DEF BoardInv

\* The handler's first call is one it knows; the others are left.
LEMMA HandlerHead ==
  ASSUME BoardShape, handling # <<>>
  PROVE  /\ Valid(Head(handling)) /\ Head(handling).do = "control" /\ Head(handling).dev \in Devices
         /\ Made(Tail(handling), FALSE)
         /\ \A i \in DOMAIN Tail(handling) : Tail(handling)[i].do = "control"
         /\ \A i \in DOMAIN Tail(handling) : i + 1 \in DOMAIN handling /\ Tail(handling)[i] = handling[i + 1]
<1>1. Made(handling, FALSE) /\ \A i \in DOMAIN handling : handling[i].do = "control"
  BY DEF BoardShape
<1>2. PICK n \in Nat :
        /\ n >= 1 /\ DOMAIN handling = 1..n /\ Head(handling) = handling[1]
        /\ DOMAIN Tail(handling) = 1..(n - 1) /\ Valid(Head(handling)) /\ Made(Tail(handling), FALSE)
        /\ \A i \in 1..(n - 1) : Tail(handling)[i] = handling[i + 1]
  BY <1>1, MadeTail
<1>3. 1 \in 1..n /\ \A i \in 1..(n - 1) : i + 1 \in 1..n
  BY <1>2
<1>4. Head(handling).do = "control"
  BY <1>1, <1>2, <1>3
<1>5. Head(handling).dev \in Devices
  BY <1>2, <1>4 DEF Valid, Devices
<1> QED
  BY <1>1, <1>2, <1>3, <1>4, <1>5

\* A message with a device's array.
LEMMA SnapshotIs ==
  ASSUME NEW m, NEW d
  PROVE  Snapshot(m, d).dtype = d /\ Snapshot(m, d).mtype = 2
BY DEF Snapshot, Message

----------------------------------------------------------------------------
(* The shape of the state *)

LEMMA MemKept ==
  ASSUME BoardInv, [BoardNext]_boardVars
  PROVE  Fields \subseteq DOMAIN mem'
<1>1. Fields \subseteq DOMAIN mem
  BY DEF BoardInv, BoardShape
<1>2. CASE MainAssign
  BY <1>1, <1>2 DEF MainAssign
<1>3. CASE MainControl
  <2>1. PICK time \in BoardTimes : mem' = Control(mem, Head(todo), time)
    BY <1>3 DEF MainControl
  <2>2. todo # <<>> /\ Head(todo).do = "control"
    BY <1>3 DEF MainControl, AtStatement
  <2> QED
    BY <1>1, <2>1, <2>2, ControlKnown, ControlKeeps
<1>4. CASE SigAlarm
  <2>1. PICK a \in Answers :
          mem' = [x \in DOMAIN mem |-> IF x \in DOMAIN HandlerValues(a) THEN HandlerValues(a)[x]
                                                                       ELSE mem[x]]
    BY <1>4 DEF SigAlarm
  <2> QED
    BY <1>1, <2>1
<1>5. CASE HandlerControl
  <2>1. PICK time \in BoardTimes : mem' = Control(mem, Head(handling), time)
    BY <1>5 DEF HandlerControl
  <2>2. Valid(Head(handling)) /\ Head(handling).do = "control"
    BY <1>5, HandlerHead, SMTT(30) DEF HandlerControl, BoardInv
  <2> QED
    BY <1>1, <2>1, <2>2, ControlKeeps
<1>6. CASE \/ MainReceive \/ MainJudge \/ MainCopy \/ MainSend \/ MainKill \/ MainWait \/ MainRemove
           \/ Input \/ Output \/ UNCHANGED boardVars
  BY <1>1, <1>6 DEF MainReceive, MainJudge, MainCopy, MainSend, MainKill, MainWait, MainRemove,
                    Input, InputSwitch, InputKey, InputSend, InputDies, Output, OutputStart,
                    OutputReceive, OutputFails, boardVars
<1> QED
  BY <1>2, <1>3, <1>4, <1>5, <1>6 DEF BoardNext, Main

LEMMA HandlingKept ==
  ASSUME BoardInv, [BoardNext]_boardVars
  PROVE  Made(handling', FALSE) /\ \A i \in DOMAIN handling' : handling'[i].do = "control"
<1>1. Made(handling, FALSE) /\ \A i \in DOMAIN handling : handling[i].do = "control"
  BY DEF BoardInv, BoardShape
<1>2. CASE SigAlarm
  BY <1>2, HandlerDoes DEF SigAlarm
<1>3. CASE HandlerControl
  <2>1. handling # <<>> /\ handling' = Tail(handling)
    BY <1>3 DEF HandlerControl
  <2> QED
    BY <2>1, HandlerHead DEF BoardInv
<1>4. CASE Main \/ Input \/ Output \/ UNCHANGED boardVars
  <2>1. handling' = handling
    BY <1>4 DEF Main, MainReceive, MainAssign, MainJudge, MainControl, MainCopy, MainSend, MainKill,
                MainWait, MainRemove, Input, InputSwitch, InputKey, InputSend, InputDies, Output,
                OutputStart, OutputReceive, OutputFails, boardVars
  <2> QED
    BY <1>1, <2>1
<1> QED
  BY <1>2, <1>3, <1>4 DEF BoardNext

\* The steps that change the queue: someone sends, someone receives, or main removes it.
LEMMA QueueKept ==
  ASSUME BoardInv, [BoardNext]_boardVars
  PROVE  IsList(msgq')
<1>1. IsList(msgq)
  BY DEF BoardInv, BoardShape
<1>2. CASE MainSend \/ HandlerControl \/ InputSend
  <2>1. PICK m : msgq' = Append(msgq, m)
    BY <1>2 DEF MainSend, HandlerControl, InputSend
  <2> QED
    BY <1>1, <2>1, Enqueued
<1>3. CASE MainReceive \/ OutputReceive
  <2>1. PICK mtype : Waiting(mtype) # {} /\ msgq' = RemoveAt(msgq, First(mtype))
    BY <1>3 DEF MainReceive, OutputReceive
  <2>2. First(mtype) \in DOMAIN msgq
    BY <1>1, <2>1, FirstIs
  <2> QED
    BY <1>1, <2>1, <2>2, Dequeued
<1>4. CASE MainRemove
  <2>1. PICK m : m = NoMsg /\ msgq' = <<m>>
    BY <1>4 DEF MainRemove, Removed
  <2>2. msgq' \in Seq({m})
    BY <2>1
  <2> QED
    BY <2>2 DEF IsList
<1>5. CASE \/ MainAssign \/ MainJudge \/ MainControl \/ MainCopy \/ MainKill \/ MainWait \/ SigAlarm
           \/ InputSwitch \/ InputKey \/ InputDies \/ OutputStart \/ OutputFails
           \/ UNCHANGED boardVars
  <2>1. msgq' = msgq
    BY <1>5 DEF MainAssign, MainJudge, MainControl, MainCopy, MainKill, MainWait, SigAlarm,
                InputSwitch, InputKey, InputDies, OutputStart, OutputFails, boardVars
  <2> QED
    BY <1>1, <2>1
<1> QED
  BY <1>2, <1>3, <1>4, <1>5 DEF BoardNext, Main, Input, Output

LEMMA NoMsgIs == NoMsg.mtype # 2 /\ NoMsg.dtype # "TERM"
<1>1. NoMsg.mtype = 0 /\ NoMsg.dtype = ""
  BY Zenon DEF NoMsg, Message
<1>2. "" # "TERM"
  BY Zenon
<1>3. NoMsg.dtype # "TERM"
  BY <1>1, <1>2, Zenon
<1>4. \A n : n = 0 => n # 2
  OBVIOUS
<1> QED
  BY <1>1, <1>3, <1>4, Zenon

LEMMA InputKept ==
  ASSUME BoardInv, [BoardNext]_boardVars
  PROVE  "msg" \in DOMAIN input' /\ input'.msg.mtype # 2 /\ input'.msg.dtype # "TERM"
<1>1. "msg" \in DOMAIN input /\ input.msg.mtype # 2 /\ input.msg.dtype # "TERM"
  BY DEF BoardInv, BoardShape
<1>2. CASE InputSwitch
  <2>1. PICK p \in Presses :
          input' = [input EXCEPT !.msg = Message(1, "switch", p), !.presses = @ + 1]
    BY <1>2 DEF InputSwitch
  <2> QED
    BY <1>1, <2>1 DEF Message
<1>3. CASE InputKey
  <2>1. PICK k \in EnvKeys :
          input' = [input EXCEPT !.msg = Message(1, "env", k),
                                 !.presses = IF k \in {"VOLUMEUP", "VOLUMEDOWN"} THEN 0 ELSE @]
    BY <1>3 DEF InputKey
  <2> QED
    BY <1>1, <2>1 DEF Message
<1>4. CASE InputSend \/ InputDies \/ MainKill
  BY <1>1, <1>4, NoMsgIs DEF InputSend, InputDies, MainKill
<1>5. CASE \/ MainReceive \/ MainAssign \/ MainJudge \/ MainControl \/ MainCopy \/ MainSend
           \/ MainWait \/ MainRemove \/ SigAlarm \/ HandlerControl \/ Output \/ UNCHANGED boardVars
  <2>1. input' = input
    BY <1>5 DEF MainReceive, MainAssign, MainJudge, MainControl, MainCopy, MainSend, MainWait,
                MainRemove, SigAlarm, HandlerControl, Output, OutputStart, OutputReceive,
                OutputFails, boardVars
  <2> QED
    BY <1>1, <2>1
<1> QED
  BY <1>2, <1>3, <1>4, <1>5 DEF BoardNext, Main, Input

LEMMA ShapeKept ==
  ASSUME BoardInv, [BoardNext]_boardVars
  PROVE  BoardShape'
<1>1. mode' \in 0..4
  <2>1. mode \in 0..4
    BY DEF BoardInv, BoardShape
  <2>2. CASE MainReceive
    <3>1. mode' = mode \/ mode' = (mode + 1) % 5 \/ mode' = (mode + 4) % 5
      BY <2>2 DEF MainReceive, ChangeMode
    <3> QED
      BY <2>1, <3>1
  <2>3. CASE ~MainReceive
    <3>1. mode' = mode
      BY <2>3 DEF BoardNext, Main, MainAssign, MainJudge, MainControl, MainCopy, MainSend, MainKill,
                  MainWait, MainRemove, SigAlarm, HandlerControl, Input, InputSwitch, InputKey,
                  InputSend, InputDies, Output, OutputStart, OutputReceive, OutputFails, boardVars
    <3> QED
      BY <2>1, <3>1, SMTT(30)
  <2> QED
    BY <2>2, <2>3
<1>2. stage' \in {"do", "copy", "send"}
  BY DEF BoardInv, BoardShape, BoardNext, Main, MainReceive, MainAssign, MainJudge, MainControl,
         MainCopy, MainSend, MainKill, MainWait, MainRemove, SigAlarm, HandlerControl, Input,
         InputSwitch, InputKey, InputSend, InputDies, Output, OutputStart, OutputReceive,
         OutputFails, boardVars
<1>3. DOMAIN shown' = Devices
  BY DEF BoardInv, BoardShape, BoardNext, Main, MainReceive, MainAssign, MainJudge, MainControl,
         MainCopy, MainSend, MainKill, MainWait, MainRemove, SigAlarm, HandlerControl, Input,
         InputSwitch, InputKey, InputSend, InputDies, Output, OutputStart, OutputReceive,
         OutputFails, boardVars
<1> QED
  BY <1>1, <1>2, <1>3, MemKept, HandlingKept, QueueKept, InputKept DEF BoardShape

----------------------------------------------------------------------------
(* Main waits or works *)

LEMMA DevicesNotTerm == \A d \in Devices : d # "TERM"
  BY DEF Devices

\* Main is past a statement that assigns nothing, or the handler makes it go past one.
LEMMA Dropped ==
  ASSUME TodoInOrder, todo # <<>>, Head(todo).do # "assign", mode' = mode, todo' = Tail(todo),
         mem'.alarm_flag = mem.alarm_flag
  PROVE  TodoInOrder'
<1>1. PICK mild : mild = (mode # 0)
  OBVIOUS
<1>2. Made(todo, mild) /\ Orderly(todo, mem.alarm_flag) /\ ~SetsFlags(Head(todo))
  BY <1>1 DEF TodoInOrder, SetsFlags
<1>3. Made(todo', mild)
  BY <1>2, MadeTail
<1>4. Orderly(todo', mem.alarm_flag)
  BY <1>2, OrderlyTail
<1>5. mode # 0 => "MODE_1" \notin mem.alarm_flag \/ Resets(todo')
  BY <1>2, ResetsTail DEF TodoInOrder
<1> QED
  BY <1>1, <1>3, <1>4, <1>5 DEF TodoInOrder

\* Outside the handler nothing of it is left to do.
LEMMA Rest ==
  ASSUME handling' = <<>>
  PROVE  FndNotShared'
<1>1. DOMAIN handling' = {}
  OBVIOUS
<1> QED
  BY <1>1 DEF FndNotShared

\* An alarm comes anywhere: at a statement that changes the number the flags are not hot.
LEMMA NotShared ==
  ASSUME Made(handling', FALSE),
         \A i \in DOMAIN handling' : handling'[i].dev = "FND" => Hot(mem.alarm_flag),
         NEW mild, Made(todo', mild), Orderly(todo', mem.alarm_flag)
  PROVE  FndNotShared'
<1> SUFFICES ASSUME NEW i \in DOMAIN handling', handling'[i].dev = "FND", todo' # <<>>,
                    Head(todo').do = "control", Head(todo').dev = "FND"
             PROVE  FALSE
  BY DEF FndNotShared
<1>0. PICK n \in Nat : n >= 1 /\ DOMAIN todo' = 1..n /\ Head(todo') = todo'[1]
  BY MadeTail
<1>1. 1 \in DOMAIN todo' /\ IsFnd(todo'[1])
  BY <1>0 DEF IsFnd
<1>2. Cooled(todo')
  BY DEF Orderly
<1>3. \E j \in 1..(1 - 1) : SetsFlags(todo'[j])
  BY <1>1, <1>2 DEF Cooled
<1> QED
  BY <1>3

LEMMA BoardBegins ==
  ASSUME BoardInit
  PROVE  BoardInv
<1>1. /\ mode = 0 /\ mode \in 0..4 /\ stage = "do" /\ handling = <<>> /\ msgq = <<>>
      /\ output = "start"
      /\ todo = initialize_board \o initiate_mode(0)
  BY DEF BoardInit
<1>2. Fields \subseteq DOMAIN mem
  BY DEF BoardInit, Fields
<1>3. Made(todo, mode # 0) /\ Orderly(todo, mem.alarm_flag) /\ Resets(todo)
  BY <1>1, ChangedMode
<1>4. DOMAIN handling = {} /\ DOMAIN msgq = {}
  BY <1>1
<1>5. Made(handling, FALSE)
  BY <1>1, MadeSome
<1>6. NoTerm(msgq) /\ IsList(msgq)
  BY <1>1, <1>4 DEF NoTerm, IsList
<1>7. DOMAIN shown = Devices
  BY DEF BoardInit, Devices
<1>8. "msg" \in DOMAIN input /\ input.msg = NoMsg
  BY DEF BoardInit
<1>9. BoardShape
  BY <1>1, <1>2, <1>4, <1>5, <1>6, <1>7, <1>8, NoMsgIs DEF BoardShape
<1>10. Working
  BY <1>1, <1>3, <1>4, <1>6 DEF Working, TodoInOrder, FndNotShared
<1> QED
  BY <1>1, <1>9, <1>10 DEF BoardInv, BoardClearedAtEnd

\* Main works on what it is sent, or it leaves.
LEMMA ReceiveStep ==
  ASSUME BoardInv, Working, MainReceive
  PROVE  Working' \/ Leaving(1)'
<1> DEFINE msg == msgq[First(1)]
<1>1. /\ handling = <<>> /\ todo = <<>> /\ stage = "do" /\ stage' = "do" /\ mem' = mem
      /\ handling' = <<>> /\ mode \in 0..4
  BY DEF MainReceive, MainRuns, BoardInv, BoardShape, Working
<1>2. \/ todo' = run_mode(mode, mem, msg.data) /\ mode' = mode
      \/ ChangeMode((mode + 1) % 5) \/ ChangeMode((mode + 4) % 5)
      \/ todo' = Leave /\ mode' = mode
      \/ todo' = todo /\ mode' = mode
  BY DEF MainReceive
<1> HIDE DEF msg
<1>3. mode # 0 => "MODE_1" \notin mem.alarm_flag
  <2>1. DOMAIN todo = {}
    BY <1>1
  <2> QED
    BY <2>1 DEF Working, TodoInOrder, Resets
<1>4. NoTerm(msgq')
  <2>1. Waiting(1) # {} /\ msgq' = RemoveAt(msgq, First(1)) /\ IsList(msgq) /\ NoTerm(msgq)
    BY DEF MainReceive, BoardInv, BoardShape, Working
  <2>2. First(1) \in DOMAIN msgq
    BY <2>1, FirstIs
  <2> QED
    BY <2>1, <2>2, Dequeued
<1>5. FndNotShared'
  BY <1>1, Rest
<1>6. TodoInOrder' \/ todo' = Leave
  <2>1. CASE todo' = run_mode(mode, mem, msg.data) /\ mode' = mode
    BY <1>1, <1>3, <2>1, RunMode DEF TodoInOrder
  <2>2. ASSUME NEW n \in 0..4, ChangeMode(n) PROVE TodoInOrder'
    BY <1>1, <2>2, ChangedMode DEF ChangeMode, TodoInOrder
  <2>3. (mode + 1) % 5 \in 0..4 /\ (mode + 4) % 5 \in 0..4
    BY <1>1
  <2>4. CASE todo' = todo /\ mode' = mode
    BY <1>1, <2>4 DEF Working, TodoInOrder
  <2> QED
    BY <1>2, <2>1, <2>2, <2>3, <2>4
<1>7. CASE TodoInOrder'
  BY <1>1, <1>4, <1>5, <1>7 DEF Working
<1>8. CASE todo' = Leave
  <2>1. LeaveFrom(todo', 1)
    BY <1>8, LeaveStarts
  <2>2. TermLast(msgq')
    BY <1>4 DEF NoTerm, TermLast
  <2> QED
    BY <1>1, <1>4, <2>1, <2>2 DEF Leaving
<1> QED
  BY <1>6, <1>7, <1>8

LEMMA AssignStep ==
  ASSUME BoardInv, Working, MainAssign
  PROVE  Working'
<1> DEFINE s == Head(todo)
           g == IF SetsFlags(s) THEN s.values.alarm_flag ELSE mem.alarm_flag
<1>1. /\ handling = <<>> /\ handling' = <<>> /\ todo # <<>> /\ s.do = "assign" /\ stage' = "do"
      /\ todo' = Tail(todo) /\ mode' = mode /\ msgq' = msgq
      /\ mem' = [x \in DOMAIN mem |-> IF x \in DOMAIN s.values THEN s.values[x] ELSE mem[x]]
  BY DEF MainAssign, MainRuns, AtStatement
<1>2. PICK mild : mild = (mode # 0)
  OBVIOUS
<1>3. Made(todo, mild) /\ Orderly(todo, mem.alarm_flag) /\ "alarm_flag" \in DOMAIN mem
  BY <1>2 DEF BoardInv, BoardShape, Fields, Working, TodoInOrder
<1>4. Made(todo', mild) /\ (mild => Mild(s))
  BY <1>1, <1>3, MadeTail
<1>5. mem'.alarm_flag = g
  BY <1>1, <1>3 DEF SetsFlags
<1>6. Orderly(todo', g)
  BY <1>1, <1>3, OrderlyTail
<1>7. mode # 0 => "MODE_1" \notin g \/ Resets(todo')
  <2>1. CASE SetsFlags(s)
    BY <1>2, <1>4, <2>1 DEF Mild
  <2>2. CASE ~SetsFlags(s)
    BY <1>1, <1>3, <2>2, ResetsTail DEF Working, TodoInOrder
  <2> QED
    BY <2>1, <2>2
<1> HIDE DEF s, g
<1>8. TodoInOrder'
  BY <1>1, <1>2, <1>4, <1>5, <1>6, <1>7 DEF TodoInOrder
<1> QED
  BY <1>1, <1>8, Rest DEF Working

LEMMA JudgeStep ==
  ASSUME BoardInv, Working, MainJudge
  PROVE  Working'
<1> DEFINE c == mem.ingame /\ Head(todo).sw = mem.ans
<1>1. /\ handling = <<>> /\ handling' = <<>> /\ todo # <<>> /\ Head(todo).do = "judge"
      /\ stage' = "do" /\ mode' = mode /\ mem' = mem /\ msgq' = msgq
      /\ todo' = (IF c THEN Congratulation ELSE <<>>) \o Tail(todo)
  BY DEF MainJudge, MainRuns, AtStatement
<1> HIDE DEF c
<1>2. PICK mild, p, q :
        /\ mild = (mode # 0) /\ p = (IF c THEN Congratulation ELSE <<>>) /\ q = Tail(todo)
        /\ todo' = p \o q
  BY <1>1
<1>3. Made(todo, mild) /\ Orderly(todo, mem.alarm_flag) /\ ~SetsFlags(Head(todo))
  BY <1>1, <1>2 DEF Working, TodoInOrder, SetsFlags
<1>4. Made(q, mild) /\ Orderly(q, mem.alarm_flag)
  BY <1>1, <1>2, <1>3, MadeTail, OrderlyTail
<1>5. Made(p, mild)
  BY <1>2, Congratulated, MadeSome
<1>6. \A i \in DOMAIN p : ~IsFnd(p[i]) /\ ~SetsFlags(p[i])
  <2>1. CASE c
    BY <1>2, <2>1, Congratulated
  <2>2. CASE ~c
    <3>1. DOMAIN p = {}
      BY <1>2, <2>2
    <3> QED
      BY <3>1
  <2> QED
    BY <2>1, <2>2
<1>7. Orderly(p, mem.alarm_flag) /\ \A i \in DOMAIN p : ~SetsHot(p[i])
  BY <1>6, NoFndOrderly DEF SetsHot
<1>8. Ordered(q)
  BY <1>4 DEF Orderly
<1>9. Made(p \o q, mild) /\ Orderly(p \o q, mem.alarm_flag)
  BY <1>4, <1>5, <1>7, <1>8, MadeJoin, OrderlyJoin
<1>10. mode # 0 => "MODE_1" \notin mem.alarm_flag \/ Resets(p \o q)
  <2>1. Resets(todo) => Resets(q)
    BY <1>1, <1>2, <1>3, ResetsTail
  <2>2. Resets(q) => Resets(p \o q)
    BY <1>4, <1>5, ResetsJoin
  <2> QED
    BY <2>1, <2>2 DEF Working, TodoInOrder
<1>11. TodoInOrder'
  BY <1>1, <1>2, <1>9, <1>10 DEF TodoInOrder
<1> QED
  BY <1>1, <1>11, Rest DEF Working

LEMMA ControlStep ==
  ASSUME BoardInv, Working, MainControl
  PROVE  Working'
<1>1. PICK time \in BoardTimes : mem' = Control(mem, Head(todo), time)
  BY DEF MainControl
<1>2. /\ handling = <<>> /\ handling' = <<>> /\ todo # <<>> /\ Head(todo).do = "control"
      /\ todo' = todo /\ mode' = mode /\ msgq' = msgq /\ stage' = "copy"
  BY DEF MainControl, MainRuns, AtStatement
<1>3. mem'.alarm_flag = mem.alarm_flag
  BY <1>1, <1>2, ControlKnown, ControlKeeps DEF BoardInv, BoardShape
<1>4. TodoInOrder'
  BY <1>2, <1>3 DEF Working, TodoInOrder
<1> QED
  BY <1>2, <1>4, Rest DEF Working

LEMMA CopyStep ==
  ASSUME BoardInv, Working, MainCopy
  PROVE  Working'
<1>1. /\ handling' = <<>> /\ todo' = todo /\ mode' = mode /\ mem' = mem /\ msgq' = msgq
      /\ stage' = "send"
  BY DEF MainCopy, MainRuns
<1>2. todo # <<>> /\ Valid(Head(todo))
  <2>1. todo # <<>>
    BY DEF MainCopy, AtStatement, Working
  <2>2. PICK mild : Made(todo, mild)
    BY DEF Working, TodoInOrder
  <2> QED
    BY <2>1, <2>2, MadeTail
<1>3. stage = "copy" /\ copy' = Snapshot(mem, Head(todo).dev)
  BY <1>2 DEF MainCopy, AtStatement, Valid
<1>4. Head(todo).do = "control" /\ copy'.dtype \in Devices
  BY <1>2, <1>3, ControlKnown, SnapshotIs DEF Working
<1>5. TodoInOrder'
  BY <1>1 DEF Working, TodoInOrder
<1> QED
  BY <1>1, <1>2, <1>4, <1>5, Rest DEF Working

LEMMA SendStep ==
  ASSUME BoardInv, Working, MainSend
  PROVE  Working'
<1>1. /\ handling' = <<>> /\ todo' = Tail(todo) /\ mode' = mode /\ mem' = mem
      /\ msgq' = Append(msgq, copy) /\ stage' = "do" /\ stage = "send"
  BY DEF MainSend, MainRuns
<1>2. todo # <<>> /\ Head(todo).do = "control" /\ copy.dtype \in Devices
  BY <1>1 DEF Working
<1>3. TodoInOrder'
  <2>1. TodoInOrder /\ Head(todo).do # "assign" /\ mem'.alarm_flag = mem.alarm_flag
    BY <1>1, <1>2 DEF Working
  <2> QED
    BY <1>1, <1>2, <2>1, Dropped
<1>4. NoTerm(msgq')
  BY <1>1, <1>2, DevicesNotTerm, Enqueued DEF Working, BoardInv, BoardShape
<1> QED
  BY <1>1, <1>3, <1>4, Rest DEF Working

\* What main does only when it leaves.
LEMMA NotLeaving ==
  ASSUME BoardInv, Working
  PROVE  ~MainKill /\ ~MainWait /\ ~MainRemove
<1>1. ASSUME todo # <<>> PROVE Head(todo).do \in {"control", "assign", "judge"}
  <2>1. PICK mild : Made(todo, mild)
    BY DEF Working, TodoInOrder
  <2> QED
    BY <1>1, <2>1, MadeTail DEF Valid
<1> QED
  BY <1>1 DEF MainKill, MainWait, MainRemove, AtStatement

LEMMA AlarmStep ==
  ASSUME BoardInv, Working, SigAlarm
  PROVE  Working'
<1>1. handling' = HandlerOps /\ mode' = mode /\ msgq' = msgq
  BY DEF SigAlarm
<1>2. mem'.alarm_flag = mem.alarm_flag
  <2>1. PICK a \in Answers :
          mem' = [x \in DOMAIN mem |-> IF x \in DOMAIN HandlerValues(a) THEN HandlerValues(a)[x]
                                                                       ELSE mem[x]]
    BY DEF SigAlarm
  <2> QED
    BY <2>1, HandlerKeepsFlags DEF BoardInv, BoardShape, Fields
<1>3. Made(handling', FALSE)
      /\ \A i \in DOMAIN handling' : handling'[i].dev = "FND" => Hot(mem.alarm_flag)
  BY <1>1, HandlerDoes
<1>4. /\ TodoInOrder'
      /\ stage' # "do" => todo' # <<>> /\ Head(todo').do = "control"
      /\ stage' = "send" => copy'.dtype \in Devices
  <2>1. CASE UNCHANGED <<todo, stage, copy>>
    BY <1>1, <1>2, <2>1 DEF Working, TodoInOrder
  <2>2. CASE stage = "send" /\ todo' = Tail(todo) /\ stage' = "do"
    BY <1>1, <1>2, <2>2, Dropped DEF Working
  <2> QED
    BY <2>1, <2>2 DEF SigAlarm
<1>5. FndNotShared'
  <2>1. Made(todo', mode' # 0) /\ Orderly(todo', mem.alarm_flag)
    BY <1>2, <1>4 DEF TodoInOrder
  <2> QED
    BY <1>3, <2>1, NotShared
<1> QED
  BY <1>1, <1>4, <1>5 DEF Working

LEMMA HandlerStep ==
  ASSUME BoardInv, Working, HandlerControl
  PROVE  Working'
<1> DEFINE s == Head(handling)
<1>1. /\ handling # <<>> /\ handling' = Tail(handling) /\ todo' = todo /\ stage' = stage
      /\ mode' = mode /\ copy' = copy
  BY DEF HandlerControl
<1>2. PICK time \in BoardTimes :
        mem' = Control(mem, s, time) /\ msgq' = Append(msgq, Snapshot(Control(mem, s, time), s.dev))
  BY DEF HandlerControl
<1>3. /\ Valid(s) /\ s.do = "control" /\ s.dev \in Devices
      /\ \A i \in DOMAIN handling' : i + 1 \in DOMAIN handling /\ handling'[i] = handling[i + 1]
  BY <1>1, HandlerHead DEF BoardInv
<1>4. mem'.alarm_flag = mem.alarm_flag
  BY <1>2, <1>3, ControlKeeps DEF BoardInv, BoardShape
<1>5. TodoInOrder'
  BY <1>1, <1>4 DEF Working, TodoInOrder
<1>6. FndNotShared'
  BY <1>1, <1>3 DEF Working, FndNotShared
<1>7. NoTerm(msgq')
  <2>1. PICK m : m = Snapshot(Control(mem, s, time), s.dev) /\ msgq' = Append(msgq, m)
    BY <1>2
  <2>2. m.dtype # "TERM"
    BY <1>3, <2>1, SnapshotIs, DevicesNotTerm
  <2> QED
    BY <2>1, <2>2, Enqueued DEF Working, BoardInv, BoardShape
<1> QED
  BY <1>1, <1>5, <1>6, <1>7 DEF Working

\* The other two processes.
LEMMA OthersStep ==
  ASSUME BoardInv, Working, Input \/ Output
  PROVE  Working'
<1>1. UNCHANGED <<mode, todo, stage, copy, handling, mem>>
  BY DEF Input, InputSwitch, InputKey, InputSend, InputDies, Output, OutputStart, OutputReceive,
         OutputFails
<1>2. NoTerm(msgq')
  <2>1. CASE InputSend
    BY <2>1, Enqueued DEF InputSend, Working, BoardInv, BoardShape
  <2>2. CASE OutputReceive
    <3>1. Waiting(2) # {} /\ msgq' = RemoveAt(msgq, First(2)) /\ IsList(msgq) /\ NoTerm(msgq)
      BY <2>2 DEF OutputReceive, BoardInv, BoardShape, Working
    <3>2. First(2) \in DOMAIN msgq
      BY <3>1, FirstIs
    <3> QED
      BY <3>1, <3>2, Dequeued
  <2>3. CASE ~InputSend /\ ~OutputReceive
    <3>1. msgq' = msgq
      BY <2>3 DEF Input, InputSwitch, InputKey, InputDies, Output, OutputStart, OutputFails
    <3> QED
      BY <3>1 DEF Working
  <2> QED
    BY <2>1, <2>2, <2>3
<1> QED
  BY <1>1, <1>2 DEF Working, TodoInOrder, FndNotShared

----------------------------------------------------------------------------
(* Main leaves *)

LEMMA LeaveDo ==
  ASSUME NEW k \in 1..10
  PROVE  /\ Leave[k].do = "kill" => k = 1
         /\ Leave[k].do = "assign" => k \in {2, 3}
         /\ Leave[k].do = "control" => k \in 4..7
         /\ Leave[k].do = "term" => k = 8
         /\ Leave[k].do = "wait" => k = 9
         /\ Leave[k].do # "judge"
<1>1. k = 1 \/ k = 2 \/ k = 3 \/ k \in 4..7 \/ k = 8 \/ k = 9 \/ k = 10
  OBVIOUS
<1> QED
  BY <1>1, LeaveIs

LEMMA LeavingHead ==
  ASSUME NEW k \in 1..10, Leaving(k)
  PROVE  /\ todo # <<>> /\ Head(todo) = Leave[k] /\ (k < 10 => LeaveFrom(Tail(todo), k + 1))
         /\ ~MainReceive /\ ~MainJudge
         /\ handling # <<>> => k \in {1, 2}
         /\ mem.armed # FALSE => k \in {1, 2}
<1>1. todo # <<>> /\ Head(todo) = Leave[k] /\ (k < 10 => LeaveFrom(Tail(todo), k + 1))
  BY LeaveHead DEF Leaving
<1>2. ~MainReceive /\ ~MainJudge
  BY <1>1, LeaveDo DEF MainReceive, MainJudge, AtStatement
<1>3. k \in {1, 2} \/ k >= 3
  OBVIOUS
<1> QED
  BY <1>1, <1>2, <1>3 DEF Leaving

LEMMA LeavingKill ==
  ASSUME BoardInv, NEW k \in 1..10, Leaving(k), MainKill
  PROVE  k = 1 /\ Leaving(2)'
<1>1. k = 1
  BY LeavingHead, LeaveDo DEF MainKill, AtStatement
<1>2. /\ todo' = Tail(todo) /\ stage = "do"
      /\ UNCHANGED <<msgq, output, shown, mode, stage, copy, handling, mem>>
  BY DEF MainKill, AtStatement
<1>3. LeaveFrom(todo', 2)
  <2>1. LeaveFrom(Tail(todo), k + 1) /\ k + 1 = 2
    BY <1>1, LeavingHead
  <2> QED
    BY <1>2, <2>1
<1>4. NoTerm(msgq) /\ TermLast(msgq)
  BY <1>1 DEF Leaving
<1> QED
  BY <1>1, <1>2, <1>3, <1>4 DEF Leaving

\* The alarm is turned off, and nothing of the handler is left to do then or later.
LEMMA LeavingAssign ==
  ASSUME BoardInv, NEW k \in 1..10, Leaving(k), MainAssign
  PROVE  k \in {2, 3} /\ Leaving(k + 1)'
<1>1. k \in {2, 3}
  BY LeavingHead, LeaveDo DEF MainAssign, AtStatement
<1>2. /\ todo' = Tail(todo) /\ stage = "do" /\ handling = <<>> /\ handling' = <<>>
      /\ UNCHANGED <<msgq, output, shown, mode, stage, copy>>
      /\ mem' = [x \in DOMAIN mem |-> IF x \in DOMAIN Head(todo).values THEN Head(todo).values[x]
                                                                        ELSE mem[x]]
  BY DEF MainAssign, AtStatement, MainRuns
<1>3. LeaveFrom(todo', k + 1)
  <2>1. k < 10
    BY <1>1
  <2>2. LeaveFrom(Tail(todo), k + 1)
    BY <2>1, LeavingHead
  <2> QED
    BY <1>2, <2>2
<1>4. NoTerm(msgq) /\ TermLast(msgq)
  BY <1>1 DEF Leaving
<1>5. mem'.armed = FALSE
  <2>1. "armed" \in DOMAIN mem /\ Head(todo) = Leave[k]
    BY LeavingHead DEF BoardInv, BoardShape, Fields
  <2>2. CASE k = 2
    <3>1. PICK v : v = Head(todo).values /\ v = [armed |-> FALSE]
      BY <2>1, <2>2, LeaveIs
    <3>2. "armed" \in DOMAIN v /\ v["armed"] = FALSE
      BY <3>1
    <3> QED
      BY <1>2, <2>1, <3>1, <3>2
  <2>3. CASE k = 3
    <3>1. PICK v : v = Head(todo).values /\ "armed" \notin DOMAIN v
      BY <2>1, <2>3, LeaveIs
    <3>2. mem.armed = FALSE
      BY <2>3 DEF Leaving
    <3> QED
      BY <1>2, <2>1, <3>1, <3>2
  <2> QED
    BY <1>1, <2>2, <2>3
<1>6. \A j \in 4..7 : ~(j < k + 1)
  BY <1>1
<1> QED
  BY <1>1, <1>2, <1>3, <1>4, <1>5, <1>6 DEF Leaving

LEMMA LeavingControl ==
  ASSUME BoardInv, NEW k \in 1..10, Leaving(k), MainControl
  PROVE  Leaving(k)'
<1>1. PICK time \in BoardTimes : mem' = Control(mem, Head(todo), time)
  BY DEF MainControl
<1>2. /\ handling = <<>> /\ handling' = <<>> /\ stage' = "copy" /\ Head(todo).do = "control"
      /\ UNCHANGED <<msgq, shown, todo, copy>>
  BY DEF MainControl, MainRuns, AtStatement
<1>3. k \in 4..7 /\ todo # <<>> /\ Head(todo) = Leave[k]
  BY <1>2, LeavingHead, LeaveDo
<1>4. Head(todo).dev = Word(k) /\ Head(todo).op = "RESET" /\ Word(k) \in Devices
  BY <1>3, LeaveIs, WordIs
<1>5. Snapshot(mem', Word(k)) = Message(2, Word(k), {})
  BY <1>1, <1>2, <1>4, ResetClears DEF BoardInv, BoardShape
<1>6. mem'.armed = mem.armed
  BY <1>1, <1>2, <1>3, ControlKnown, ControlKeeps DEF BoardInv, BoardShape
<1>7. mem.armed = FALSE /\ NoTerm(msgq) /\ TermLast(msgq)
  BY <1>3 DEF Leaving
<1> QED
  BY <1>2, <1>3, <1>5, <1>6, <1>7 DEF Leaving

LEMMA LeavingCopy ==
  ASSUME BoardInv, NEW k \in 1..10, Leaving(k), MainCopy
  PROVE  Leaving(k)'
<1>1. /\ handling = <<>> /\ handling' = <<>> /\ stage' = "send"
      /\ UNCHANGED <<msgq, shown, todo, mem>>
  BY DEF MainCopy, MainRuns
<1>2. k \in 4..8 /\ copy' = Message(2, Word(k), {})
  <2>1. CASE stage = "copy" /\ copy' = Snapshot(mem, Head(todo).dev)
    <3>1. k \in 4..7 /\ Snapshot(mem, Word(k)) = Message(2, Word(k), {})
      BY <2>1 DEF Leaving
    <3>2. Head(todo).dev = Word(k)
      BY <3>1, LeavingHead, LeaveIs
    <3> QED
      BY <2>1, <3>1, <3>2
  <2>2. CASE AtStatement("term") /\ copy' = Message(2, "TERM", {})
    <3>1. k = 8
      BY <2>2, LeavingHead, LeaveDo DEF AtStatement
    <3> QED
      BY <2>2, <3>1, WordIs
  <2> QED
    BY <2>1, <2>2 DEF MainCopy
<1> QED
  BY <1>1, <1>2 DEF Leaving

LEMMA LeavingSend ==
  ASSUME BoardInv, NEW k \in 1..10, Leaving(k), MainSend
  PROVE  k \in 4..8 /\ Leaving(k + 1)'
<1>1. /\ handling = <<>> /\ handling' = <<>> /\ stage' = "do" /\ todo' = Tail(todo)
      /\ msgq # Removed /\ msgq' = Append(msgq, copy) /\ stage = "send"
      /\ UNCHANGED <<shown, mem>>
  BY DEF MainSend, MainRuns, Room
<1>2. k \in 4..8 /\ copy = Message(2, Word(k), {})
  BY <1>1 DEF Leaving
<1>3. copy.mtype = 2 /\ copy.dtype = Word(k) /\ copy.data = {}
  BY <1>2 DEF Message
<1>4. IsList(msgq) /\ NoTerm(msgq) /\ mem.armed = FALSE
  BY <1>2 DEF BoardInv, BoardShape, Leaving
<1>5. LeaveFrom(todo', k + 1)
  <2>1. k < 10
    BY <1>2
  <2>2. LeaveFrom(Tail(todo), k + 1)
    BY <2>1, LeavingHead
  <2> QED
    BY <1>1, <2>2
<1>6. TermLast(msgq')
  BY <1>1, <1>4, Enqueued
<1>7. k + 1 <= 8 => NoTerm(msgq')
  <2> HAVE k + 1 <= 8
  <2>1. k \in 4..7
    BY <1>2
  <2>2. copy.dtype # "TERM"
    BY <1>3, <2>1, WordIs
  <2> QED
    BY <1>1, <1>4, <2>2, Enqueued
<1>8. ASSUME NEW j \in 4..7, j < k + 1 PROVE Clears(msgq', shown'[Word(j)], Word(j))
  <2>1. CASE j = k
    <3>1. IsFor(copy, Word(j)) /\ copy.data = {}
      BY <1>3, <2>1 DEF IsFor
    <3> QED
      BY <1>1, <1>4, <3>1, Enqueued
  <2>2. CASE j # k
    <3>1. j < k
      BY <1>2, <1>8, <2>2
    <3>2. Word(j) # Word(k)
      BY <1>2, <2>2, WordIs
    <3>3. ~IsFor(copy, Word(j))
      BY <1>3, <3>2 DEF IsFor
    <3>4. Clears(msgq, shown[Word(j)], Word(j))
      BY <1>1, <3>1 DEF Leaving
    <3> QED
      BY <1>1, <1>4, <3>3, <3>4, Enqueued
  <2> QED
    BY <2>1, <2>2
<1> QED
  BY <1>1, <1>2, <1>4, <1>5, <1>6, <1>7, <1>8 DEF Leaving

LEMMA LeavingWait ==
  ASSUME BoardInv, NEW k \in 1..10, Leaving(k), MainWait
  PROVE  k = 9 /\ Leaving(10)'
<1>1. k = 9
  BY LeavingHead, LeaveDo DEF MainWait, AtStatement
<1>2. /\ todo' = Tail(todo) /\ stage = "do"
      /\ UNCHANGED <<msgq, shown, stage, handling, mem>>
  BY DEF MainWait, AtStatement
<1>3. LeaveFrom(todo', 10)
  <2>1. LeaveFrom(Tail(todo), k + 1) /\ k + 1 = 10
    BY <1>1, LeavingHead
  <2> QED
    BY <1>2, <2>1
<1>4. \A j \in 4..7 : j < 9
  OBVIOUS
<1> QED
  BY <1>1, <1>2, <1>3, <1>4 DEF Leaving

LEMMA LeavingRemove ==
  ASSUME BoardInv, NEW k \in 1..10, Leaving(k), MainRemove
  PROVE  Leaving(k)'
<1>1. msgq' = Removed /\ UNCHANGED <<shown, todo, stage, copy, handling, mem>>
  BY DEF MainRemove
<1>2. NoTerm(Removed) /\ TermLast(Removed)
  <2>1. PICK m : m = NoMsg /\ Removed = <<m>>
    BY DEF Removed
  <2>2. m.dtype # "TERM"
    BY <2>1, NoMsgIs
  <2>3. DOMAIN <<m>> = {1} /\ <<m>>[1] = m
    OBVIOUS
  <2> QED
    BY <2>1, <2>2, <2>3 DEF NoTerm, TermLast
<1> QED
  BY <1>1, <1>2 DEF Leaving

\* The handler still runs as long as the alarm is not off.
LEMMA LeavingAlarm ==
  ASSUME BoardInv, NEW k \in 1..10, Leaving(k), SigAlarm
  PROVE  Leaving(k)'
<1>1. k \in {1, 2}
  BY LeavingHead DEF SigAlarm
<1>2. stage = "do"
  BY <1>1 DEF Leaving, BoardInv, BoardShape
<1>3. UNCHANGED <<msgq, shown, todo, stage, copy>>
  BY <1>2 DEF SigAlarm
<1> QED
  BY <1>1, <1>2, <1>3 DEF Leaving

LEMMA LeavingHandler ==
  ASSUME BoardInv, NEW k \in 1..10, Leaving(k), HandlerControl
  PROVE  Leaving(k)'
<1>1. k \in {1, 2}
  BY LeavingHead DEF HandlerControl
<1>2. stage = "do" /\ NoTerm(msgq)
  BY <1>1 DEF Leaving, BoardInv, BoardShape
<1>3. UNCHANGED <<shown, todo, stage, copy>>
  BY DEF HandlerControl
<1>4. PICK m, d : msgq' = Append(msgq, Snapshot(m, d)) /\ d = Head(handling).dev
  BY DEF HandlerControl
<1>5. NoTerm(msgq') /\ TermLast(msgq')
  <2>1. PICK x : x = Snapshot(m, d)
    OBVIOUS
  <2>2. x.dtype # "TERM"
    BY <1>4, <2>1, SnapshotIs, HandlerHead, DevicesNotTerm DEF HandlerControl, BoardInv
  <2> QED
    BY <1>2, <1>4, <2>1, <2>2, Enqueued DEF BoardInv, BoardShape
<1>6. \A j \in 4..7 : ~(j < k)
  BY <1>1
<1> QED
  BY <1>1, <1>2, <1>3, <1>5, <1>6 DEF Leaving

LEMMA LeavingInput ==
  ASSUME BoardInv, NEW k \in 1..10, Leaving(k), Input
  PROVE  Leaving(k)'
<1>1. UNCHANGED <<shown, todo, stage, copy, handling, mem>>
  BY DEF Input, InputSwitch, InputKey, InputSend, InputDies
<1>2. CASE InputSend
  <2>1. /\ msgq # Removed /\ msgq' = Append(msgq, input.msg) /\ IsList(msgq)
        /\ input.msg.mtype # 2 /\ input.msg.dtype # "TERM"
    BY <1>2 DEF InputSend, Room, BoardInv, BoardShape
  <2>2. TermLast(msgq') /\ (k <= 8 => NoTerm(msgq'))
    BY <2>1, Enqueued DEF Leaving
  <2>3. ASSUME NEW j \in 4..7, j < k PROVE Clears(msgq', shown'[Word(j)], Word(j))
    <3>1. Clears(msgq, shown[Word(j)], Word(j))
      BY <2>1, <2>3 DEF Leaving
    <3>2. ~IsFor(input.msg, Word(j))
      BY <2>1 DEF IsFor
    <3> QED
      BY <1>1, <2>1, <3>1, <3>2, Enqueued
  <2> QED
    BY <1>1, <2>2, <2>3 DEF Leaving
<1>3. CASE ~InputSend
  <2>1. msgq' = msgq
    BY <1>3 DEF Input, InputSwitch, InputKey, InputDies
  <2> QED
    BY <1>1, <2>1 DEF Leaving
<1> QED
  BY <1>2, <1>3

\* The output process shows the first message for it; the devices that main has cleared will be.
LEMMA LeavingOutput ==
  ASSUME BoardInv, NEW k \in 1..10, Leaving(k), Output
  PROVE  Leaving(k)' /\ BoardClearedAtEnd'
<1>1. UNCHANGED <<todo, stage, copy, handling, mem>>
  BY DEF Output, OutputStart, OutputReceive, OutputFails
<1>2. CASE OutputReceive
  <2>1. PICK r : r = First(2)
    OBVIOUS
  <2>2. /\ Waiting(2) # {} /\ msgq' = RemoveAt(msgq, r) /\ output = "run"
        /\ IF msgq[r].dtype = "TERM"
           THEN output' = "ended" /\ UNCHANGED shown
           ELSE shown' = [shown EXCEPT ![msgq[r].dtype] = msgq[r].data] /\ UNCHANGED output
    BY <1>2, <2>1 DEF OutputReceive
  <2>3. IsList(msgq) /\ DOMAIN shown = Devices
    BY DEF BoardInv, BoardShape
  <2>4. /\ r \in DOMAIN msgq /\ msgq[r].mtype = 2
        /\ \A i \in DOMAIN msgq : msgq[i].mtype = 2 => r <= i
    BY <2>1, <2>2, <2>3, FirstIs
  <2>5. msgq # Removed
    <3>1. PICK m : m = NoMsg /\ Removed = <<m>>
      BY DEF Removed
    <3>2. m.mtype # 2
      BY <3>1, NoMsgIs
    <3>3. \A i \in DOMAIN <<m>> : <<m>>[i] = m
      OBVIOUS
    <3> QED
      BY <2>4, <3>1, <3>2, <3>3
  <2>6. TermLast(msgq') /\ (k <= 8 => NoTerm(msgq'))
    BY <2>2, <2>3, <2>4, Dequeued DEF Leaving
  <2>7. ASSUME NEW j \in 4..7, j < k PROVE Clears(msgq', shown'[Word(j)], Word(j))
    <3>1. Clears(msgq, shown[Word(j)], Word(j))
      BY <2>5, <2>7 DEF Leaving
    <3>2. Clears(msgq', IF msgq[r].dtype = Word(j) THEN msgq[r].data ELSE shown[Word(j)], Word(j))
      BY <2>2, <2>3, <2>4, <3>1, Dequeued
    <3>3. Word(j) \in Devices /\ Word(j) # "TERM"
      BY WordIs
    <3>4. shown'[Word(j)] = IF msgq[r].dtype = Word(j) THEN msgq[r].data ELSE shown[Word(j)]
      BY <2>2, <2>3, <3>3
    <3> QED
      BY <3>2, <3>4
  <2>8. Leaving(k)'
    BY <1>1, <2>6, <2>7 DEF Leaving
  <2>9. ASSUME msgq[r].dtype = "TERM", NEW d \in Devices PROVE shown'[d] = {}
    <3>1. k >= 9
      <4>1. ~NoTerm(msgq)
        BY <2>4, <2>9 DEF NoTerm
      <4> QED
        BY <4>1 DEF Leaving
    <3>2. PICK j \in 4..7 : d = Word(j)
      BY WordIs
    <3>3. Clears(msgq, shown[d], d)
      BY <2>5, <3>1, <3>2 DEF Leaving
    <3>4. \A i \in DOMAIN msgq : r < i => msgq[i].mtype # 2
      BY <2>4, <2>9 DEF Leaving, TermLast
    <3>5. DOMAIN msgq \subseteq Nat
      BY <2>3 DEF IsList
    <3>6. \A i \in DOMAIN msgq : ~IsFor(msgq[i], d)
      <4> SUFFICES ASSUME NEW i \in DOMAIN msgq, IsFor(msgq[i], d) PROVE FALSE
        OBVIOUS
      <4>1. r <= i /\ ~(r < i)
        BY <2>4, <3>4 DEF IsFor
      <4>2. i = r
        BY <2>4, <3>5, <4>1
      <4> QED
        BY <2>9, <3>2, <4>2, WordIs DEF IsFor
    <3>7. shown[d] = {}
      BY <3>3, <3>6 DEF Clears
    <3> QED
      BY <2>2, <2>9, <3>7
  <2>10. BoardClearedAtEnd'
    <3>1. CASE msgq[r].dtype = "TERM"
      BY <2>2, <2>3, <2>9, <3>1 DEF BoardClearedAtEnd
    <3>2. CASE msgq[r].dtype # "TERM"
      BY <2>2, <3>2 DEF BoardClearedAtEnd
    <3> QED
      BY <3>1, <3>2
  <2> QED
    BY <2>8, <2>10
<1>3. CASE OutputStart \/ OutputFails
  <2>1. UNCHANGED <<msgq, shown>> /\ output' # "ended"
    BY <1>3 DEF OutputStart, OutputFails
  <2> QED
    BY <1>1, <2>1 DEF Leaving, BoardClearedAtEnd
<1> QED
  BY <1>2, <1>3 DEF Output

----------------------------------------------------------------------------

\* While main works no message ends the output process.
LEMMA ClearedKept ==
  ASSUME BoardInv, [BoardNext]_boardVars
  PROVE  BoardClearedAtEnd'
<1>1. BoardClearedAtEnd
  BY DEF BoardInv
<1>2. CASE Output
  <2>1. ASSUME NEW k \in 1..10, Leaving(k) PROVE BoardClearedAtEnd'
    BY <1>2, <2>1, LeavingOutput
  <2>2. CASE Working
    <3>1. CASE OutputReceive
      <4>1. Waiting(2) # {} /\ NoTerm(msgq) /\ IsList(msgq)
        BY <2>2, <3>1 DEF OutputReceive, Working, BoardInv, BoardShape
      <4>2. msgq[First(2)].dtype # "TERM"
        BY <4>1, FirstIs DEF NoTerm
      <4> QED
        BY <3>1, <4>2 DEF OutputReceive, BoardClearedAtEnd
    <3>2. CASE OutputStart \/ OutputFails
      BY <3>2 DEF OutputStart, OutputFails, BoardClearedAtEnd
    <3> QED
      BY <1>2, <3>1, <3>2 DEF Output
  <2> QED
    BY <2>1, <2>2 DEF BoardInv
<1>3. CASE ~Output
  <2>1. UNCHANGED <<output, shown>>
    BY <1>3 DEF BoardNext, Main, MainReceive, MainAssign, MainJudge, MainControl, MainCopy,
                MainSend, MainKill, MainWait, MainRemove, SigAlarm, HandlerControl, Input,
                InputSwitch, InputKey, InputSend, InputDies, boardVars
  <2> QED
    BY <1>1, <2>1, SMTT(30) DEF BoardClearedAtEnd
<1> QED
  BY <1>2, <1>3

LEMMA BoardStep ==
  ASSUME BoardInv, [BoardNext]_boardVars
  PROVE  BoardInv'
<1>1. CASE Working
  <2>1. ASSUME Main PROVE Working' \/ Leaving(1)'
    BY <1>1, <2>1, ReceiveStep, AssignStep, JudgeStep, ControlStep, CopyStep, SendStep, NotLeaving
       DEF Main
  <2>2. ASSUME SigAlarm \/ HandlerControl \/ Input \/ Output PROVE Working'
    BY <1>1, <2>2, AlarmStep, HandlerStep, OthersStep
  <2>3. ASSUME UNCHANGED boardVars PROVE Working'
    BY <1>1, <2>3 DEF Working, TodoInOrder, FndNotShared, boardVars
  <2>4. 1 \in 1..10
    OBVIOUS
  <2>5. Working' \/ \E k \in 1..10 : Leaving(k)'
    BY <2>1, <2>2, <2>3, <2>4 DEF BoardNext
  <2> QED
    BY <2>5, ShapeKept, ClearedKept DEF BoardInv
<1>2. ASSUME NEW k \in 1..10, Leaving(k) PROVE BoardInv'
  <2>1. CASE Main
    <3>1. ~MainReceive /\ ~MainJudge
      BY <1>2, LeavingHead
    <3>2. CASE MainKill \/ MainAssign \/ MainSend \/ MainWait
      <4>1. 2 \in 1..10 /\ 10 \in 1..10 /\ (k \in {2, 3} \/ k \in 4..8 => k + 1 \in 1..10)
        OBVIOUS
      <4> QED
        BY <1>2, <3>2, <4>1, LeavingKill, LeavingAssign, LeavingSend, LeavingWait,
           ShapeKept, ClearedKept DEF BoardInv
    <3>3. CASE MainControl \/ MainCopy \/ MainRemove
      <4>1. Leaving(k)'
        BY <1>2, <3>3, LeavingControl, LeavingCopy, LeavingRemove
      <4> QED
        BY <4>1, ShapeKept, ClearedKept DEF BoardInv
    <3> QED
      BY <2>1, <3>1, <3>2, <3>3 DEF Main
  <2>2. CASE SigAlarm \/ HandlerControl \/ Input \/ Output
    <3>1. Leaving(k)'
      BY <1>2, <2>2, LeavingAlarm, LeavingHandler, LeavingInput, LeavingOutput
    <3> QED
      BY <3>1, ShapeKept, ClearedKept DEF BoardInv
  <2>3. CASE UNCHANGED boardVars
    <3>1. Leaving(k)'
      BY <1>2, <2>3 DEF Leaving, boardVars
    <3> QED
      BY <3>1, ShapeKept, ClearedKept DEF BoardInv
  <2> QED
    BY <2>1, <2>2, <2>3 DEF BoardNext
<1> QED
  BY <1>1, <1>2 DEF BoardInv

LEMMA LeavingNotShared ==
  ASSUME NEW k \in 1..10, Leaving(k)
  PROVE  FndNotShared
<1>1. CASE k \in {1, 2}
  <2>1. Head(todo) = Leave[k]
    BY LeavingHead
  <2>2. Leave[k].do # "control"
    BY <1>1, LeaveIs
  <2> QED
    BY <2>1, <2>2 DEF FndNotShared
<1>2. CASE k \notin {1, 2}
  <2>1. handling = <<>>
    BY <1>2, LeavingHead
  <2>2. DOMAIN handling = {}
    BY <2>1
  <2> QED
    BY <2>2 DEF FndNotShared
<1> QED
  BY <1>1, <1>2

\* The signal handler never changes the number of the fnd in the middle of one of main's own
\* changes of it, whichever keys are pressed and whenever the alarms come (modes.c,
\* operation.c): FndNotShared.
THEOREM NumberNotShared == BoardSpec => []FndNotShared
<1>1. BoardInit => BoardInv
  BY BoardBegins
<1>2. BoardInv /\ [BoardNext]_boardVars => BoardInv'
  BY BoardStep
<1>3. BoardInv => FndNotShared
  BY LeavingNotShared DEF BoardInv, Working
<1> QED
  BY <1>1, <1>2, <1>3, PTL DEF BoardSpec

\* When the output process has ended every device is clear, whatever main and its handler had
\* sent before and however full the queue was (main.c, process.c): BoardClearedAtEnd.
THEOREM BoardLeftClear == BoardSpec => []BoardClearedAtEnd
<1>1. BoardInit => BoardInv
  BY BoardBegins
<1>2. BoardInv /\ [BoardNext]_boardVars => BoardInv'
  BY BoardStep
<1>3. BoardInv => BoardClearedAtEnd
  BY DEF BoardInv
<1> QED
  BY <1>1, <1>2, <1>3, PTL DEF BoardSpec

----------------------------------------------------------------------------
(* Shortest paths: what the search and the relaxing keep *)

Distinct(s) == \A k, l \in DOMAIN s : s[k] = s[l] => k = l
\* Every edge leads to a node that comes earlier.
Backward(g, s) == \A k \in DOMAIN s : \A e \in DOMAIN g[s[k]] : \E l \in 1..(k - 1) : s[l] = g[s[k]][e].to

IsTest(g, source, dest) ==
  LET n == Cardinality(DOMAIN g)
  IN n \in Nat /\ g \in Graphs(n) /\ {source, dest} \subseteq 0..(n - 1)
Searches(N) ==
  [calls : Seq([c : N, i : Nat \ {0}]), visit : SUBSET N, in : SUBSET N,
   s : Seq(N), cycle : Seq(N), c_node : Int]
CalledNodes(st) == {st.calls[k].c : k \in DOMAIN st.calls}

\* Before a cycle is found: nodes on the way, and nodes that are done with all they lead
\* to; the edges of a call that are read lead to such nodes, but the last one to the next call.
Read(g, f, done) == f.i <= Len(g[f.c]) + 1 /\ \A j \in 1..(f.i - 1) : g[f.c][j].to \in done
Inside(g, f, done, next) ==
  /\ f.i > 1 /\ f.i <= Len(g[f.c]) + 1 /\ g[f.c][f.i - 1].to = next
  /\ \A j \in 1..(f.i - 2) : g[f.c][j].to \in done
ReadEdges(g, calls, done) ==
  /\ \A k \in 1..(Len(calls) - 1) : Inside(g, calls[k], done, calls[k + 1].c)
  /\ calls # <<>> => Read(g, calls[Len(calls)], done)
Unfound(g, st) ==
  /\ st.c_node = -1 /\ st.cycle = <<>>
  /\ st.in = CalledNodes(st) /\ \A k, l \in DOMAIN st.calls : st.calls[k].c = st.calls[l].c => k = l
  /\ st.visit = st.in \cup ToSet(st.s) /\ st.in \cap ToSet(st.s) = {}
  /\ Distinct(st.s) /\ Backward(g, st.s)
  /\ ReadEdges(g, st.calls, ToSet(st.s))
\* Afterwards: the calls and the cycle are one path, and its end leads back into it.
Found(g, st) ==
  /\ st.c_node >= 0 /\ st.cycle # <<>>
  /\ \A k \in 1..(Len(st.calls) - 1) : Leads(g, st.calls[k].c, st.calls[k + 1].c)
  /\ \A k \in 1..(Len(st.cycle) - 1) : Leads(g, st.cycle[k + 1], st.cycle[k])
  /\ st.calls # <<>> => st.calls[Len(st.calls)].c = st.cycle[Len(st.cycle)]
  /\ \E z \in ToSet(st.cycle) \cup CalledNodes(st) : Leads(g, st.cycle[1], z)

\* The distances, the predecessors and the next edge of the node on top of s.
Distances(r) == r = [d |-> r.d, p |-> r.p, i |-> r.i, at |-> r.at] /\ r.i \in Nat \ {0}
\* Distances that are those of the paths along the predecessors, none of which waits on s.
ToRelax(s) == {s[k] : k \in 1..(Len(s) - 1)}
Along(g, d, x, y) == \E e \in DOMAIN g[x] : g[x][e].to = y /\ d[y] = d[x] + g[x][e].cost
IsTree(g, source, r, s) ==
  /\ r.d \in [DOMAIN g -> 0..FarAway] /\ r.p \in [DOMAIN g -> DOMAIN g \cup {-1}]
  /\ r.d[source] = 0 /\ r.p[source] = -1
  /\ \A y \in DOMAIN g : r.p[y] = -1 => y = source \/ r.d[y] = FarAway
  /\ \A y \in DOMAIN g : r.p[y] # -1 =>
       r.p[y] \notin ToRelax(s) /\ r.d[y] < FarAway /\ Along(g, r.d, r.p[y], y)
\* The edge e of x is relaxed.
Tight(g, d, x, e) == d[g[x][e].to] <= d[x] + g[x][e].cost
AllTight(g, d, s) == \A x \in DOMAIN g \ ToSet(s) : \A e \in DOMAIN g[x] : Tight(g, d, x, e)
SomeTight(g, r, s) ==
  s # <<>> => LET x == s[Len(s)]
              IN r.i <= Len(g[x]) + 1 /\ \A e \in 1..(r.i - 1) : Tight(g, r.d, x, e)

\* What is traced is a path along the predecessors to the destination.
Traced(g, dest, r, nodes) ==
  /\ nodes \in Seq(DOMAIN g) /\ r.at \in DOMAIN g \cup {-1}
  /\ nodes = <<>> => r.at = IF r.d[dest] < FarAway THEN dest ELSE -1
  /\ nodes # <<>> => /\ nodes[Len(nodes)] = dest /\ r.d[dest] < FarAway /\ r.at = r.p[nodes[1]]
                     /\ \A k \in DOMAIN nodes : r.d[nodes[k]] <= r.d[dest]
                     /\ \A k \in 1..(Len(nodes) - 1) : Along(g, r.d, nodes[k], nodes[k + 1])

Cases == [op : {"search", "relax", "trace", "done"}, g : {path.g}, source : {path.source}, dest : {path.dest},
          acyclic : BOOLEAN, total : Nat, nodes : {path.nodes}]
PathTypeOK == path.op # "none" => path \in Cases /\ IsTest(path.g, path.source, path.dest)
WhileSearching ==
  path.op = "search" =>
    /\ path.acyclic /\ path.nodes = <<>> /\ path.total = 0
    /\ search \in Searches(DOMAIN path.g) /\ (Unfound(path.g, search) \/ Found(path.g, search))
WhileRelaxing ==
  path.op = "relax" =>
    /\ path.acyclic /\ path.nodes = <<>> /\ path.total = 0 /\ ~Cyclic(path.g)
    /\ search \in Searches(DOMAIN path.g) /\ Distinct(search.s) /\ Backward(path.g, search.s)
    /\ Distances(shortest)
    /\ IsTree(path.g, path.source, shortest, search.s)
    /\ AllTight(path.g, shortest.d, search.s) /\ SomeTight(path.g, shortest, search.s)
WhileTracing ==
  path.op = "trace" =>
    /\ path.acyclic /\ ~Cyclic(path.g)
    /\ Distances(shortest)
    /\ IsTree(path.g, path.source, shortest, <<>>) /\ AllTight(path.g, shortest.d, <<>>)
    /\ path.total = IF shortest.d[path.dest] < FarAway THEN shortest.d[path.dest] ELSE 0
    /\ Traced(path.g, path.dest, shortest, path.nodes)
AtFirst == path.op = "none" => path = [op |-> "none"] /\ search = Unseen
DagPathInv == AtFirst /\ PathTypeOK /\ WhileSearching /\ WhileRelaxing /\ WhileTracing /\ PathFound

\* What the graph of a test case is.
IsGraph(g) == DOMAIN g \subseteq Nat /\ \A x \in DOMAIN g : g[x] \in Seq([to : DOMAIN g, cost : Nat])
LEMMA GraphIs ==
  ASSUME NEW g, NEW source, NEW dest, IsTest(g, source, dest)
  PROVE  IsGraph(g) /\ source \in DOMAIN g /\ dest \in DOMAIN g /\ Cardinality(DOMAIN g) \in Nat
<1> DEFINE n == Cardinality(DOMAIN g)
<1>1. n \in Nat /\ g \in Graphs(n) /\ source \in 0..(n - 1) /\ dest \in 0..(n - 1)
  BY DEF IsTest
<1>2. Cardinality(DOMAIN g) \in Nat
  BY <1>1
<1> HIDE DEF n
<1>3. DOMAIN g = 0..(n - 1) /\ \A x \in 0..(n - 1) : g[x] \in Seq([to : 0..(n - 1), cost : Nat])
  BY <1>1 DEF Graphs
<1>4. DOMAIN g \subseteq Nat
  BY <1>1, <1>3
<1>5. IsGraph(g)
  BY <1>3, <1>4, Zenon DEF IsGraph
<1> QED
  BY <1>1, <1>2, <1>3, <1>5, Zenon

\* The edges of a node.
LEMMA EdgeIs ==
  ASSUME NEW g, IsGraph(g), NEW x \in DOMAIN g
  PROVE  /\ x \in Nat /\ Len(g[x]) \in Nat /\ DOMAIN g[x] = 1..Len(g[x])
         /\ \A e \in 1..Len(g[x]) : g[x][e].to \in DOMAIN g /\ g[x][e].cost \in Nat
<1> DEFINE R == [to : DOMAIN g, cost : Nat]
<1>1. g[x] \in Seq(R) /\ x \in Nat
  BY DEF IsGraph
<1>2. \A r \in R : r.to \in DOMAIN g /\ r.cost \in Nat
  OBVIOUS
<1> HIDE DEF R
<1>3. Len(g[x]) \in Nat /\ DOMAIN g[x] = 1..Len(g[x]) /\ \A e \in 1..Len(g[x]) : g[x][e] \in R
  BY <1>1
<1> QED
  BY <1>1, <1>2, <1>3

Frames(N) == [c : N, i : Nat \ {0}]
LEMMA FramesAre ==
  ASSUME NEW N, NEW calls \in Seq(Frames(N))
  PROVE  /\ Len(calls) \in Nat /\ DOMAIN calls = 1..Len(calls) /\ (calls = <<>> <=> Len(calls) = 0)
         /\ \A k \in 1..Len(calls) : /\ calls[k] \in Frames(N) /\ calls[k].c \in N
                                     /\ calls[k].i \in Nat /\ calls[k].i >= 1
<1>1. \A f \in Frames(N) : f.c \in N /\ f.i \in Nat /\ f.i >= 1
  BY DEF Frames
<1>2. /\ Len(calls) \in Nat /\ DOMAIN calls = 1..Len(calls) /\ (calls = <<>> <=> Len(calls) = 0)
      /\ \A k \in 1..Len(calls) : calls[k] \in Frames(N)
  OBVIOUS
<1> QED
  BY <1>1, <1>2

\* The calls without the innermost one, or with its next edge.
LEMMA FrontIs ==
  ASSUME NEW T, NEW s \in Seq(T), s # <<>>
  PROVE  /\ Front(s) \in Seq(T) /\ Len(Front(s)) = Len(s) - 1 /\ Len(s) \in Nat /\ Len(s) >= 1
         /\ \A k \in 1..(Len(s) - 1) : Front(s)[k] = s[k]
         /\ Last(s) = s[Len(s)] /\ s[Len(s)] \in T
<1>1. Len(s) \in Nat /\ Len(s) >= 1 /\ s[Len(s)] \in T
  OBVIOUS
<1>2. Front(s) = SubSeq(s, 1, Len(s) - 1) /\ Last(s) = s[Len(s)]
  BY DEF Front, Last
<1>3. 1 \in Int /\ Len(s) - 1 \in Int /\ \A i \in 1..(Len(s) - 1) : s[i] \in T
  BY <1>1
<1>4. /\ SubSeq(s, 1, Len(s) - 1) \in Seq(T)
      /\ Len(SubSeq(s, 1, Len(s) - 1)) = IF 1 <= Len(s) - 1 THEN (Len(s) - 1) - 1 + 1 ELSE 0
      /\ \A k \in 1..((Len(s) - 1) - 1 + 1) : SubSeq(s, 1, Len(s) - 1)[k] = s[1 + k - 1]
  BY <1>3, SubSeqProperties
<1>5. (Len(s) - 1) - 1 + 1 = Len(s) - 1 /\ \A k \in 1..(Len(s) - 1) : 1 + k - 1 = k
  BY <1>1
<1> QED
  BY <1>1, <1>2, <1>4, <1>5

Advanced(b, calls, N) ==
  /\ b \in Seq(Frames(N)) /\ Len(b) = Len(calls)
  /\ \A k \in 1..(Len(calls) - 1) : b[k] = calls[k]
  /\ b[Len(calls)].c = calls[Len(calls)].c /\ b[Len(calls)].i = calls[Len(calls)].i + 1
LEMMA AdvancedIs ==
  ASSUME NEW N, NEW calls \in Seq(Frames(N)), calls # <<>>
  PROVE  Advanced(Append(Front(calls), [Last(calls) EXCEPT !.i = @ + 1]), calls, N)
<1> DEFINE m == Len(calls)
           f == Front(calls)
           x == [Last(calls) EXCEPT !.i = @ + 1]
<1>1. /\ f \in Seq(Frames(N)) /\ Len(f) = m - 1 /\ m \in Nat /\ m >= 1
      /\ \A k \in 1..(m - 1) : f[k] = calls[k]
      /\ Last(calls) = calls[m] /\ calls[m] \in Frames(N)
  BY FrontIs
<1>2. x \in Frames(N) /\ x.c = calls[m].c /\ x.i = calls[m].i + 1
  <2>1. ASSUME NEW y \in Frames(N)
        PROVE  /\ [y EXCEPT !.i = @ + 1] \in Frames(N) /\ [y EXCEPT !.i = @ + 1].c = y.c
               /\ [y EXCEPT !.i = @ + 1].i = y.i + 1
    BY DEF Frames
  <2> QED
    BY <1>1, <2>1
<1> HIDE DEF f, x, m
<1>3. /\ Append(f, x) \in Seq(Frames(N)) /\ Len(Append(f, x)) = m
      /\ \A k \in 1..(m - 1) : Append(f, x)[k] = f[k]
      /\ Append(f, x)[m] = x
  BY <1>1, <1>2
<1>4. Advanced(Append(f, x), calls, N)
  BY <1>1, <1>2, <1>3 DEF Advanced, m
<1> QED
  BY <1>4 DEF f, x

LEMMA SearchIs ==
  ASSUME NEW N, NEW st \in Searches(N)
  PROVE  /\ st.calls \in Seq(Frames(N)) /\ st.visit \subseteq N /\ st.in \subseteq N
         /\ st.s \in Seq(N) /\ st.cycle \in Seq(N) /\ st.c_node \in Int
         /\ st = [calls |-> st.calls, visit |-> st.visit, in |-> st.in, s |-> st.s,
                  cycle |-> st.cycle, c_node |-> st.c_node]
BY DEF Searches, Frames
LEMMA SearchMade ==
  ASSUME NEW N, NEW calls \in Seq(Frames(N)), NEW visit \in SUBSET N, NEW in \in SUBSET N,
         NEW s \in Seq(N), NEW cycle \in Seq(N), NEW c_node \in Int
  PROVE  [calls |-> calls, visit |-> visit, in |-> in, s |-> s, cycle |-> cycle, c_node |-> c_node]
           \in Searches(N)
BY DEF Searches, Frames

\* The frames of the calls under the innermost one.
LEMMA SameFrames ==
  ASSUME NEW g, IsGraph(g), NEW calls \in Seq(Frames(DOMAIN g)), NEW b, NEW done,
         Advanced(b, calls, DOMAIN g), calls # <<>>, ReadEdges(g, calls, done),
         calls[Len(calls)].i <= Len(g[calls[Len(calls)].c])
  PROVE  /\ \A k \in 1..(Len(calls) - 1) : Inside(g, b[k], done, b[k + 1].c)
         /\ Inside(g, b[Len(calls)], done, g[calls[Len(calls)].c][calls[Len(calls)].i].to)
<1> DEFINE m == Len(calls)
<1>1. /\ m \in Nat /\ m >= 1 /\ DOMAIN calls = 1..m
      /\ \A k \in 1..m : calls[k].c \in DOMAIN g /\ calls[k].i \in Nat /\ calls[k].i >= 1
  BY FramesAre
<1>2. /\ \A k \in 1..(m - 1) : b[k] = calls[k]
      /\ b[m].c = calls[m].c /\ b[m].i = calls[m].i + 1
  BY DEF Advanced
<1>3. \A k \in 1..(m - 1) : Inside(g, calls[k], done, calls[k + 1].c)
  BY DEF ReadEdges
<1>4. Read(g, calls[m], done)
  BY DEF ReadEdges
<1>5. calls[m].i <= Len(g[calls[m].c])
  OBVIOUS
<1>6. Len(g[calls[m].c]) \in Nat
  BY <1>1, EdgeIs
<1> HIDE DEF m
<1>7. ASSUME NEW k \in 1..(m - 1) PROVE Inside(g, b[k], done, b[k + 1].c)
  <2>1. k + 1 \in 1..m /\ (k + 1 < m => k + 1 \in 1..(m - 1))
    BY <1>1
  <2>2. b[k + 1].c = calls[k + 1].c
    BY <1>1, <1>2, <2>1
  <2> QED
    BY <1>2, <1>3, <2>2
<1>8. Inside(g, b[m], done, g[calls[m].c][calls[m].i].to)
  <2>1. (calls[m].i + 1) - 1 = calls[m].i /\ (calls[m].i + 1) - 2 = calls[m].i - 1 /\ calls[m].i + 1 > 1
    BY <1>1
  <2>2. \A j \in 1..(calls[m].i - 1) : g[calls[m].c][j].to \in done
    BY <1>4 DEF Read
  <2>3. calls[m].i + 1 <= Len(g[calls[m].c]) + 1
    BY <1>1, <1>5, <1>6
  <2> QED
    BY <1>2, <2>1, <2>2, <2>3 DEF Inside
<1> QED
  BY <1>7, <1>8 DEF m

\* A frame whose last edge read leads to a node that is done.
LEMMA ReadOn ==
  ASSUME NEW g, NEW f, NEW done, NEW next \in done, f.i \in Nat, Inside(g, f, done, next)
  PROVE  Read(g, f, done)
<1> SUFFICES ASSUME NEW j \in 1..(f.i - 1) PROVE g[f.c][j].to \in done
  BY DEF Read, Inside
<1>1. j \in 1..(f.i - 2) \/ j = f.i - 1
  OBVIOUS
<1> QED
  BY <1>1 DEF Inside

\* An edge to a node that is done.
LEMMA BlackKeeps ==
  ASSUME NEW g, IsGraph(g), NEW st \in Searches(DOMAIN g), Unfound(g, st), NEW b, st.calls # <<>>,
         Advanced(b, st.calls, DOMAIN g),
         st.calls[Len(st.calls)].i <= Len(g[st.calls[Len(st.calls)].c]),
         g[st.calls[Len(st.calls)].c][st.calls[Len(st.calls)].i].to \in ToSet(st.s)
  PROVE  [st EXCEPT !.calls = b] \in Searches(DOMAIN g) /\ Unfound(g, [st EXCEPT !.calls = b])
<1> DEFINE t == [st EXCEPT !.calls = b]
           N == DOMAIN g
           calls == st.calls
           m == Len(calls)
           done == ToSet(st.s)
           next == g[calls[m].c][calls[m].i].to
<1>1. /\ t = [calls |-> b, visit |-> st.visit, in |-> st.in, s |-> st.s, cycle |-> st.cycle, c_node |-> st.c_node]
      /\ calls \in Seq(Frames(N)) /\ b \in Seq(Frames(N)) /\ Len(b) = m
  BY SearchIs DEF Advanced
<1> HIDE DEF t
<1>2. t \in Searches(N)
  <2>1. st.visit \in SUBSET N /\ st.in \in SUBSET N /\ st.s \in Seq(N) /\ st.cycle \in Seq(N) /\ st.c_node \in Int
    BY SearchIs
  <2> QED
    BY <1>1, <2>1, SearchMade
<1>3. t.calls = b /\ t.visit = st.visit /\ t.in = st.in /\ t.s = st.s /\ t.cycle = st.cycle /\ t.c_node = st.c_node
  BY <1>1
<1>4. /\ m \in Nat /\ m >= 1 /\ DOMAIN calls = 1..m /\ DOMAIN b = 1..m
      /\ \A k \in 1..m : calls[k].c \in N /\ calls[k].i \in Nat /\ b[k].i \in Nat
  BY <1>1, FramesAre
<1>5. \A k \in 1..m : b[k].c = calls[k].c
  BY <1>4 DEF Advanced
<1>6. CalledNodes(t) = CalledNodes(st)
  BY <1>3, <1>4, <1>5 DEF CalledNodes
<1>7. \A k, l \in DOMAIN t.calls : t.calls[k].c = t.calls[l].c => k = l
  BY <1>3, <1>4, <1>5 DEF Unfound
<1>8. ReadEdges(g, b, done)
  <2>1. ReadEdges(g, calls, done)
    BY DEF Unfound
  <2>2. (\A k \in 1..(m - 1) : Inside(g, b[k], done, b[k + 1].c)) /\ Inside(g, b[m], done, next)
    BY <1>1, <2>1, SameFrames
  <2>3. Read(g, b[m], done)
    BY <1>4, <2>2, ReadOn
  <2> QED
    BY <1>1, <2>2, <2>3 DEF ReadEdges
<1>9. Unfound(g, t)
  BY <1>3, <1>6, <1>7, <1>8 DEF Unfound
<1> QED
  BY <1>2, <1>9 DEF t

\* A call of dfs, from the innermost one with the next edge read, or from main.
LEMMA EnteredKeeps ==
  ASSUME NEW g, IsGraph(g), NEW st \in Searches(DOMAIN g), Unfound(g, st), NEW b,
         NEW c \in DOMAIN g \ st.visit, st.calls = <<>> => b = <<>>,
         st.calls # <<>> => /\ Advanced(b, st.calls, DOMAIN g)
                            /\ st.calls[Len(st.calls)].i <= Len(g[st.calls[Len(st.calls)].c])
                            /\ g[st.calls[Len(st.calls)].c][st.calls[Len(st.calls)].i].to = c
  PROVE  /\ Entered([st EXCEPT !.calls = b], c) \in Searches(DOMAIN g)
         /\ Unfound(g, Entered([st EXCEPT !.calls = b], c))
<1> DEFINE t == Entered([st EXCEPT !.calls = b], c)
           a == Append(b, [c |-> c, i |-> 1])
           N == DOMAIN g
           calls == st.calls
           m == Len(calls)
           done == ToSet(st.s)
<1>1. t = [calls |-> a, visit |-> st.visit \cup {c}, in |-> st.in \cup {c}, s |-> st.s,
           cycle |-> st.cycle, c_node |-> st.c_node]
  <2>1. st = [calls |-> st.calls, visit |-> st.visit, in |-> st.in, s |-> st.s,
              cycle |-> st.cycle, c_node |-> st.c_node]
    BY SearchIs
  <2>2. [st EXCEPT !.calls = b] = [calls |-> b, visit |-> st.visit, in |-> st.in, s |-> st.s,
                                   cycle |-> st.cycle, c_node |-> st.c_node]
    BY <2>1
  <2> DEFINE u == [st EXCEPT !.calls = b]
  <2>3. u.calls = b /\ u.visit = st.visit /\ u.in = st.in
    BY <2>2
  <2>4. Entered(u, c) = [u EXCEPT !.calls = a, !.visit = st.visit \cup {c}, !.in = st.in \cup {c}]
    <3> HIDE DEF u
    <3> QED
      BY <2>3, Zenon DEF Entered
  <2> HIDE DEF a
  <2>5. [u EXCEPT !.calls = a, !.visit = st.visit \cup {c}, !.in = st.in \cup {c}]
         = [calls |-> a, visit |-> st.visit \cup {c}, in |-> st.in \cup {c}, s |-> st.s,
            cycle |-> st.cycle, c_node |-> st.c_node]
    <3> DEFINE v == st.visit \cup {c}
               w == st.in \cup {c}
    <3> HIDE DEF u, v, w
    <3>1. u = [calls |-> b, visit |-> st.visit, in |-> st.in, s |-> st.s, cycle |-> st.cycle, c_node |-> st.c_node]
      BY <2>2 DEF u
    <3> DEFINE u1 == [u EXCEPT !.calls = a]
               u2 == [u1 EXCEPT !.visit = v]
    <3>3. u1 = [calls |-> a, visit |-> st.visit, in |-> st.in, s |-> st.s, cycle |-> st.cycle, c_node |-> st.c_node]
      BY <3>1
    <3> HIDE DEF u1
    <3>4. u2 = [calls |-> a, visit |-> v, in |-> st.in, s |-> st.s, cycle |-> st.cycle, c_node |-> st.c_node]
      BY <3>3
    <3> HIDE DEF u2
    <3>5. [u2 EXCEPT !.in = w]
          = [calls |-> a, visit |-> v, in |-> w, s |-> st.s, cycle |-> st.cycle, c_node |-> st.c_node]
      BY <3>4
    <3>2. [u EXCEPT !.calls = a, !.visit = v, !.in = w]
          = [calls |-> a, visit |-> v, in |-> w, s |-> st.s, cycle |-> st.cycle, c_node |-> st.c_node]
      BY <3>5 DEF u1, u2
    <3> QED
      BY <3>2 DEF v, w
  <2> QED
    BY <2>4, <2>5, Zenon
<1>2. /\ t.calls = a /\ t.visit = st.visit \cup {c} /\ t.in = st.in \cup {c} /\ t.s = st.s
      /\ t.cycle = st.cycle /\ t.c_node = st.c_node
  BY <1>1
<1> HIDE DEF t
<1>3. calls \in Seq(Frames(N)) /\ b \in Seq(Frames(N)) /\ Len(b) = m /\ m \in Nat /\ DOMAIN calls = 1..m /\ (calls = <<>> <=> m = 0)
  <2>1. calls \in Seq(Frames(N)) /\ m \in Nat /\ DOMAIN calls = 1..m /\ (calls = <<>> <=> m = 0)
    BY SearchIs, FramesAre
  <2> QED
    BY <2>1 DEF Advanced
<1>4. [c |-> c, i |-> 1] \in Frames(N)
  BY DEF Frames
<1>5. /\ a \in Seq(Frames(N)) /\ Len(a) = m + 1 /\ DOMAIN a = 1..(m + 1)
      /\ \A k \in 1..m : a[k] = b[k]
      /\ a[m + 1] = [c |-> c, i |-> 1]
  BY <1>3, <1>4
<1> HIDE DEF a
<1>6. t \in Searches(N)
  <2>1. st.visit \cup {c} \in SUBSET N /\ st.in \cup {c} \in SUBSET N /\ st.s \in Seq(N) /\ st.cycle \in Seq(N) /\ st.c_node \in Int
    BY SearchIs
  <2> QED
    BY <1>1, <1>5, <2>1, SearchMade
<1>7. /\ \A k \in 1..m : a[k].c = calls[k].c /\ calls[k].c \in N
      /\ a[m + 1].c = c /\ a[m + 1].i = 1
  <2>1. \A k \in 1..m : calls[k].c \in N
    BY <1>3, FramesAre
  <2>2. \A k \in 1..m : b[k].c = calls[k].c
    BY <1>3 DEF Advanced
  <2> QED
    BY <1>5, <2>1, <2>2
<1>8. CalledNodes(t) = CalledNodes(st) \cup {c}
  <2>1. \A x : x \in CalledNodes(t) <=> \E k \in 1..(m + 1) : x = a[k].c
    BY <1>2, <1>5 DEF CalledNodes
  <2>2. \A x : x \in CalledNodes(st) <=> \E k \in 1..m : x = calls[k].c
    BY <1>3 DEF CalledNodes
  <2>3. \A k \in 1..(m + 1) : k \in 1..m \/ k = m + 1
    BY <1>3
  <2>4. 1..m \subseteq 1..(m + 1) /\ m + 1 \in 1..(m + 1)
    BY <1>3
  <2>5. ASSUME NEW x PROVE x \in CalledNodes(t) <=> x \in CalledNodes(st) \cup {c}
    BY <1>7, <2>1, <2>2, <2>3, <2>4
  <2> QED
    BY <2>5
<1>9. \A k \in 1..m : calls[k].c \in st.visit
  BY <1>3 DEF Unfound, CalledNodes
<1>10. \A k, l \in DOMAIN t.calls : t.calls[k].c = t.calls[l].c => k = l
  <2>1. \A k, l \in 1..m : calls[k].c = calls[l].c => k = l
    BY <1>3 DEF Unfound
  <2>2. \A k \in 1..(m + 1) : k \in 1..m \/ k = m + 1
    BY <1>3
  <2> QED
    BY <1>2, <1>5, <1>7, <1>9, <2>1, <2>2
<1>11. c \notin done
  BY DEF Unfound
<1>12. ReadEdges(g, a, done)
  <2>1. ReadEdges(g, calls, done)
    BY DEF Unfound
  <2>2. Read(g, a[m + 1], done)
    BY <1>7, EdgeIs DEF Read
  <2>3. CASE calls = <<>>
    BY <1>3, <1>5, <2>2, <2>3 DEF ReadEdges
  <2>4. CASE calls # <<>>
    <3>1. (\A k \in 1..(m - 1) : Inside(g, b[k], done, b[k + 1].c)) /\ Inside(g, b[m], done, c)
      BY <1>3, <2>1, <2>4, SameFrames
    <3>2. ASSUME NEW k \in 1..m PROVE Inside(g, a[k], done, a[k + 1].c)
      <4>1. CASE k = m
        BY <1>5, <1>7, <3>1, <4>1
      <4>2. CASE k # m
        <5>1. k \in 1..(m - 1) /\ k + 1 \in 1..m
          BY <1>3, <4>2
        <5> QED
          BY <1>5, <3>1, <5>1
      <4> QED
        BY <4>1, <4>2
    <3> QED
      BY <1>3, <1>5, <2>2, <3>2 DEF ReadEdges
  <2> QED
    BY <2>3, <2>4
<1>13. t.visit = t.in \cup done /\ t.in \cap done = {} /\ t.in = CalledNodes(t)
  BY <1>2, <1>8, <1>11 DEF Unfound
<1>14. Unfound(g, t)
  BY <1>2, <1>10, <1>12, <1>13 DEF Unfound
<1> QED
  BY <1>6, <1>14 DEF t

\* One more node on a stack.
LEMMA PushIs ==
  ASSUME NEW T, NEW s \in Seq(T), NEW c \in T
  PROVE  /\ Append(s, c) \in Seq(T) /\ Len(Append(s, c)) = Len(s) + 1 /\ Len(s) \in Nat
         /\ DOMAIN s = 1..Len(s) /\ DOMAIN Append(s, c) = 1..(Len(s) + 1)
         /\ \A k \in 1..Len(s) : Append(s, c)[k] = s[k]
         /\ Append(s, c)[Len(s) + 1] = c
         /\ ToSet(Append(s, c)) = ToSet(s) \cup {c}
<1>1. /\ Append(s, c) \in Seq(T) /\ Len(Append(s, c)) = Len(s) + 1 /\ Len(s) \in Nat
      /\ DOMAIN s = 1..Len(s) /\ DOMAIN Append(s, c) = 1..(Len(s) + 1)
      /\ \A k \in 1..Len(s) : Append(s, c)[k] = s[k]
      /\ Append(s, c)[Len(s) + 1] = c
  OBVIOUS
<1> DEFINE a == Append(s, c)
<1> HIDE DEF a
<1>2. ToSet(a) = ToSet(s) \cup {c}
  <2>1. \A k \in 1..(Len(s) + 1) : k \in 1..Len(s) \/ k = Len(s) + 1
    BY <1>1
  <2>2. 1..Len(s) \subseteq 1..(Len(s) + 1) /\ Len(s) + 1 \in 1..(Len(s) + 1)
    BY <1>1
  <2>3. ASSUME NEW x PROVE x \in ToSet(a) <=> x \in ToSet(s) \cup {c}
    <3>1. x \in ToSet(a) <=> \E k \in 1..(Len(s) + 1) : a[k] = x
      BY <1>1 DEF ToSet, a
    <3>2. x \in ToSet(s) <=> \E k \in 1..Len(s) : s[k] = x
      BY <1>1 DEF ToSet
    <3>3. (\A k \in 1..Len(s) : a[k] = s[k]) /\ a[Len(s) + 1] = c
      BY <1>1 DEF a
    <3> QED
      BY <2>1, <2>2, <3>1, <3>2, <3>3
  <2> QED
    BY <2>3
<1> QED
  BY <1>1, <1>2 DEF a

\* A node whose edges all lead to nodes that are done is done too.
LEMMA DoneMore ==
  ASSUME NEW g, IsGraph(g), NEW s \in Seq(DOMAIN g), Distinct(s), Backward(g, s), NEW c \in DOMAIN g,
         c \notin ToSet(s), \A e \in 1..Len(g[c]) : g[c][e].to \in ToSet(s)
  PROVE  Distinct(Append(s, c)) /\ Backward(g, Append(s, c))
<1> DEFINE a == Append(s, c)
           n == Len(s)
<1>1. /\ n \in Nat /\ DOMAIN s = 1..n /\ DOMAIN a = 1..(n + 1)
      /\ \A k \in 1..n : a[k] = s[k]
      /\ a[n + 1] = c
  BY PushIs
<1> HIDE DEF a, n
<1>2. \A k \in 1..(n + 1) : k \in 1..n \/ k = n + 1
  BY <1>1
<1>3. \A k \in 1..n : s[k] # c
  BY <1>1 DEF ToSet
<1>4. Distinct(a)
  BY <1>1, <1>2, <1>3 DEF Distinct
<1>5. ASSUME NEW k \in 1..(n + 1), NEW e \in DOMAIN g[a[k]]
      PROVE  \E l \in 1..(k - 1) : a[l] = g[a[k]][e].to
  <2>1. CASE k \in 1..n
    <3>1. PICK l \in 1..(k - 1) : s[l] = g[s[k]][e].to
      BY <1>1, <1>5, <2>1 DEF Backward
    <3>2. l \in 1..n
      BY <1>1, <2>1
    <3> QED
      BY <1>1, <2>1, <3>1, <3>2
  <2>2. CASE k = n + 1
    <3>1. e \in 1..Len(g[c])
      BY <1>1, <1>5, <2>2, EdgeIs
    <3>2. PICK l \in 1..n : s[l] = g[c][e].to
      BY <1>1, <3>1 DEF ToSet
    <3>3. l \in 1..(k - 1)
      BY <1>1, <2>2
    <3> QED
      BY <1>1, <2>2, <3>2, <3>3
  <2> QED
    BY <1>2, <2>1, <2>2
<1>6. Backward(g, a)
  BY <1>1, <1>5, Zenon DEF Backward
<1> QED
  BY <1>4, <1>6 DEF a

\* The end of a call whose edges are all read.
LEMMA EndKeeps ==
  ASSUME NEW g, IsGraph(g), NEW st \in Searches(DOMAIN g), Unfound(g, st), st.calls # <<>>,
         NEW c, c = Last(st.calls).c, ~(Last(st.calls).i <= Len(g[c]))
  PROVE  /\ Left([st EXCEPT !.in = @ \ {c}, !.s = Append(@, c)]) \in Searches(DOMAIN g)
         /\ Unfound(g, Left([st EXCEPT !.in = @ \ {c}, !.s = Append(@, c)]))
<1> DEFINE N == DOMAIN g
           calls == st.calls
           m == Len(calls)
           f == Front(calls)
           done == ToSet(st.s)
           u == [st EXCEPT !.in = @ \ {c}, !.s = Append(@, c)]
           t == Left(u)
<1>0. calls \in Seq(Frames(N)) /\ st.s \in Seq(N) /\ st.cycle \in Seq(N) /\ st.visit \in SUBSET N /\ st.in \in SUBSET N
  BY SearchIs
<1>1. /\ f \in Seq(Frames(N)) /\ Len(f) = m - 1 /\ m \in Nat /\ m >= 1 /\ DOMAIN calls = 1..m
      /\ \A k \in 1..(m - 1) : f[k] = calls[k]
      /\ Last(calls) = calls[m]
  BY <1>0, FrontIs, FramesAre
<1>2. /\ DOMAIN f = 1..(m - 1) /\ (f = <<>> <=> m = 1)
      /\ \A k \in 1..m : calls[k].c \in N /\ calls[k].i \in Nat /\ calls[k].i >= 1
  <2>1. DOMAIN f = 1..Len(f) /\ (f = <<>> <=> Len(f) = 0)
    BY <1>1, FramesAre, Zenon
  <2>2. \A k \in 1..m : calls[k].c \in N /\ calls[k].i \in Nat /\ calls[k].i >= 1
    BY <1>0, FramesAre, Zenon
  <2> HIDE DEF f
  <2> QED
    BY <1>1, <2>1, <2>2
<1>3. c = calls[m].c /\ c \in N /\ ~(calls[m].i <= Len(g[c]))
  BY <1>1, <1>2
<1>4. t = [calls |-> f, visit |-> st.visit, in |-> st.in \ {c}, s |-> Append(st.s, c),
           cycle |-> st.cycle, c_node |-> st.c_node]
  <2> DEFINE v == st.in \ {c}
             w == Append(st.s, c)
             u1 == [st EXCEPT !.in = v]
             u2 == [u1 EXCEPT !.s = w]
  <2>1. st = [calls |-> st.calls, visit |-> st.visit, in |-> st.in, s |-> st.s,
              cycle |-> st.cycle, c_node |-> st.c_node]
    BY SearchIs
  <2> HIDE DEF v, w
  <2>2. u1 = [calls |-> st.calls, visit |-> st.visit, in |-> v, s |-> st.s, cycle |-> st.cycle, c_node |-> st.c_node]
    BY <2>1
  <2>3. u = u2
    BY <2>2 DEF v, w
  <2> HIDE DEF u1
  <2>4. u2 = [calls |-> st.calls, visit |-> st.visit, in |-> v, s |-> w, cycle |-> st.cycle, c_node |-> st.c_node]
    BY <2>2
  <2> HIDE DEF u, u2
  <2>5. u.c_node = -1 /\ u.calls = calls
    BY <2>3, <2>4 DEF Unfound
  <2>6. t = [u EXCEPT !.calls = f]
    BY <2>5, Zenon DEF Left
  <2>7. [u EXCEPT !.calls = f]
         = [calls |-> f, visit |-> st.visit, in |-> v, s |-> w, cycle |-> st.cycle, c_node |-> st.c_node]
    BY <2>3, <2>4
  <2> QED
    BY <2>6, <2>7, Zenon DEF v, w
<1> HIDE DEF u, t
<1>5. /\ t.calls = f /\ t.visit = st.visit /\ t.in = st.in \ {c} /\ t.s = Append(st.s, c)
      /\ t.cycle = st.cycle /\ t.c_node = st.c_node
  BY <1>4
<1> HIDE DEF f
<1>6. t \in Searches(N)
  <2>1. Append(st.s, c) \in Seq(N)
    BY <1>0, <1>3, PushIs
  <2>2. st.in \ {c} \in SUBSET N /\ st.c_node \in Int
    BY <1>0, SearchIs
  <2> QED
    BY <1>0, <1>1, <1>4, <2>1, <2>2, SearchMade
<1>7. \A k, l \in 1..m : calls[k].c = calls[l].c => k = l
  BY <1>1 DEF Unfound
<1>8. CalledNodes(t) = CalledNodes(st) \ {c}
  <2> SUFFICES ASSUME NEW x PROVE x \in CalledNodes(t) <=> x \in CalledNodes(st) /\ x # c
    OBVIOUS
  <2>1. x \in CalledNodes(t) <=> \E k \in 1..(m - 1) : x = f[k].c
    BY <1>2, <1>5 DEF CalledNodes
  <2>2. x \in CalledNodes(st) <=> \E k \in 1..m : x = calls[k].c
    BY <1>1 DEF CalledNodes
  <2>3. /\ \A k \in 1..m : k \in 1..(m - 1) \/ k = m
        /\ 1..(m - 1) \subseteq 1..m /\ m \notin 1..(m - 1) /\ m \in 1..m
    BY <1>1
  <2> QED
    BY <1>1, <1>3, <1>7, <2>1, <2>2, <2>3
<1>9. c \in st.in /\ c \notin done
  <2>1. c \in CalledNodes(st)
    BY <1>1, <1>3 DEF CalledNodes
  <2> QED
    BY <2>1 DEF Unfound
<1>10. ToSet(t.s) = done \cup {c}
  BY <1>0, <1>3, <1>5, PushIs
<1>11. t.in = CalledNodes(t) /\ t.visit = t.in \cup ToSet(t.s) /\ t.in \cap ToSet(t.s) = {}
  BY <1>5, <1>8, <1>9, <1>10 DEF Unfound
<1>12. \A k, l \in DOMAIN t.calls : t.calls[k].c = t.calls[l].c => k = l
  <2>1. 1..(m - 1) \subseteq 1..m
    BY <1>1
  <2> QED
    BY <1>1, <1>2, <1>5, <1>7, <2>1
<1>13. ReadEdges(g, calls, done)
  BY DEF Unfound
<1>14. Distinct(t.s) /\ Backward(g, t.s)
  <2>1. Len(g[c]) \in Nat
    BY <1>3, EdgeIs
  <2>2. Read(g, calls[m], done)
    BY <1>13 DEF ReadEdges
  <2>3. calls[m].i - 1 = Len(g[c])
    <3>1. calls[m].i \in Nat /\ ~(calls[m].i <= Len(g[c])) /\ calls[m].i <= Len(g[c]) + 1
      BY <1>1, <1>2, <1>3, <2>2 DEF Read
    <3> QED
      BY <2>1, <3>1
  <2>4. \A e \in 1..Len(g[c]) : g[c][e].to \in done
    BY <1>3, <2>2, <2>3 DEF Read
  <2> QED
    BY <1>0, <1>3, <1>5, <1>9, <2>4, DoneMore DEF Unfound
<1>15. ReadEdges(g, f, done \cup {c})
  <2>1. ASSUME NEW k \in 1..(m - 1) PROVE Inside(g, f[k], done, calls[k + 1].c) /\ f[k].i \in Nat
    <3>1. k \in 1..m
      BY <1>1
    <3> QED
      BY <1>1, <1>2, <1>13, <3>1 DEF ReadEdges
  <2>2. ASSUME NEW k \in 1..(m - 2) PROVE Inside(g, f[k], done \cup {c}, f[k + 1].c)
    <3>1. k \in 1..(m - 1) /\ k + 1 \in 1..(m - 1)
      BY <1>1
    <3>2. f[k + 1] = calls[k + 1]
      BY <1>1, <3>1
    <3> QED
      BY <2>1, <3>1, <3>2 DEF Inside
  <2>3. CASE m > 1
    <3>1. m - 1 \in 1..(m - 1) /\ (m - 1) + 1 = m
      BY <1>1, <2>3
    <3>2. Inside(g, f[m - 1], done, c) /\ f[m - 1].i \in Nat
      BY <1>3, <2>1, <3>1
    <3>3. Inside(g, f[m - 1], done \cup {c}, c)
      BY <3>2 DEF Inside
    <3>4. Read(g, f[m - 1], done \cup {c})
      BY <3>2, <3>3, ReadOn
    <3>5. Len(f) = m - 1 /\ Len(f) - 1 = m - 2
      BY <1>1
    <3> QED
      BY <2>2, <3>4, <3>5 DEF ReadEdges
  <2>4. CASE m = 1
    <3>1. f = <<>> /\ Len(f) - 1 = m - 2
      BY <1>1, <1>2, <2>4
    <3> QED
      BY <2>2, <3>1 DEF ReadEdges
  <2>5. m > 1 \/ m = 1
    <3>1. m \in Nat /\ m >= 1
      BY <1>1, Zenon
    <3> HIDE DEF m
    <3> QED
      BY <3>1
  <2> QED
    BY <2>3, <2>4, <2>5, Zenon
<1>16. Unfound(g, t)
  BY <1>5, <1>10, <1>11, <1>12, <1>14, <1>15 DEF Unfound
<1> QED
  BY <1>6, <1>16 DEF t, u

\* The end of a call once there is a cycle.
LEMMA LeftFound ==
  ASSUME NEW g, IsGraph(g), NEW st \in Searches(DOMAIN g), Found(g, st), st.calls # <<>>
  PROVE  Left(st) \in Searches(DOMAIN g) /\ Found(g, Left(st))
<1> DEFINE N == DOMAIN g
           calls == st.calls
           m == Len(calls)
           f == Front(calls)
           t == Left(st)
           x == Last(f).c
           node == IF st.c_node # x THEN st.c_node ELSE 2^30
<1>0. calls \in Seq(Frames(N)) /\ st.cycle \in Seq(N) /\ st.visit \in SUBSET N /\ st.in \in SUBSET N /\ st.s \in Seq(N)
  BY SearchIs
<1>1. /\ f \in Seq(Frames(N)) /\ Len(f) = m - 1 /\ m \in Nat /\ m >= 1 /\ DOMAIN calls = 1..m
      /\ \A k \in 1..(m - 1) : f[k] = calls[k]
  BY <1>0, FrontIs, FramesAre
<1>2. /\ DOMAIN f = 1..(m - 1) /\ (f = <<>> <=> m = 1)
      /\ \A k \in 1..m : calls[k].c \in N
  <2>1. DOMAIN f = 1..Len(f) /\ (f = <<>> <=> Len(f) = 0)
    BY <1>1, FramesAre, Zenon
  <2>2. \A k \in 1..m : calls[k].c \in N
    BY <1>0, FramesAre, Zenon
  <2> HIDE DEF f
  <2> QED
    BY <1>1, <2>1, <2>2
<1>3. st.c_node \in Int /\ st.c_node >= 0 /\ st.c_node # -1
  BY SearchIs DEF Found
<1>4. st = [calls |-> st.calls, visit |-> st.visit, in |-> st.in, s |-> st.s,
            cycle |-> st.cycle, c_node |-> st.c_node]
  BY SearchIs
<1>5. CASE f = <<>>
  <2> HIDE DEF f
  <2>1. t = [st EXCEPT !.calls = f]
    BY <1>5, Zenon DEF Left, f
  <2> HIDE DEF t
  <2>2. t = [calls |-> f, visit |-> st.visit, in |-> st.in, s |-> st.s, cycle |-> st.cycle, c_node |-> st.c_node]
    BY <1>4, <2>1
  <2>3. t \in Searches(N)
    BY <1>0, <1>1, <1>3, <2>2, SearchMade
  <2>4. t.calls = <<>> /\ t.cycle = st.cycle /\ t.c_node = st.c_node
    BY <1>5, <2>2
  <2>5. \A z \in CalledNodes(st) : z \in ToSet(st.cycle)
    <3>1. m = 1 /\ DOMAIN calls = {1} /\ calls[m].c = st.cycle[Len(st.cycle)]
      BY <1>1, <1>2, <1>5 DEF Found
    <3>2. Len(st.cycle) \in DOMAIN st.cycle
      BY <1>0 DEF Found
    <3> QED
      BY <3>1, <3>2 DEF CalledNodes, ToSet
  <2>6. Found(g, t)
    BY <2>4, <2>5 DEF Found
  <2> QED
    BY <2>3, <2>6 DEF t
<1>6. CASE f # <<>>
  <2>1. m >= 2 /\ x = calls[m - 1].c /\ x \in N
    <3>1. m >= 2 /\ m - 1 \in 1..(m - 1)
      BY <1>1, <1>2, <1>6
    <3>2. Last(f) = f[m - 1]
      BY <1>1 DEF Last
    <3> QED
      BY <1>1, <1>2, <3>1, <3>2
  <2>2. node \in Int /\ node >= 0
    <3>1. 2^30 \in Int /\ 2^30 >= 0
      BY Z3
    <3> QED
      BY <1>3, <3>1
  <2>3. t = [calls |-> f, visit |-> st.visit, in |-> st.in, s |-> st.s,
             cycle |-> Append(st.cycle, x), c_node |-> node]
    <3> HIDE DEF f, x, node
    <3>1. t = [st EXCEPT !.calls = f, !.cycle = Append(st.cycle, x), !.c_node = node]
      BY <1>3, <1>6, Zenon DEF Left, f, x, node
    <3> DEFINE w == Append(st.cycle, x)
               u1 == [st EXCEPT !.calls = f]
               u2 == [u1 EXCEPT !.cycle = w]
    <3> HIDE DEF w
    <3>2. u1 = [calls |-> f, visit |-> st.visit, in |-> st.in, s |-> st.s, cycle |-> st.cycle, c_node |-> st.c_node]
      BY <1>4
    <3> HIDE DEF u1
    <3>3. u2 = [calls |-> f, visit |-> st.visit, in |-> st.in, s |-> st.s, cycle |-> w, c_node |-> st.c_node]
      BY <3>2
    <3> HIDE DEF u2
    <3>4. [u2 EXCEPT !.c_node = node] = [calls |-> f, visit |-> st.visit, in |-> st.in, s |-> st.s, cycle |-> w, c_node |-> node]
      BY <3>3
    <3> QED
      BY <3>1, <3>4 DEF u1, u2, w
  <2> HIDE DEF t, node
  <2>4. t.calls = f /\ t.cycle = Append(st.cycle, x) /\ t.c_node = node
    BY <2>3
  <2>5. /\ Append(st.cycle, x) \in Seq(N) /\ Len(Append(st.cycle, x)) = Len(st.cycle) + 1 /\ Len(st.cycle) \in Nat
        /\ \A k \in 1..Len(st.cycle) : Append(st.cycle, x)[k] = st.cycle[k]
        /\ Append(st.cycle, x)[Len(st.cycle) + 1] = x
        /\ ToSet(Append(st.cycle, x)) = ToSet(st.cycle) \cup {x} /\ DOMAIN st.cycle = 1..Len(st.cycle)
    BY <1>0, <2>1, PushIs
  <2>6. t \in Searches(N)
    BY <1>0, <1>1, <2>2, <2>3, <2>5, SearchMade
  <2>7. /\ st.cycle # <<>> /\ Len(st.cycle) >= 1
        /\ \A k \in 1..(m - 1) : Leads(g, calls[k].c, calls[k + 1].c)
        /\ \A k \in 1..(Len(st.cycle) - 1) : Leads(g, st.cycle[k + 1], st.cycle[k])
        /\ calls[m].c = st.cycle[Len(st.cycle)]
    <3>1. st.cycle # <<>>
      BY DEF Found
    <3>2. Len(st.cycle) >= 1
      BY <1>0, <3>1
    <3> QED
      BY <3>1, <3>2, Zenon DEF Found
  <2>8. ASSUME NEW k \in 1..Len(st.cycle) PROVE Leads(g, Append(st.cycle, x)[k + 1], Append(st.cycle, x)[k])
    <3>1. CASE k = Len(st.cycle)
      <4>1. m - 1 \in 1..(m - 1) /\ (m - 1) + 1 = m
        BY <1>1, <2>1
      <4>2. Leads(g, x, calls[m].c)
        BY <2>1, <2>7, <4>1
      <4> QED
        BY <2>5, <2>7, <3>1, <4>2
    <3>2. CASE k # Len(st.cycle)
      <4>1. k \in 1..(Len(st.cycle) - 1) /\ k + 1 \in 1..Len(st.cycle)
        BY <2>5, <3>2
      <4> QED
        BY <2>5, <2>7, <4>1
    <3> QED
      BY <3>1, <3>2
  <2>9. ASSUME NEW k \in 1..(Len(f) - 1) PROVE Leads(g, f[k].c, f[k + 1].c)
    <3>1. k \in 1..(m - 1) /\ k + 1 \in 1..(m - 1)
      BY <1>1
    <3> QED
      BY <1>1, <2>7, <3>1
  <2>10. f[Len(f)].c = x
    <3>1. m - 1 \in 1..(m - 1)
      BY <1>1, <2>1
    <3> QED
      BY <1>1, <2>1, <3>1
  <2>11. PICK z \in ToSet(st.cycle) \cup CalledNodes(st) : Leads(g, st.cycle[1], z)
    BY DEF Found
  <2>12. z \in ToSet(Append(st.cycle, x)) \cup CalledNodes(t)
    <3>1. CASE z \in ToSet(st.cycle)
      BY <2>5, <3>1
    <3>2. CASE z \in CalledNodes(st)
      <4>1. PICK k \in 1..m : z = calls[k].c
        BY <1>1, <3>2 DEF CalledNodes
      <4>2. CASE k = m
        <5>1. Len(st.cycle) \in DOMAIN st.cycle
          BY <2>5, <2>7
        <5>2. z \in ToSet(st.cycle)
          BY <2>7, <4>1, <4>2, <5>1 DEF ToSet
        <5> QED
          BY <2>5, <5>2
      <4>3. CASE k # m
        <5>1. k \in 1..(m - 1)
          BY <1>1, <4>3
        <5>2. z = f[k].c
          BY <1>1, <4>1, <5>1
        <5> QED
          BY <1>2, <2>4, <5>1, <5>2 DEF CalledNodes
      <4> QED
        BY <4>2, <4>3
    <3> QED
      BY <2>11, <3>1, <3>2
  <2>13. Append(st.cycle, x)[1] = st.cycle[1]
    BY <2>5, <2>7
  <2>14. Append(st.cycle, x) # <<>> /\ Append(st.cycle, x)[Len(st.cycle) + 1] = x
    <3> DEFINE v == Append(st.cycle, x)
    <3>1. Len(v) # 0 /\ v[Len(st.cycle) + 1] = x
      BY <2>5
    <3> HIDE DEF v
    <3>2. v # <<>>
      BY <3>1
    <3> QED
      BY <3>1, <3>2 DEF v
  <2> DEFINE w == Append(st.cycle, x)
  <2>15. Len(w) - 1 = Len(st.cycle) /\ Len(w) = Len(st.cycle) + 1
    BY <2>5
  <2>16. Found(g, t)
    <3> HIDE DEF w, f, x
    <3> QED
      BY <2>2, <2>4, <2>8, <2>9, <2>10, <2>11, <2>12, <2>13, <2>14, <2>15 DEF Found, w
  <2> QED
    BY <2>6, <2>16 DEF t
<1> QED
  BY <1>5, <1>6

\* Induction over the natural numbers, for a set instead of a predicate.
LEMMA NumbersFrom ==
  ASSUME NEW S, 0 \in S, \A n \in Nat : n \in S => n + 1 \in S
  PROVE  \A n \in Nat : n \in S
<1> DEFINE T == {n \in Nat : n \notin S}
<1> SUFFICES ASSUME T # {} PROVE FALSE
  OBVIOUS
<1>1. PICK n \in T : \A m \in T : n <= m
  BY LeastNumber
<1>2. n \in Nat /\ n \notin S /\ n # 0
  BY <1>1
<1>3. n - 1 \in Nat /\ (n - 1) + 1 = n /\ ~(n <= n - 1)
  BY <1>2
<1>4. n - 1 \in S
  BY <1>1, <1>3
<1> QED
  BY <1>2, <1>3, <1>4

----------------------------------------------------------------------------
(* What the search finds *)

\* Nodes that can be ordered are not on cycles.
LEMMA OrderedAcyclic ==
  ASSUME NEW g, NEW s \in Seq(DOMAIN g), DOMAIN g \subseteq ToSet(s), Backward(g, s)
  PROVE  ~Cyclic(g)
<1> SUFFICES ASSUME NEW S \in SUBSET DOMAIN g, S # {}, \A x \in S : \E y \in S : Leads(g, x, y)
             PROVE  FALSE
  BY DEF Cyclic
<1> DEFINE T == {k \in 1..Len(s) : s[k] \in S}
<1>1. Len(s) \in Nat /\ DOMAIN s = 1..Len(s)
  OBVIOUS
<1>2. T \in SUBSET Nat /\ T # {}
  <2>1. PICK x \in S : TRUE
    OBVIOUS
  <2>2. PICK k \in 1..Len(s) : s[k] = x
    BY <1>1, <2>1 DEF ToSet
  <2> QED
    BY <1>1, <2>1, <2>2
<1>3. PICK k \in T : \A l \in T : k <= l
  BY <1>2, LeastNumber
<1>4. PICK y \in S : Leads(g, s[k], y)
  BY <1>3
<1>5. PICK e \in DOMAIN g[s[k]] : g[s[k]][e].to = y
  BY <1>4 DEF Leads
<1>6. PICK l \in 1..(k - 1) : s[l] = y
  BY <1>1, <1>3, <1>5 DEF Backward
<1>7. l \in T /\ ~(k <= l)
  BY <1>1, <1>3, <1>4, <1>6
<1> QED
  BY <1>3, <1>7

\* The cycle, its top first.
LEMMA CycleListed ==
  ASSUME NEW g, NEW st \in Searches(DOMAIN g), Found(g, st), st.calls = <<>>,
         NEW nodes, nodes = Reverse(st.cycle)
  PROVE  /\ Cyclic(g) /\ nodes # <<>> /\ IsPath(g, nodes)
         /\ \E i \in DOMAIN nodes : Leads(g, Last(nodes), nodes[i])
<1> DEFINE s == st.cycle
           n == Len(s)
<1>1. s \in Seq(DOMAIN g) /\ s # <<>> /\ n \in Nat /\ n >= 1 /\ DOMAIN s = 1..n
  BY SearchIs DEF Found
<1>2. \A k \in 1..(n - 1) : Leads(g, s[k + 1], s[k])
  BY DEF Found
<1>3. PICK z \in ToSet(s) : Leads(g, s[1], z)
  BY DEF Found, CalledNodes
<1>4. PICK m \in 1..n : s[m] = z
  BY <1>1, <1>3 DEF ToSet
<1>5. nodes = [i \in 1..n |-> s[(n - i) + 1]]
  BY DEF Reverse
<1> HIDE DEF s, n
<1>6. Len(nodes) = n /\ DOMAIN nodes = 1..n /\ nodes # <<>> /\ \A i \in 1..n : nodes[i] = s[(n - i) + 1]
  BY <1>1, <1>5
<1>7. Cyclic(g)
  <2> DEFINE S == {s[k] : k \in 1..m}
  <2>1. 1..m \subseteq 1..n /\ 1 \in 1..m /\ m \in 1..m
    BY <1>1, <1>4
  <2>2. S \in SUBSET DOMAIN g /\ S # {}
    BY <1>1, <2>1
  <2>3. ASSUME NEW k \in 1..m PROVE \E y \in S : Leads(g, s[k], y)
    <3>1. CASE k = 1
      BY <1>3, <1>4, <2>1, <3>1
    <3>2. CASE k # 1
      <4>1. k - 1 \in 1..(n - 1) /\ k - 1 \in 1..m /\ (k - 1) + 1 = k
        BY <1>1, <1>4, <3>2
      <4>2. Leads(g, s[k], s[k - 1])
        BY <1>2, <4>1
      <4> QED
        BY <4>1, <4>2
    <3> QED
      BY <3>1, <3>2
  <2> QED
    BY <2>2, <2>3 DEF Cyclic
<1>8. IsPath(g, nodes)
  <2> SUFFICES ASSUME NEW i \in 1..(n - 1) PROVE Leads(g, nodes[i], nodes[i + 1])
    BY <1>6 DEF IsPath
  <2>1. i \in 1..n /\ i + 1 \in 1..n /\ n - i \in 1..(n - 1) /\ (n - (i + 1)) + 1 = n - i
    BY <1>1
  <2>2. nodes[i] = s[(n - i) + 1] /\ nodes[i + 1] = s[n - i]
    BY <1>6, <2>1
  <2> QED
    BY <1>2, <2>1, <2>2
<1>9. \E i \in DOMAIN nodes : Leads(g, Last(nodes), nodes[i])
  <2>1. n \in 1..n /\ (n - n) + 1 = 1 /\ (n - m) + 1 \in 1..n /\ (n - ((n - m) + 1)) + 1 = m
    BY <1>1, <1>4
  <2>2. Last(nodes) = s[1]
    BY <1>6, <2>1 DEF Last
  <2>3. nodes[(n - m) + 1] = z
    BY <1>4, <1>6, <2>1
  <2> QED
    BY <1>3, <1>6, <2>1, <2>2, <2>3
<1> QED
  BY <1>6, <1>7, <1>8, <1>9

----------------------------------------------------------------------------
(* The distances *)

LEMMA FarAwayIs == FarAway \in Nat /\ FarAway > 0
BY DEF FarAway

LEMMA RelaxKeeps ==
  ASSUME NEW g, IsGraph(g), NEW source \in DOMAIN g, NEW s \in Seq(DOMAIN g), s # <<>>, Distinct(s), Backward(g, s),
         NEW r, Distances(r), IsTree(g, source, r, s), AllTight(g, r.d, s), SomeTight(g, r, s),
         NEW x, x = Last(s), r.i <= Len(g[x]),
         NEW q, q = [Relaxed(r, x, g[x][r.i]) EXCEPT !.i = @ + 1]
  PROVE  /\ Distances(q) /\ q.at = r.at
         /\ IsTree(g, source, q, s) /\ AllTight(g, q.d, s) /\ SomeTight(g, q, s)
<1> DEFINE N == DOMAIN g
           m == Len(s)
           e == g[x][r.i]
           y == e.to
           new == r.d[x] + e.cost
<1>1. m \in Nat /\ m >= 1 /\ DOMAIN s = 1..m /\ x = s[m] /\ x \in N /\ \A k \in 1..m : s[k] \in N
  BY DEF Last
<1>2. r.i \in Nat /\ r.i >= 1 /\ r.i \in 1..Len(g[x]) /\ DOMAIN g[x] = 1..Len(g[x]) /\ Len(g[x]) \in Nat
  BY <1>1, EdgeIs DEF Distances
<1>3. y \in N /\ e.cost \in Nat
  BY <1>1, <1>2, EdgeIs
<1>4. y \in ToRelax(s) /\ y \in ToSet(s)
  <2>1. PICK l \in 1..(m - 1) : s[l] = y
    BY <1>1, <1>2 DEF Backward
  <2>2. l \in 1..m
    BY <1>1
  <2> QED
    BY <1>1, <2>1, <2>2 DEF ToRelax, ToSet
<1>5. x \notin ToRelax(s)
  BY <1>1 DEF Distinct, ToRelax
<1>6. x # y
  BY <1>4, <1>5
<1>7. /\ r.d \in [N -> 0..FarAway] /\ r.p \in [N -> N \cup {-1}]
      /\ r.d[source] = 0 /\ r.p[source] = -1
  BY DEF IsTree
<1>8. \A z \in N : r.d[z] \in Int /\ 0 <= r.d[z] /\ r.d[z] <= FarAway
  BY <1>7, FarAwayIs
<1>9. r = [d |-> r.d, p |-> r.p, i |-> r.i, at |-> r.at]
  BY DEF Distances
<1>10. SomeTight(g, r, s) /\ \A f \in 1..(r.i - 1) : Tight(g, r.d, x, f)
  BY <1>1 DEF SomeTight
<1>13. /\ g[x][r.i].to = y /\ g[x][r.i].cost = e.cost /\ new = r.d[x] + e.cost
       /\ new \in Int /\ new >= r.d[x] /\ r.d[x] >= 0 /\ r.d[x] \in Int /\ r.d[y] \in Int /\ e.cost \in Nat
  <2>1. r.d[x] \in Int /\ 0 <= r.d[x] /\ r.d[y] \in Int
    BY <1>1, <1>3, <1>8
  <2> QED
    BY <1>3, <2>1
<1> HIDE DEF m, new, y, e
<1>11. CASE r.d[y] > new
  <2> DEFINE d == [r.d EXCEPT ![y] = new]
             p == [r.p EXCEPT ![y] = x]
  <2>1. q = [d |-> d, p |-> p, i |-> r.i + 1, at |-> r.at]
    <3>1. Relaxed(r, x, e) = [r EXCEPT !.d[y] = new, !.p[y] = x]
      BY <1>11, Zenon DEF Relaxed, new, y, e
    <3> DEFINE u == [r EXCEPT !.d[y] = new]
               v == [u EXCEPT !.p[y] = x]
    <3>2. u = [d |-> d, p |-> r.p, i |-> r.i, at |-> r.at]
      <4>1. u = [r EXCEPT !.d = d]
        BY <1>9
      <4> HIDE DEF u, d
      <4> QED
        BY <1>9, <4>1
    <3> HIDE DEF u, d
    <3>3. v = [d |-> d, p |-> p, i |-> r.i, at |-> r.at]
      <4>1. v = [u EXCEPT !.p = p]
        BY <3>2
      <4> HIDE DEF v, p
      <4> QED
        BY <3>2, <4>1
    <3> HIDE DEF v, p
    <3>4. [v EXCEPT !.i = @ + 1] = [d |-> d, p |-> p, i |-> r.i + 1, at |-> r.at]
      BY <3>3
    <3>5. Relaxed(r, x, e) = v
      BY <3>1 DEF u, v
    <3>6. q = [Relaxed(r, x, e) EXCEPT !.i = @ + 1]
      BY DEF e
    <3> DEFINE w == Relaxed(r, x, e)
    <3> HIDE DEF w
    <3>7. q = [w EXCEPT !.i = @ + 1] /\ w = v
      BY <3>5, <3>6 DEF w
    <3> QED
      BY <3>4, <3>7
  <2>2. new \in 0..FarAway /\ new < r.d[y] /\ new \in Int
    BY <1>3, <1>8, <1>11, <1>13, FarAwayIs
  <2>3. y # source
    BY <1>7, <1>11, <2>2
  <2>4. d \in [N -> 0..FarAway] /\ p \in [N -> N \cup {-1}]
    BY <1>1, <1>3, <1>7, <2>2
  <2>5. /\ \A z \in N : d[z] <= r.d[z] /\ d[z] \in Int
        /\ \A z \in N : z # y => d[z] = r.d[z] /\ p[z] = r.p[z]
        /\ d[y] = new /\ p[y] = x
    BY <1>3, <1>7, <1>8, <2>2
  <2> HIDE DEF d, p
  <2>6. q.d = d /\ q.p = p /\ q.i = r.i + 1 /\ q.at = r.at
    BY <2>1
  <2>7. Distances(q)
    BY <1>2, <2>1, <2>6 DEF Distances
  <2>8. ASSUME NEW z \in N, p[z] = -1 PROVE z = source \/ d[z] = FarAway
    <3>1. z # y
      <4>1. x # -1
        BY <1>1 DEF IsGraph
      <4> QED
        BY <2>5, <2>8, <4>1
    <3> QED
      BY <2>5, <2>8, <3>1 DEF IsTree
  <2>9. ASSUME NEW z \in N, p[z] # -1 PROVE p[z] \notin ToRelax(s) /\ d[z] < FarAway /\ Along(g, d, p[z], z)
    <3>1. CASE z = y
      <4>1. d[y] = d[x] + g[x][r.i].cost /\ d[y] < FarAway
        BY <1>1, <1>3, <1>6, <1>8, <1>13, <2>2, <2>5, FarAwayIs
      <4> QED
        BY <1>2, <1>5, <1>13, <2>5, <3>1, <4>1 DEF Along
    <3>2. CASE z # y
      <4>1. p[z] = r.p[z] /\ d[z] = r.d[z] /\ r.p[z] \in N
        BY <1>7, <2>5, <2>9, <3>2
      <4>2. r.p[z] \notin ToRelax(s) /\ r.d[z] < FarAway /\ Along(g, r.d, r.p[z], z)
        BY <2>9, <4>1 DEF IsTree
      <4>3. d[p[z]] = r.d[p[z]]
        BY <1>4, <2>5, <4>1, <4>2
      <4> QED
        BY <4>1, <4>2, <4>3 DEF Along
    <3> QED
      BY <3>1, <3>2
  <2>10. d[source] = 0 /\ p[source] = -1
    BY <1>7, <2>3, <2>5
  <2>11. IsTree(g, source, q, s)
    BY <2>4, <2>6, <2>8, <2>9, <2>10 DEF IsTree
  <2>12. AllTight(g, q.d, s)
    <3> SUFFICES ASSUME NEW w \in N \ ToSet(s), NEW f \in DOMAIN g[w] PROVE d[g[w][f].to] <= d[w] + g[w][f].cost
      BY <2>6 DEF AllTight, Tight
    <3>1. g[w][f].to \in N /\ g[w][f].cost \in Nat
      BY EdgeIs
    <3>2. r.d[g[w][f].to] <= r.d[w] + g[w][f].cost
      BY DEF AllTight, Tight
    <3>3. d[w] = r.d[w]
      BY <1>4, <2>5
    <3> QED
      BY <1>8, <2>5, <3>1, <3>2, <3>3
  <2>13. ASSUME NEW f \in 1..r.i PROVE Tight(g, d, x, f)
    <3>1. f \in 1..Len(g[x]) /\ g[x][f].to \in N /\ g[x][f].cost \in Nat
      <4>1. f \in 1..Len(g[x])
        BY <1>2
      <4> QED
        BY <1>1, <4>1, EdgeIs
    <3>2. d[x] = r.d[x]
      BY <1>1, <1>6, <2>5
    <3>3. CASE f = r.i
      <4>1. d[g[x][r.i].to] <= d[x] + g[x][r.i].cost
        BY <1>13, <2>5, <3>2
      <4> QED
        BY <3>3, <4>1 DEF Tight
    <3>4. CASE f # r.i
      <4>1. f \in 1..(r.i - 1)
        BY <1>2, <3>4
      <4>2. r.d[g[x][f].to] <= r.d[x] + g[x][f].cost
        BY <1>10, <4>1 DEF Tight
      <4>3. /\ d[g[x][f].to] <= r.d[g[x][f].to] /\ d[g[x][f].to] \in Int /\ r.d[g[x][f].to] \in Int
            /\ r.d[x] \in Int
        BY <1>1, <1>8, <2>5, <3>1
      <4>4. d[g[x][f].to] <= d[x] + g[x][f].cost
        BY <3>1, <3>2, <4>2, <4>3
      <4> QED
        BY <4>4 DEF Tight
    <3> QED
      BY <3>3, <3>4
  <2>14. SomeTight(g, q, s)
    <3>1. (r.i + 1) - 1 = r.i /\ r.i + 1 <= Len(g[x]) + 1
      BY <1>2
    <3> QED
      BY <1>1, <2>6, <2>13, <3>1 DEF SomeTight, m
  <2> QED
    BY <2>6, <2>7, <2>11, <2>12, <2>14
<1>12. CASE ~(r.d[y] > new)
  <2>1. q = [d |-> r.d, p |-> r.p, i |-> r.i + 1, at |-> r.at]
    <3>1. Relaxed(r, x, e) = r
      BY <1>12, Zenon DEF Relaxed, new, y, e
    <3>2. [r EXCEPT !.i = @ + 1] = [d |-> r.d, p |-> r.p, i |-> r.i + 1, at |-> r.at]
      BY <1>9
    <3>3. q = [Relaxed(r, x, e) EXCEPT !.i = @ + 1]
      BY DEF e
    <3> DEFINE w == Relaxed(r, x, e)
    <3> HIDE DEF w
    <3>4. q = [w EXCEPT !.i = @ + 1] /\ w = r
      BY <3>1, <3>3 DEF w
    <3> QED
      BY <3>2, <3>4
  <2>2. q.d = r.d /\ q.p = r.p /\ q.i = r.i + 1 /\ q.at = r.at
    BY <2>1
  <2>3. Distances(q)
    BY <1>2, <2>1, <2>2 DEF Distances
  <2>4. IsTree(g, source, q, s) /\ AllTight(g, q.d, s)
    BY <2>2 DEF IsTree
  <2>5. ASSUME NEW f \in 1..r.i PROVE Tight(g, r.d, x, f)
    <3>1. CASE f = r.i
      BY <1>12, <1>13, <3>1 DEF Tight
    <3>2. CASE f # r.i
      <4>1. f \in 1..(r.i - 1)
        BY <1>2, <3>2
      <4> QED
        BY <1>10, <4>1
    <3> QED
      BY <3>1, <3>2
  <2>6. SomeTight(g, q, s)
    <3>1. (r.i + 1) - 1 = r.i /\ r.i + 1 <= Len(g[x]) + 1
      BY <1>2
    <3> QED
      BY <1>1, <2>2, <2>5, <3>1 DEF SomeTight, m
  <2> QED
    BY <2>2, <2>3, <2>4, <2>6
<1> QED
  BY <1>11, <1>12

\* The node on top is done with, and the next one begun.
LEMMA PopKeeps ==
  ASSUME NEW g, IsGraph(g), NEW source \in DOMAIN g, NEW s \in Seq(DOMAIN g), s # <<>>, Distinct(s), Backward(g, s),
         NEW r, Distances(r), IsTree(g, source, r, s), AllTight(g, r.d, s), SomeTight(g, r, s),
         ~(r.i <= Len(g[Last(s)]))
  PROVE  /\ Front(s) \in Seq(DOMAIN g) /\ Distinct(Front(s)) /\ Backward(g, Front(s))
         /\ Distances([r EXCEPT !.i = 1]) /\ IsTree(g, source, [r EXCEPT !.i = 1], Front(s))
         /\ AllTight(g, [r EXCEPT !.i = 1].d, Front(s)) /\ SomeTight(g, [r EXCEPT !.i = 1], Front(s))
<1> DEFINE N == DOMAIN g
           m == Len(s)
           f == Front(s)
           x == Last(s)
           q == [r EXCEPT !.i = 1]
<1>1. /\ f \in Seq(N) /\ Len(f) = m - 1 /\ m \in Nat /\ m >= 1
      /\ \A k \in 1..(m - 1) : f[k] = s[k]
      /\ x = s[m] /\ x \in N
  BY FrontIs
<1>2. DOMAIN s = 1..m /\ DOMAIN f = 1..(m - 1) /\ 1..(m - 1) \subseteq 1..m /\ \A k \in 1..m : k \in 1..(m - 1) \/ k = m
  <2>1. DOMAIN s = 1..m
    OBVIOUS
  <2>2. DOMAIN f = 1..Len(f)
    BY <1>1
  <2> HIDE DEF f, m
  <2> QED
    BY <1>1, <2>1, <2>2
<1>3. q = [d |-> r.d, p |-> r.p, i |-> 1, at |-> r.at]
  BY DEF Distances
<1> HIDE DEF f, m, x, q
<1>4. q.d = r.d /\ q.p = r.p /\ q.i = 1 /\ q.at = r.at
  BY <1>3
<1>5. Distinct(f)
  BY <1>1, <1>2 DEF Distinct
<1>6. Backward(g, f)
  <2> SUFFICES ASSUME NEW k \in 1..(m - 1), NEW e \in DOMAIN g[f[k]]
               PROVE  \E l \in 1..(k - 1) : f[l] = g[f[k]][e].to
    BY <1>2, Zenon DEF Backward
  <2>1. k \in 1..m /\ f[k] = s[k]
    BY <1>1, <1>2
  <2>2. PICK l \in 1..(k - 1) : s[l] = g[s[k]][e].to
    BY <1>2, <2>1 DEF Backward
  <2>3. l \in 1..(m - 1)
    BY <1>1
  <2> QED
    BY <1>1, <2>1, <2>2, <2>3
<1>7. Distances(q)
  BY <1>3, <1>4 DEF Distances
<1>8. ToRelax(f) \subseteq ToRelax(s)
  <2>1. Len(f) - 1 = m - 2 /\ 1..(m - 2) \subseteq 1..(m - 1)
    BY <1>1
  <2> QED
    BY <1>1, <2>1 DEF ToRelax, m
<1>9. IsTree(g, source, q, f)
  BY <1>4, <1>8 DEF IsTree
<1>10. \A e \in DOMAIN g[x] : Tight(g, r.d, x, e)
  <2>1. Len(g[x]) \in Nat /\ DOMAIN g[x] = 1..Len(g[x])
    BY <1>1, EdgeIs
  <2>2. r.i <= Len(g[x]) + 1 /\ \A e \in 1..(r.i - 1) : Tight(g, r.d, x, e)
    BY <1>1 DEF SomeTight, m
  <2>3. r.i \in Nat /\ ~(r.i <= Len(g[x]))
    BY DEF Distances, x
  <2>4. r.i - 1 = Len(g[x])
    BY <2>1, <2>2, <2>3
  <2> QED
    BY <2>1, <2>2, <2>4
<1>11. \A w \in N \ ToSet(f) : w \in N \ ToSet(s) \/ w = x
  BY <1>1, <1>2 DEF ToSet
<1>12. AllTight(g, r.d, f)
  BY <1>10, <1>11 DEF AllTight
<1>13. SomeTight(g, q, f)
  <2> SUFFICES ASSUME f # <<>> PROVE 1 <= Len(g[f[Len(f)]]) + 1 /\ \A e \in 1..(1 - 1) : Tight(g, r.d, f[Len(f)], e)
    BY <1>4 DEF SomeTight
  <2>1. f[Len(f)] \in N
    BY <1>1
  <2>2. Len(g[f[Len(f)]]) \in Nat
    BY <2>1, EdgeIs
  <2> QED
    BY <2>2
<1> QED
  BY <1>1, <1>4, <1>5, <1>6, <1>7, <1>9, <1>12, <1>13 DEF f, q

\* At first only the source has a distance.
LEMMA StartIs ==
  ASSUME NEW g, IsGraph(g), NEW source \in DOMAIN g, NEW s \in Seq(DOMAIN g), DOMAIN g \subseteq ToSet(s),
         NEW d, d = [x \in DOMAIN g |-> IF x = source THEN 0 ELSE FarAway],
         NEW p, p = [x \in DOMAIN g |-> -1],
         NEW r, r = [d |-> d, p |-> p, i |-> 1, at |-> -1]
  PROVE  /\ Distances(r) /\ IsTree(g, source, r, s) /\ AllTight(g, r.d, s) /\ SomeTight(g, r, s)
<1> DEFINE N == DOMAIN g
<1>2. d \in [N -> 0..FarAway] /\ d[source] = 0 /\ \A y \in N : y # source => d[y] = FarAway
  BY FarAwayIs
<1>3. p \in [N -> N \cup {-1}] /\ \A y \in N : p[y] = -1
  OBVIOUS
<1>4. r.d = d /\ r.p = p /\ r.i = 1
  OBVIOUS
<1>5. Distances(r)
  BY <1>4 DEF Distances
<1>6. IsTree(g, source, r, s)
  BY <1>2, <1>3, <1>4 DEF IsTree
<1>7. AllTight(g, r.d, s)
  BY DEF AllTight
<1>8. SomeTight(g, r, s)
  <2> SUFFICES ASSUME s # <<>> PROVE 1 <= Len(g[s[Len(s)]]) + 1 /\ \A e \in 1..(1 - 1) : Tight(g, r.d, s[Len(s)], e)
    BY <1>4 DEF SomeTight
  <2>1. s[Len(s)] \in N
    OBVIOUS
  <2>2. Len(g[s[Len(s)]]) \in Nat
    BY <2>1, EdgeIs
  <2> QED
    BY <2>2
<1> QED
  BY <1>5, <1>6, <1>7, <1>8

\* The costs of the paths are the values of a recursive function.
CostsRun(f, g, source, m) ==
  f = [k \in 0..m |-> IF k = 0 THEN NoEdge(g, source) ELSE OneEdgeMore(g, f[k - 1])]
LEMMA CostsExist ==
  ASSUME NEW n \in Nat, NEW g, NEW source
  PROVE  \E f : CostsRun(f, g, source, n)
<1> DEFINE S == {m \in Nat : \E f : CostsRun(f, g, source, m)}
<1>1. 0 \in S
  <2> DEFINE f == [k \in 0..0 |-> NoEdge(g, source)]
             h == [k \in 0..0 |-> IF k = 0 THEN NoEdge(g, source) ELSE OneEdgeMore(g, f[k - 1])]
  <2>1. \A k \in 0..0 : k = 0
    OBVIOUS
  <2>2. f = h
    BY <2>1, Zenon
  <2>3. CostsRun(f, g, source, 0)
    BY <2>2, Zenon DEF CostsRun
  <2> QED
    BY <2>3
<1>2. ASSUME NEW m \in Nat, m \in S PROVE m + 1 \in S
  <2>1. PICK f : CostsRun(f, g, source, m)
    BY <1>2
  <2> DEFINE h == [k \in 0..(m + 1) |-> IF k = 0 THEN NoEdge(g, source) ELSE OneEdgeMore(g, f[k - 1])]
  <2>2. ASSUME NEW k \in 0..(m + 1), k # 0 PROVE k - 1 \in 0..m /\ k - 1 \in 0..(m + 1)
    BY <2>2
  <2>3. ASSUME NEW k \in 0..m PROVE h[k] = f[k]
    <3>1. k \in 0..(m + 1)
      OBVIOUS
    <3> QED
      BY <2>1, <3>1, Zenon DEF CostsRun
  <2>4. \A k \in 0..(m + 1) : h[k] = IF k = 0 THEN NoEdge(g, source) ELSE OneEdgeMore(g, f[k - 1])
    BY Zenon
  <2>5. h = [k \in 0..(m + 1) |-> h[k]]
    OBVIOUS
  <2> HIDE DEF h
  <2>6. ASSUME NEW k \in 0..(m + 1) PROVE h[k] = IF k = 0 THEN NoEdge(g, source) ELSE OneEdgeMore(g, h[k - 1])
    <3>1. CASE k = 0
      BY <2>4, <3>1, Zenon
    <3>2. CASE k # 0
      <4>1. h[k - 1] = f[k - 1]
        BY <2>2, <2>3, <3>2, Zenon
      <4> QED
        BY <2>4, <3>2, <4>1, Zenon
    <3> QED
      BY <3>1, <3>2, Zenon
  <2>7. CostsRun(h, g, source, m + 1)
    BY <2>5, <2>6, Zenon DEF CostsRun
  <2>8. m + 1 \in Nat
    OBVIOUS
  <2> QED
    BY <2>7, <2>8, Zenon
<1>3. n \in S
  <2> HIDE DEF S
  <2> QED
    BY <1>1, <1>2, NumbersFrom, Zenon
<1> QED
  BY <1>3, Zenon

\* When every edge is relaxed no path is shorter than the distance.
AtLeast(c, d, N) == \A y \in N : \A x \in c[y] : x \in Nat /\ d[y] <= x
LEMMA MoreAtLeast ==
  ASSUME NEW g, IsGraph(g), NEW d \in [DOMAIN g -> Nat], \A x \in DOMAIN g : \A e \in DOMAIN g[x] : Tight(g, d, x, e),
         NEW c, AtLeast(c, d, DOMAIN g)
  PROVE  AtLeast(OneEdgeMore(g, c), d, DOMAIN g)
<1> SUFFICES ASSUME NEW y \in DOMAIN g, NEW v \in OneEdgeMore(g, c)[y] PROVE v \in Nat /\ d[y] <= v
  BY DEF AtLeast
<1>1. OneEdgeMore(g, c)[y]
        = c[y] \cup UNION {LastEdge(g, c, x, y) : x \in DOMAIN g}
  BY Zenon DEF OneEdgeMore
<1>2. CASE v \in c[y]
  BY <1>2 DEF AtLeast
<1>3. CASE v \notin c[y]
  <2>1. PICK x \in DOMAIN g : v \in LastEdge(g, c, x, y)
    BY <1>1, <1>3
  <2>2. PICK k \in c[x] : \E e \in {f \in ToSet(g[x]) : f.to = y} : v = k + e.cost
    BY <2>1 DEF LastEdge
  <2>3. PICK e \in {f \in ToSet(g[x]) : f.to = y} : v = k + e.cost
    BY <2>2
  <2>4. PICK i \in DOMAIN g[x] : g[x][i] = e
    BY <2>3 DEF ToSet
  <2>5. e.to = y /\ e.cost \in Nat
    BY <2>3, <2>4, EdgeIs
  <2>6. d[y] <= d[x] + e.cost
    BY <2>4, <2>5 DEF Tight
  <2>7. k \in Nat /\ d[x] <= k /\ d[x] \in Nat /\ d[y] \in Nat
    BY DEF AtLeast
  <2> QED
    BY <2>3, <2>5, <2>6, <2>7
<1> QED
  BY <1>2, <1>3

LEMMA NoPathBelow ==
  ASSUME NEW g, IsGraph(g), Cardinality(DOMAIN g) \in Nat, NEW source \in DOMAIN g,
         NEW d \in [DOMAIN g -> Nat], d[source] = 0, \A x \in DOMAIN g : \A e \in DOMAIN g[x] : Tight(g, d, x, e),
         NEW y \in DOMAIN g, NEW c \in PathCosts(g, source)[y]
  PROVE  c \in Nat /\ d[y] <= c
<1> DEFINE n == Cardinality(DOMAIN g)
           f == CHOOSE h : CostsRun(h, g, source, n)
<1>1. CostsRun(f, g, source, n)
  BY CostsExist, Zenon
<1>2. PathCosts(g, source) = f[n]
  BY Zenon DEF PathCosts, CostsRun
<1> HIDE DEF f
<1> DEFINE S == {k \in Nat : k <= n => AtLeast(f[k], d, DOMAIN g)}
<1>3. \A k \in 0..n : f[k] = IF k = 0 THEN NoEdge(g, source) ELSE OneEdgeMore(g, f[k - 1])
  BY <1>1, Zenon DEF CostsRun
<1> HIDE DEF n
<1>4. n \in Nat
  BY DEF n
<1>5. 0 \in S
  <2>1. f[0] = NoEdge(g, source)
    BY <1>3, <1>4
  <2>2. AtLeast(NoEdge(g, source), d, DOMAIN g)
    <3> SUFFICES ASSUME NEW z \in DOMAIN g, NEW x \in NoEdge(g, source)[z] PROVE x \in Nat /\ d[z] <= x
      BY DEF AtLeast
    <3>1. NoEdge(g, source)[z] = IF z = source THEN {0} ELSE {}
      BY DEF NoEdge
    <3> QED
      BY <3>1
  <2> QED
    BY <2>1, <2>2
<1>6. ASSUME NEW k \in Nat, k \in S PROVE k + 1 \in S
  <2> SUFFICES ASSUME k + 1 <= n PROVE AtLeast(f[k + 1], d, DOMAIN g)
    OBVIOUS
  <2>1. k <= n /\ k + 1 \in 0..n /\ k + 1 # 0 /\ (k + 1) - 1 = k
    BY <1>4
  <2>2. AtLeast(f[k], d, DOMAIN g)
    BY <1>6, <2>1
  <2>3. f[k + 1] = OneEdgeMore(g, f[k])
    BY <1>3, <2>1
  <2> QED
    BY <2>2, <2>3, MoreAtLeast
<1>7. n \in S
  <2> HIDE DEF S
  <2> QED
    BY <1>4, <1>5, <1>6, NumbersFrom, Zenon
<1>8. AtLeast(f[n], d, DOMAIN g)
  BY <1>4, <1>7
<1> QED
  BY <1>2, <1>8 DEF AtLeast

\* One more node in front of the path that is traced.
LEMMA TraceKeeps ==
  ASSUME NEW g, IsGraph(g), NEW source \in DOMAIN g, NEW dest \in DOMAIN g,
         NEW r, IsTree(g, source, r, <<>>), NEW nodes, Traced(g, dest, r, nodes), r.at # -1,
         NEW q, q.d = r.d, q.p = r.p, q.at = r.p[r.at]
  PROVE  Traced(g, dest, q, <<r.at>> \o nodes)
<1> DEFINE N == DOMAIN g
           a == r.at
           more == <<a>> \o nodes
           n == Len(nodes)
<1>1. nodes \in Seq(N) /\ a \in N /\ n \in Nat /\ DOMAIN nodes = 1..n /\ (nodes = <<>> <=> n = 0)
  BY DEF Traced
<1>2. \A z \in N : r.d[z] \in Int /\ r.p[z] \in N \cup {-1}
  BY FarAwayIs DEF IsTree
<1>3. /\ nodes = <<>> => r.d[dest] < FarAway /\ a = dest
      /\ nodes # <<>> => /\ nodes[n] = dest /\ r.d[dest] < FarAway /\ a = r.p[nodes[1]]
                         /\ \A k \in 1..n : r.d[nodes[k]] <= r.d[dest]
                         /\ \A k \in 1..(n - 1) : Along(g, r.d, nodes[k], nodes[k + 1])
  BY <1>1 DEF Traced
<1> HIDE DEF a
<1>4. /\ more \in Seq(N) /\ Len(more) = n + 1 /\ DOMAIN more = 1..(n + 1) /\ more # <<>>
      /\ more[1] = a /\ \A k \in 2..(n + 1) : more[k] = nodes[k - 1]
  <2>1. /\ more \in Seq(N) /\ Len(more) = n + 1
        /\ more[1] = a /\ \A k \in 2..(n + 1) : more[k] = nodes[k - 1]
    BY <1>1
  <2> HIDE DEF more, n
  <2> QED
    BY <1>1, <2>1
<1> HIDE DEF more, n
<1>5. more[n + 1] = dest /\ r.d[dest] < FarAway
  <2>1. CASE nodes = <<>>
    BY <1>1, <1>3, <1>4, <2>1
  <2>2. CASE nodes # <<>>
    <3>1. n + 1 \in 2..(n + 1) /\ (n + 1) - 1 = n
      BY <1>1, <2>2
    <3> QED
      BY <1>3, <1>4, <2>2, <3>1
  <2> QED
    BY <2>1, <2>2
<1>6. nodes # <<>> => /\ nodes[1] \in N /\ r.d[a] <= r.d[nodes[1]] /\ Along(g, r.d, a, nodes[1])
                      /\ r.d[nodes[1]] <= r.d[dest]
  <2> SUFFICES ASSUME nodes # <<>> PROVE /\ nodes[1] \in N /\ r.d[a] <= r.d[nodes[1]] /\ Along(g, r.d, a, nodes[1])
                                         /\ r.d[nodes[1]] <= r.d[dest]
    OBVIOUS
  <2>1. 1 \in 1..n /\ nodes[1] \in N
    BY <1>1
  <2>2. a # -1
    BY DEF a
  <2>3. Along(g, r.d, a, nodes[1])
    BY <1>3, <2>1, <2>2 DEF IsTree
  <2>4. PICK e \in DOMAIN g[a] : r.d[nodes[1]] = r.d[a] + g[a][e].cost
    BY <2>3 DEF Along
  <2>5. g[a][e].cost \in Nat
    BY <1>1, EdgeIs
  <2>6. r.d[a] \in Int
    BY <1>1, <1>2
  <2> QED
    BY <1>3, <2>1, <2>3, <2>4, <2>5, <2>6
<1>7. ASSUME NEW k \in 1..(n + 1) PROVE r.d[more[k]] <= r.d[dest]
  <2>1. CASE k # 1
    <3>1. k \in 2..(n + 1) /\ k - 1 \in 1..n
      BY <1>1, <2>1
    <3> QED
      BY <1>1, <1>3, <1>4, <3>1
  <2>2. CASE k = 1
    <3>1. r.d[a] <= r.d[dest]
      <4>1. CASE nodes = <<>>
        BY <1>2, <1>3, <4>1
      <4>2. CASE nodes # <<>>
        BY <1>1, <1>2, <1>6, <4>2
      <4> QED
        BY <4>1, <4>2
    <3> QED
      BY <1>4, <2>2, <3>1
  <2> QED
    BY <2>1, <2>2
<1>8. ASSUME NEW k \in 1..n PROVE Along(g, r.d, more[k], more[k + 1])
  <2>1. nodes # <<>> /\ k + 1 \in 2..(n + 1) /\ (k + 1) - 1 = k
    BY <1>1
  <2>2. CASE k = 1
    BY <1>4, <1>6, <2>1, <2>2
  <2>3. CASE k # 1
    <3>1. k \in 2..(n + 1) /\ k - 1 \in 1..(n - 1) /\ (k - 1) + 1 = k
      BY <1>1, <2>3
    <3> QED
      BY <1>3, <1>4, <2>1, <3>1
  <2> QED
    BY <2>2, <2>3
<1>9. q.at \in N \cup {-1} /\ q.at = q.p[more[1]] /\ Len(more) - 1 = n
  BY <1>1, <1>2, <1>4 DEF a
<1>10. Traced(g, dest, q, more)
  BY <1>4, <1>5, <1>7, <1>8, <1>9 DEF Traced
<1> QED
  BY <1>10 DEF more, a

\* What is traced to its end is a shortest path, if there is one.
Shortest(g, source, dest, nodes, total) ==
  /\ nodes # <<>> => /\ Head(nodes) = source /\ Last(nodes) = dest
                     /\ HasCost(g, nodes, total) /\ total < FarAway
                     /\ \A c \in PathCosts(g, source)[dest] : total <= c
  /\ nodes = <<>> => total = 0 /\ \A c \in PathCosts(g, source)[dest] : c >= FarAway
LEMMA AnswerIs ==
  ASSUME NEW g, IsGraph(g), Cardinality(DOMAIN g) \in Nat, NEW source \in DOMAIN g, NEW dest \in DOMAIN g,
         NEW r, IsTree(g, source, r, <<>>), AllTight(g, r.d, <<>>),
         NEW nodes, Traced(g, dest, r, nodes), r.at = -1,
         NEW total, total = IF r.d[dest] < FarAway THEN r.d[dest] ELSE 0
  PROVE  Shortest(g, source, dest, nodes, total)
<1> DEFINE N == DOMAIN g
           n == Len(nodes)
<1>1. /\ r.d \in [N -> 0..FarAway] /\ r.d[source] = 0 /\ dest # -1
      /\ \A y \in N : r.p[y] = -1 => y = source \/ r.d[y] = FarAway
  BY DEF IsTree, IsGraph
<1>2. r.d \in [N -> Nat] /\ \A z \in N : r.d[z] \in Nat
  BY <1>1, FarAwayIs
<1>3. \A x \in N : \A e \in DOMAIN g[x] : Tight(g, r.d, x, e)
  BY DEF AllTight, ToSet
<1>4. \A c \in PathCosts(g, source)[dest] : c \in Nat /\ r.d[dest] <= c
  BY <1>1, <1>2, <1>3, NoPathBelow
<1>5. CASE nodes = <<>>
  <2>1. ~(r.d[dest] < FarAway)
    BY <1>1, <1>5 DEF Traced
  <2> QED
    BY <1>2, <1>4, <1>5, <2>1, FarAwayIs DEF Shortest
<1>6. CASE nodes # <<>>
  <2>1. nodes \in Seq(N) /\ n \in Nat /\ n >= 1 /\ DOMAIN nodes = 1..n /\ 1 \in 1..n /\ n \in 1..n
    BY <1>6 DEF Traced
  <2>2. /\ nodes[n] = dest /\ r.d[dest] < FarAway /\ r.p[nodes[1]] = -1
        /\ \A k \in 1..n : r.d[nodes[k]] <= r.d[dest]
        /\ \A k \in 1..(n - 1) : Along(g, r.d, nodes[k], nodes[k + 1])
    BY <1>6, <2>1 DEF Traced
  <2>3. total = r.d[dest] /\ total < FarAway /\ total \in Nat
    BY <1>2, <2>2
  <2>4. \A k \in 1..n : nodes[k] \in N /\ r.d[nodes[k]] \in Nat
    BY <1>2, <2>1
  <2>5. nodes[1] = source
    <3>1. nodes[1] \in N /\ r.d[nodes[1]] \in Nat /\ r.d[nodes[1]] <= r.d[dest] /\ r.d[dest] \in Nat
      BY <1>2, <2>1, <2>2, <2>4
    <3>2. r.d[nodes[1]] # FarAway
      BY <2>2, <3>1, FarAwayIs
    <3> QED
      BY <1>1, <2>2, <3>1, <3>2
  <2>6. Head(nodes) = source /\ Last(nodes) = dest
    BY <2>1, <2>2, <2>5 DEF Last
  <2>7. HasCost(g, nodes, total)
    <3> DEFINE t == [k \in DOMAIN nodes |-> r.d[nodes[k]]]
    <3>1. t \in [DOMAIN nodes -> 0..total] /\ \A k \in 1..n : t[k] = r.d[nodes[k]]
      BY <2>1, <2>2, <2>3, <2>4
    <3>2. t[1] = 0 /\ t[n] = total
      BY <1>1, <2>1, <2>2, <2>3, <2>5, <3>1
    <3>3. ASSUME NEW k \in 1..(n - 1)
          PROVE  \E e \in ToSet(g[nodes[k]]) : e.to = nodes[k + 1] /\ t[k + 1] = t[k] + e.cost
      <4>1. k \in 1..n /\ k + 1 \in 1..n
        BY <2>1
      <4>2. PICK e \in DOMAIN g[nodes[k]] : /\ g[nodes[k]][e].to = nodes[k + 1]
                                            /\ r.d[nodes[k + 1]] = r.d[nodes[k]] + g[nodes[k]][e].cost
        BY <2>2 DEF Along
      <4>3. g[nodes[k]][e] \in ToSet(g[nodes[k]])
        BY DEF ToSet
      <4>4. t[k + 1] = t[k] + g[nodes[k]][e].cost
        BY <3>1, <4>1, <4>2
      <4> QED
        BY <4>2, <4>3, <4>4
    <3> HIDE DEF t
    <3> QED
      BY <3>1, <3>2, <3>3, Zenon DEF HasCost
  <2> QED
    BY <1>4, <1>6, <2>3, <2>6, <2>7 DEF Shortest
<1> QED
  BY <1>5, <1>6

----------------------------------------------------------------------------
(* The steps *)

LEMMA PathIs ==
  ASSUME PathTypeOK, path.op # "none"
  PROVE  /\ path = [op |-> path.op, g |-> path.g, source |-> path.source, dest |-> path.dest,
                    acyclic |-> path.acyclic, total |-> path.total, nodes |-> path.nodes]
         /\ path.acyclic \in BOOLEAN /\ path.total \in Nat
         /\ IsGraph(path.g) /\ path.source \in DOMAIN path.g /\ path.dest \in DOMAIN path.g
         /\ Cardinality(DOMAIN path.g) \in Nat /\ IsTest(path.g, path.source, path.dest)
<1>1. path \in Cases /\ IsTest(path.g, path.source, path.dest)
  BY DEF PathTypeOK
<1>2. IsGraph(path.g) /\ path.source \in DOMAIN path.g /\ path.dest \in DOMAIN path.g /\ Cardinality(DOMAIN path.g) \in Nat
  BY <1>1, GraphIs
<1>3. /\ path = [op |-> path.op, g |-> path.g, source |-> path.source, dest |-> path.dest,
                 acyclic |-> path.acyclic, total |-> path.total, nodes |-> path.nodes]
      /\ path.acyclic \in BOOLEAN /\ path.total \in Nat
  BY <1>1 DEF Cases
<1> QED
  BY <1>1, <1>2, <1>3, Zenon

LEMMA StillSearching ==
  ASSUME DagPathInv, path.op = "search", UNCHANGED <<path, shortest>>,
         search' \in Searches(DOMAIN path.g), Unfound(path.g, search') \/ Found(path.g, search')
  PROVE  DagPathInv'
<1>1. PathTypeOK' /\ AtFirst' /\ PathFound' /\ WhileRelaxing' /\ WhileTracing'
  BY DEF DagPathInv, PathTypeOK, Cases, AtFirst, PathFound, WhileRelaxing, WhileTracing
<1>2. WhileSearching'
  BY DEF DagPathInv, WhileSearching
<1> QED
  BY <1>1, <1>2 DEF DagPathInv

LEMMA MainKeeps == DagPathInv /\ DagPathMain => DagPathInv'
<1> SUFFICES ASSUME DagPathInv, DagPathMain PROVE DagPathInv'
  OBVIOUS
<1>1. PICK t \in Digraphs :
        path' = [op |-> "search", g |-> t.g, source |-> t.source, dest |-> t.dest,
                 acyclic |-> TRUE, total |-> 0, nodes |-> <<>>]
  BY DEF DagPathMain
<1>2. IsTest(t.g, t.source, t.dest)
  BY DagPathAssumption DEF IsTest
<1>3. search' = Unseen
  BY DEF DagPathInv, AtFirst, DagPathMain
<1>4. /\ path'.op = "search" /\ path'.g = t.g /\ path'.source = t.source /\ path'.dest = t.dest
      /\ path'.acyclic = TRUE /\ path'.total = 0 /\ path'.nodes = <<>>
  BY <1>1
<1>5. PathTypeOK'
  BY <1>1, <1>2, <1>4 DEF PathTypeOK, Cases
<1>6. Unseen \in Searches(DOMAIN t.g)
  BY DEF Unseen, Searches
<1>7. Unfound(t.g, Unseen)
  <2>1. /\ Unseen.calls = <<>> /\ Unseen.visit = {} /\ Unseen.in = {} /\ Unseen.s = <<>>
        /\ Unseen.cycle = <<>> /\ Unseen.c_node = -1
    BY DEF Unseen
  <2> QED
    BY <2>1 DEF Unfound, CalledNodes, Distinct, Backward, ReadEdges, ToSet
<1>8. WhileSearching'
  BY <1>3, <1>4, <1>6, <1>7 DEF WhileSearching
<1>9. AtFirst' /\ PathFound' /\ WhileRelaxing' /\ WhileTracing'
  BY <1>4 DEF AtFirst, PathFound, WhileRelaxing, WhileTracing
<1> QED
  BY <1>5, <1>8, <1>9 DEF DagPathInv

\* The innermost call, while its edges are read.
LEMMA InnermostIs ==
  ASSUME DagPathInv, EdgesLeft
  PROVE  LET calls == search.calls
             m == Len(calls)
         IN /\ path.op = "search" /\ IsGraph(path.g) /\ search \in Searches(DOMAIN path.g)
            /\ Unfound(path.g, search) /\ calls # <<>>
            /\ calls \in Seq(Frames(DOMAIN path.g)) /\ Innermost = calls[m] /\ m \in Nat /\ m >= 1
            /\ calls[m].c \in DOMAIN path.g /\ calls[m].i <= Len(path.g[calls[m].c])
            /\ NextNode = path.g[calls[m].c][calls[m].i].to /\ NextNode \in DOMAIN path.g
            /\ calls[m].i \in DOMAIN path.g[calls[m].c]
<1> DEFINE calls == search.calls
           m == Len(calls)
           g == path.g
<1>1. path.op = "search" /\ calls # <<>> /\ Innermost.i <= Len(g[Innermost.c]) /\ search.c_node < 0
  BY DEF EdgesLeft
<1>2. IsGraph(g) /\ search \in Searches(DOMAIN g)
  BY <1>1, PathIs DEF DagPathInv, WhileSearching
<1>3. Unfound(g, search)
  BY <1>1, <1>2, SearchIs DEF DagPathInv, WhileSearching, Found
<1>4. calls \in Seq(Frames(DOMAIN g))
  BY <1>2, SearchIs
<1>5. m \in Nat /\ m >= 1 /\ Innermost = calls[m]
  BY <1>1, <1>4, FrontIs DEF Innermost
<1>6. calls[m].c \in DOMAIN g /\ calls[m].i \in Nat /\ calls[m].i >= 1
  BY <1>4, <1>5, FramesAre
<1>7. NextNode = g[calls[m].c][calls[m].i].to
  BY <1>5 DEF NextNode
<1>8. calls[m].i <= Len(g[calls[m].c])
  BY <1>1, <1>5
<1>9. calls[m].i \in DOMAIN g[calls[m].c] /\ NextNode \in DOMAIN g
  <2>1. Len(g[calls[m].c]) \in Nat /\ DOMAIN g[calls[m].c] = 1..Len(g[calls[m].c])
    BY <1>2, <1>6, EdgeIs, Zenon
  <2>2. \A e \in 1..Len(g[calls[m].c]) : g[calls[m].c][e].to \in DOMAIN g
    BY <1>2, <1>6, EdgeIs, Zenon
  <2>3. calls[m].i \in 1..Len(g[calls[m].c])
    BY <1>6, <1>8, <2>1
  <2> QED
    BY <1>7, <2>1, <2>2, <2>3, Zenon
<1> HIDE DEF m
<1> QED
  BY <1>1, <1>2, <1>3, <1>4, <1>5, <1>6, <1>7, <1>8, <1>9, Zenon DEF m

LEMMA BeyondIs ==
  ASSUME DagPathInv, EdgesLeft, NEW b, b = Append(Front(search.calls), [Innermost EXCEPT !.i = @ + 1])
  PROVE  Beyond = [search EXCEPT !.calls = b] /\ Advanced(b, search.calls, DOMAIN path.g)
<1>1. Beyond = [search EXCEPT !.calls = b]
  BY Zenon DEF Beyond
<1>2. search.calls \in Seq(Frames(DOMAIN path.g)) /\ search.calls # <<>>
  BY InnermostIs, Zenon
<1>3. Advanced(b, search.calls, DOMAIN path.g)
  BY <1>2, AdvancedIs, Zenon DEF Innermost
<1> QED
  BY <1>1, <1>3

LEMMA BlackEdgeKeeps == DagPathInv /\ BlackEdge /\ UNCHANGED <<path, shortest>> => DagPathInv'
<1> SUFFICES ASSUME DagPathInv, BlackEdge, UNCHANGED <<path, shortest>> PROVE DagPathInv'
  OBVIOUS
<1> DEFINE b == Append(Front(search.calls), [Innermost EXCEPT !.i = @ + 1])
           g == path.g
           calls == search.calls
           m == Len(calls)
<1>1. EdgesLeft /\ NextNode \in search.visit /\ NextNode \notin search.in /\ search' = Beyond
  BY DEF BlackEdge
<1>2. Beyond = [search EXCEPT !.calls = b] /\ Advanced(b, calls, DOMAIN g)
  BY <1>1, BeyondIs, Zenon
<1> HIDE DEF b
<1>3. /\ path.op = "search" /\ IsGraph(g) /\ search \in Searches(DOMAIN g) /\ Unfound(g, search)
      /\ calls # <<>> /\ calls[m].i <= Len(g[calls[m].c]) /\ NextNode = g[calls[m].c][calls[m].i].to
  BY <1>1, InnermostIs, Zenon
<1>4. NextNode \in ToSet(search.s)
  BY <1>1, <1>3 DEF Unfound
<1>5. Beyond \in Searches(DOMAIN g) /\ Unfound(g, Beyond)
  BY <1>2, <1>3, <1>4, BlackKeeps, Zenon
<1> QED
  BY <1>1, <1>3, <1>5, StillSearching

LEMMA WhiteEdgeKeeps == DagPathInv /\ WhiteEdge /\ UNCHANGED <<path, shortest>> => DagPathInv'
<1> SUFFICES ASSUME DagPathInv, WhiteEdge, UNCHANGED <<path, shortest>> PROVE DagPathInv'
  OBVIOUS
<1> DEFINE b == Append(Front(search.calls), [Innermost EXCEPT !.i = @ + 1])
           g == path.g
           calls == search.calls
           m == Len(calls)
<1>1. EdgesLeft /\ NextNode \notin search.visit /\ search' = Entered(Beyond, NextNode)
  BY DEF WhiteEdge
<1>2. Beyond = [search EXCEPT !.calls = b] /\ Advanced(b, calls, DOMAIN g)
  BY <1>1, BeyondIs, Zenon
<1> HIDE DEF b
<1>3. /\ path.op = "search" /\ IsGraph(g) /\ search \in Searches(DOMAIN g) /\ Unfound(g, search)
      /\ calls # <<>> /\ calls[m].i <= Len(g[calls[m].c]) /\ NextNode = g[calls[m].c][calls[m].i].to
      /\ NextNode \in DOMAIN g
  BY <1>1, InnermostIs, Zenon
<1>4. NextNode \in DOMAIN g \ search.visit
  BY <1>1, <1>3
<1>5. search' \in Searches(DOMAIN g) /\ Unfound(g, search')
  BY <1>1, <1>2, <1>3, <1>4, EnteredKeeps, Zenon
<1> QED
  BY <1>3, <1>5, StillSearching

LEMMA NextRootKeeps == DagPathInv /\ NextRoot /\ UNCHANGED <<path, shortest>> => DagPathInv'
<1> SUFFICES ASSUME DagPathInv, NextRoot, UNCHANGED <<path, shortest>> PROVE DagPathInv'
  OBVIOUS
<1> DEFINE g == path.g
<1>1. path.op = "search" /\ search.calls = <<>> /\ search.cycle = <<>>
  BY DEF NextRoot
<1>2. PICK i \in DOMAIN g \ search.visit : search' = Entered(search, i)
  BY DEF NextRoot
<1>3. IsGraph(g) /\ search \in Searches(DOMAIN g)
  BY <1>1, PathIs DEF DagPathInv, WhileSearching
<1>4. Unfound(g, search)
  BY <1>1 DEF DagPathInv, WhileSearching, Found
<1>5. [search EXCEPT !.calls = <<>>] = search
  BY <1>1, <1>3, SearchIs
<1>6. search' \in Searches(DOMAIN g) /\ Unfound(g, search')
  <2>1. /\ Entered([search EXCEPT !.calls = <<>>], i) \in Searches(DOMAIN g)
        /\ Unfound(g, Entered([search EXCEPT !.calls = <<>>], i))
    BY <1>1, <1>3, <1>4, EnteredKeeps, Zenon
  <2> QED
    BY <1>2, <1>5, <2>1, Zenon
<1> QED
  BY <1>1, <1>6, StillSearching

\* The first node on a stack.
OnlyNode(w, c, N) == w \in Seq(N) /\ Len(w) = 1 /\ w[1] = c /\ w # <<>> /\ c \in ToSet(w)
LEMMA OnlyNodeIs ==
  ASSUME NEW N, NEW s \in Seq(N), s = <<>>, NEW c \in N, NEW w, w = Append(s, c)
  PROVE  OnlyNode(w, c, N)
<1>1. Len(s) = 0
  OBVIOUS
<1>2. w \in Seq(N) /\ Len(w) = Len(s) + 1 /\ w[Len(s) + 1] = c /\ DOMAIN w = 1..Len(w)
  OBVIOUS
<1>3. Len(w) = 1 /\ w[1] = c
  BY <1>1, <1>2
<1>4. w # <<>>
  BY <1>3
<1>5. c \in ToSet(w)
  <2>1. 1 \in DOMAIN w
    BY <1>2, <1>3
  <2> QED
    BY <1>3, <2>1 DEF ToSet
<1> QED
  BY <1>2, <1>3, <1>4, <1>5, Zenon DEF OnlyNode

LEMMA GreyEdgeKeeps == DagPathInv /\ GreyEdge /\ UNCHANGED <<path, shortest>> => DagPathInv'
<1> SUFFICES ASSUME DagPathInv, GreyEdge, UNCHANGED <<path, shortest>> PROVE DagPathInv'
  OBVIOUS
<1> DEFINE g == path.g
           N == DOMAIN g
           calls == search.calls
           m == Len(calls)
           c == calls[m].c
           st == [search EXCEPT !.c_node = NextNode, !.cycle = Append(@, Innermost.c)]
<1>1. EdgesLeft /\ NextNode \in search.visit /\ NextNode \in search.in /\ search' = Left(st)
  BY DEF GreyEdge
<1>2. /\ path.op = "search" /\ IsGraph(g) /\ search \in Searches(N) /\ Unfound(g, search)
      /\ calls # <<>> /\ calls[m].i \in DOMAIN g[c] /\ NextNode = g[c][calls[m].i].to
      /\ NextNode \in N /\ Innermost = calls[m] /\ calls \in Seq(Frames(N)) /\ m \in Nat /\ m >= 1 /\ c \in N
  BY <1>1, InnermostIs, Zenon
<1> DEFINE node == NextNode
           w == Append(search.cycle, c)
<1>3. st = [search EXCEPT !.c_node = node, !.cycle = w]
  BY <1>2, Zenon
<1>4. OnlyNode(w, c, N)
  <2>1. search.cycle = <<>> /\ search.cycle \in Seq(N)
    BY <1>2, SearchIs DEF Unfound
  <2> HIDE DEF w
  <2>2. w = Append(search.cycle, c)
    BY DEF w
  <2>3. c \in N
    BY <1>2, Zenon
  <2> HIDE DEF c, N
  <2> QED
    BY <2>1, <2>2, <2>3, OnlyNodeIs, Zenon
<1>5. /\ search = [calls |-> calls, visit |-> search.visit, in |-> search.in, s |-> search.s,
                   cycle |-> search.cycle, c_node |-> search.c_node]
      /\ search.visit \in SUBSET N /\ search.in \in SUBSET N /\ search.s \in Seq(N)
  BY <1>2, SearchIs
<1> HIDE DEF st, node, w
<1>6. st = [calls |-> calls, visit |-> search.visit, in |-> search.in, s |-> search.s, cycle |-> w, c_node |-> node]
  <2> DEFINE u == [search EXCEPT !.c_node = node]
  <2>1. u = [calls |-> calls, visit |-> search.visit, in |-> search.in, s |-> search.s,
             cycle |-> search.cycle, c_node |-> node]
    BY <1>5
  <2>2. st = [u EXCEPT !.cycle = w]
    BY <1>3
  <2> HIDE DEF u
  <2> QED
    BY <2>1, <2>2
<1>7. node \in Int /\ node >= 0
  BY <1>2 DEF IsGraph, node
<1>8. st \in Searches(N)
  BY <1>2, <1>4, <1>5, <1>6, <1>7, SearchMade DEF OnlyNode
<1>9. st.calls = calls /\ st.cycle = w /\ st.c_node = node
  BY <1>6
<1>10. ASSUME NEW k \in 1..(m - 1) PROVE Leads(g, calls[k].c, calls[k + 1].c)
  <2>1. Inside(g, calls[k], ToSet(search.s), calls[k + 1].c)
    BY <1>2 DEF Unfound, ReadEdges
  <2>2. calls[k].c \in N /\ calls[k].i \in Nat /\ k \in 1..m
    BY <1>2, FramesAre
  <2>3. calls[k].i - 1 \in DOMAIN g[calls[k].c]
    <3>1. Len(g[calls[k].c]) \in Nat /\ DOMAIN g[calls[k].c] = 1..Len(g[calls[k].c])
      BY <1>2, <2>2, EdgeIs, Zenon
    <3>2. calls[k].i > 1 /\ calls[k].i <= Len(g[calls[k].c]) + 1
      BY <2>1 DEF Inside
    <3>3. calls[k].i - 1 \in 1..Len(g[calls[k].c])
      BY <2>2, <3>1, <3>2
    <3> QED
      BY <3>1, <3>3
  <2> QED
    BY <2>1, <2>3 DEF Inside, Leads
<1>11. Leads(g, c, node) /\ node \in CalledNodes(st)
  <2>1. Leads(g, c, node)
    BY <1>2 DEF Leads, node
  <2>2. node \in CalledNodes(search)
    BY <1>1, <1>2 DEF Unfound, node
  <2> QED
    BY <1>9, <2>1, <2>2 DEF CalledNodes
<1>12. Found(g, st)
  <2>1. \A k \in 1..(Len(w) - 1) : Leads(g, w[k + 1], w[k])
    BY <1>4 DEF OnlyNode
  <2>2. \E z \in ToSet(w) \cup CalledNodes(st) : Leads(g, w[1], z)
    BY <1>4, <1>11 DEF OnlyNode
  <2>3. calls[m].c = w[Len(w)]
    BY <1>4 DEF OnlyNode
  <2> QED
    BY <1>4, <1>7, <1>9, <1>10, <2>1, <2>2, <2>3 DEF Found, OnlyNode
<1>13. search' \in Searches(N) /\ Found(g, search')
  BY <1>1, <1>2, <1>8, <1>9, <1>12, LeftFound, Zenon
<1> QED
  BY <1>2, <1>13, StillSearching

LEMMA dfsEndKeeps == DagPathInv /\ dfsEnd /\ UNCHANGED <<path, shortest>> => DagPathInv'
<1> SUFFICES ASSUME DagPathInv, dfsEnd, UNCHANGED <<path, shortest>> PROVE DagPathInv'
  OBVIOUS
<1> DEFINE g == path.g
           N == DOMAIN g
           calls == search.calls
           c == Innermost.c
           st == [search EXCEPT !.in = @ \ {c}, !.s = Append(@, c)]
<1>1. path.op = "search" /\ calls # <<>> /\ ~EdgesLeft /\ search' = Left(st)
  BY DEF dfsEnd
<1>2. IsGraph(g) /\ search \in Searches(N)
  BY <1>1, PathIs DEF DagPathInv, WhileSearching
<1>3. Innermost = Last(calls) /\ c \in N
  <2>1. calls \in Seq(Frames(N))
    BY <1>2, SearchIs
  <2>2. Last(calls) \in Frames(N)
    BY <1>1, <2>1, FrontIs
  <2> QED
    BY <2>2 DEF Innermost, Frames
<1>4. CASE Unfound(g, search)
  <2>1. ~(Last(calls).i <= Len(g[c]))
    <3>1. search.c_node < 0
      BY <1>4 DEF Unfound
    <3> QED
      BY <1>1, <1>3, <3>1 DEF EdgesLeft
  <2>2. c = Last(calls).c
    BY <1>3
  <2>3. search' \in Searches(N) /\ Unfound(g, search')
    BY <1>1, <1>2, <1>4, <2>1, <2>2, EndKeeps, Zenon
  <2> QED
    BY <1>1, <2>3, StillSearching
<1>5. CASE Found(g, search)
  <2> DEFINE v == search.in \ {c}
             w == Append(search.s, c)
             u == [search EXCEPT !.in = v]
  <2>1. /\ search = [calls |-> calls, visit |-> search.visit, in |-> search.in, s |-> search.s,
                     cycle |-> search.cycle, c_node |-> search.c_node]
        /\ search.visit \in SUBSET N /\ search.in \in SUBSET N /\ search.s \in Seq(N)
        /\ search.cycle \in Seq(N) /\ search.c_node \in Int /\ calls \in Seq(Frames(N))
    BY <1>2, SearchIs
  <2>2. v \in SUBSET N /\ w \in Seq(N)
    BY <1>3, <2>1, PushIs
  <2>3. st = [search EXCEPT !.in = v, !.s = w]
    BY Zenon
  <2> HIDE DEF v, w, st
  <2>4. u = [calls |-> calls, visit |-> search.visit, in |-> v, s |-> search.s,
             cycle |-> search.cycle, c_node |-> search.c_node]
    <3>1. search = [calls |-> calls, visit |-> search.visit, in |-> search.in, s |-> search.s,
                    cycle |-> search.cycle, c_node |-> search.c_node]
      BY <2>1, Zenon
    <3> QED
      BY <3>1
  <2>5. st = [u EXCEPT !.s = w]
    BY <2>3
  <2> HIDE DEF u
  <2>6. st = [calls |-> calls, visit |-> search.visit, in |-> v, s |-> w,
              cycle |-> search.cycle, c_node |-> search.c_node]
    BY <2>4, <2>5
  <2>7. st \in Searches(N)
    BY <2>1, <2>2, <2>6, SearchMade
  <2>8. st.calls = calls /\ st.cycle = search.cycle /\ st.c_node = search.c_node
    BY <2>6
  <2>9. CalledNodes(st) = CalledNodes(search)
    BY <2>8 DEF CalledNodes
  <2>10. Found(g, st)
    BY <1>5, <2>8, <2>9 DEF Found
  <2>11. search' \in Searches(N) /\ Found(g, search')
    BY <1>1, <1>2, <2>7, <2>8, <2>10, LeftFound, Zenon
  <2> QED
    BY <1>1, <2>11, StillSearching
<1> QED
  BY <1>1, <1>4, <1>5 DEF DagPathInv, WhileSearching

LEMMA SearchStepKeeps == DagPathInv /\ SearchStep => DagPathInv'
BY GreyEdgeKeeps, BlackEdgeKeeps, WhiteEdgeKeeps, dfsEndKeeps, NextRootKeeps, Zenon DEF SearchStep

\* The answer when there is a cycle.
LEMMA CycleFoundKeeps == DagPathInv /\ CycleFound => DagPathInv'
<1> SUFFICES ASSUME DagPathInv, CycleFound PROVE DagPathInv'
  OBVIOUS
<1> DEFINE g == path.g
           nodes == Reverse(search.cycle)
<1>1. path.op = "search" /\ search.calls = <<>> /\ search.cycle # <<>>
  BY DEF CycleFound
<1>2. /\ path = [op |-> path.op, g |-> g, source |-> path.source, dest |-> path.dest,
                 acyclic |-> path.acyclic, total |-> path.total, nodes |-> path.nodes]
      /\ path.total \in Nat /\ IsTest(g, path.source, path.dest)
  BY <1>1, PathIs, Zenon DEF DagPathInv
<1>3. search \in Searches(DOMAIN g) /\ Found(g, search)
  BY <1>1 DEF DagPathInv, WhileSearching, Unfound
<1>4. /\ Cyclic(g) /\ nodes # <<>> /\ IsPath(g, nodes)
      /\ \E i \in DOMAIN nodes : Leads(g, Last(nodes), nodes[i])
  BY <1>1, <1>3, CycleListed, Zenon
<1>5. path' = [path EXCEPT !.op = "done", !.acyclic = FALSE, !.nodes = nodes]
  BY DEF CycleFound
<1> HIDE DEF nodes
<1>6. path' = [op |-> "done", g |-> g, source |-> path.source, dest |-> path.dest,
               acyclic |-> FALSE, total |-> path.total, nodes |-> nodes]
  <2> DEFINE u == [path EXCEPT !.op = "done"]
             no == FALSE
             v == [u EXCEPT !.acyclic = no]
  <2>1. u = [op |-> "done", g |-> g, source |-> path.source, dest |-> path.dest,
             acyclic |-> path.acyclic, total |-> path.total, nodes |-> path.nodes]
    BY <1>2
  <2>2. path' = [v EXCEPT !.nodes = nodes]
    BY <1>5
  <2> HIDE DEF u, no
  <2>3. v = [op |-> "done", g |-> g, source |-> path.source, dest |-> path.dest,
             acyclic |-> no, total |-> path.total, nodes |-> path.nodes]
    BY <2>1
  <2> HIDE DEF v
  <2>4. path' = [op |-> "done", g |-> g, source |-> path.source, dest |-> path.dest,
                 acyclic |-> no, total |-> path.total, nodes |-> nodes]
    BY <2>2, <2>3
  <2> QED
    BY <2>4, Zenon DEF no
<1> HIDE DEF g
<1>7. /\ path'.op = "done" /\ path'.g = g /\ path'.source = path.source /\ path'.dest = path.dest
      /\ path'.acyclic = FALSE /\ path'.total = path.total /\ path'.nodes = nodes
  BY <1>6
<1>8. PathTypeOK'
  BY <1>2, <1>6, <1>7 DEF PathTypeOK, Cases
<1>9. PathFound'
  BY <1>4, <1>7, Zenon DEF PathFound
<1>10. AtFirst' /\ WhileSearching' /\ WhileRelaxing' /\ WhileTracing'
  BY <1>7 DEF AtFirst, WhileSearching, WhileRelaxing, WhileTracing
<1> QED
  BY <1>8, <1>9, <1>10 DEF DagPathInv

LEMMA NodesOrderedKeeps == DagPathInv /\ NodesOrdered => DagPathInv'
<1> SUFFICES ASSUME DagPathInv, NodesOrdered PROVE DagPathInv'
  OBVIOUS
<1> DEFINE g == path.g
           N == DOMAIN g
           d == [x \in N |-> IF x = path.source THEN 0 ELSE FarAway]
           p == [x \in N |-> -1]
<1>1. /\ path.op = "search" /\ search.calls = <<>> /\ search.cycle = <<>> /\ N \subseteq search.visit
      /\ search' = search /\ path' = [path EXCEPT !.op = "relax"]
      /\ shortest' = [Unknown EXCEPT !.d = d, !.p = p]
  BY Zenon DEF NodesOrdered
<1>2. /\ path = [op |-> path.op, g |-> g, source |-> path.source, dest |-> path.dest,
                 acyclic |-> path.acyclic, total |-> path.total, nodes |-> path.nodes]
      /\ path.acyclic \in BOOLEAN /\ path.total \in Nat /\ IsTest(g, path.source, path.dest)
      /\ IsGraph(g) /\ path.source \in N
  BY <1>1, PathIs, Zenon DEF DagPathInv
<1>3. /\ search \in Searches(N) /\ Unfound(g, search)
      /\ path.acyclic /\ path.nodes = <<>> /\ path.total = 0
  BY <1>1 DEF DagPathInv, WhileSearching, Found
<1>4. search.s \in Seq(N) /\ N \subseteq ToSet(search.s) /\ Distinct(search.s) /\ Backward(g, search.s)
  <2>1. search.in = {}
    BY <1>1, <1>3 DEF Unfound, CalledNodes
  <2> QED
    BY <1>1, <1>3, <2>1, SearchIs DEF Unfound
<1>5. ~Cyclic(g)
  BY <1>4, OrderedAcyclic, Zenon
<1>6. shortest' = [d |-> d, p |-> p, i |-> 1, at |-> -1]
  <2> HIDE DEF d, p
  <2>1. shortest' = [d |-> d, p |-> p, i |-> Unknown.i, at |-> Unknown.at]
    BY <1>1 DEF Unknown
  <2> QED
    BY <2>1 DEF Unknown
<1>7. /\ Distances(shortest') /\ IsTree(g, path.source, shortest', search.s)
      /\ AllTight(g, (shortest').d, search.s) /\ SomeTight(g, shortest', search.s)
  BY <1>2, <1>4, <1>6, StartIs, Zenon
<1> HIDE DEF d, p, g, N
<1>8. path' = [op |-> "relax", g |-> g, source |-> path.source, dest |-> path.dest,
               acyclic |-> path.acyclic, total |-> path.total, nodes |-> path.nodes]
  BY <1>1, <1>2
<1>9. /\ path'.op = "relax" /\ path'.g = g /\ path'.source = path.source /\ path'.dest = path.dest
      /\ path'.acyclic = path.acyclic /\ path'.total = path.total /\ path'.nodes = path.nodes
  BY <1>8
<1>10. PathTypeOK'
  BY <1>2, <1>8, <1>9 DEF PathTypeOK, Cases
<1>11. WhileRelaxing'
  BY <1>1, <1>3, <1>4, <1>5, <1>7, <1>9, Zenon DEF WhileRelaxing, N
<1>12. AtFirst' /\ WhileSearching' /\ WhileTracing' /\ PathFound'
  BY <1>9 DEF AtFirst, WhileSearching, WhileTracing, PathFound
<1> QED
  BY <1>10, <1>11, <1>12 DEF DagPathInv

LEMMA StillRelaxing ==
  ASSUME DagPathInv, path.op = "relax", path' = path, search' \in Searches(DOMAIN path.g),
         Distinct(search'.s), Backward(path.g, search'.s),
         Distances(shortest'), IsTree(path.g, path.source, shortest', search'.s),
         AllTight(path.g, (shortest').d, search'.s), SomeTight(path.g, shortest', search'.s)
  PROVE  DagPathInv'
<1>1. PathTypeOK' /\ AtFirst' /\ PathFound' /\ WhileSearching' /\ WhileTracing'
  BY DEF DagPathInv, PathTypeOK, Cases, AtFirst, PathFound, WhileSearching, WhileTracing
<1>2. WhileRelaxing'
  BY Zenon DEF DagPathInv, WhileRelaxing
<1> QED
  BY <1>1, <1>2 DEF DagPathInv

\* What there is to relax with.
LEMMA RelaxingIs ==
  ASSUME DagPathInv, path.op = "relax"
  PROVE  /\ IsGraph(path.g) /\ path.source \in DOMAIN path.g
         /\ search \in Searches(DOMAIN path.g) /\ search.s \in Seq(DOMAIN path.g)
         /\ Distinct(search.s) /\ Backward(path.g, search.s)
         /\ Distances(shortest) /\ IsTree(path.g, path.source, shortest, search.s)
         /\ AllTight(path.g, shortest.d, search.s) /\ SomeTight(path.g, shortest, search.s)
<1>1. IsGraph(path.g) /\ path.source \in DOMAIN path.g
  BY PathIs, Zenon DEF DagPathInv
<1>2. /\ search \in Searches(DOMAIN path.g) /\ Distinct(search.s) /\ Backward(path.g, search.s)
      /\ Distances(shortest) /\ IsTree(path.g, path.source, shortest, search.s)
      /\ AllTight(path.g, shortest.d, search.s) /\ SomeTight(path.g, shortest, search.s)
  BY Zenon DEF DagPathInv, WhileRelaxing
<1>3. search.s \in Seq(DOMAIN path.g)
  BY <1>2, SearchIs, Zenon
<1> QED
  BY <1>1, <1>2, <1>3, Zenon

LEMMA RelaxStepKeeps == DagPathInv /\ Relax => DagPathInv'
<1> SUFFICES ASSUME DagPathInv, Relax PROVE DagPathInv'
  OBVIOUS
<1> DEFINE g == path.g
           s == search.s
           q == [Relaxed(shortest, curNode, g[curNode][shortest.i]) EXCEPT !.i = @ + 1]
<1>1. /\ path.op = "relax" /\ s # <<>> /\ shortest.i <= Len(g[curNode])
      /\ shortest' = q /\ path' = path /\ search' = search
  BY Zenon DEF Relax
<1>2. /\ IsGraph(g) /\ path.source \in DOMAIN g /\ search \in Searches(DOMAIN g) /\ s \in Seq(DOMAIN g)
      /\ Distinct(s) /\ Backward(g, s) /\ Distances(shortest) /\ IsTree(g, path.source, shortest, s)
      /\ AllTight(g, shortest.d, s) /\ SomeTight(g, shortest, s)
  BY <1>1, RelaxingIs, Zenon
<1>3. curNode = Last(s)
  BY DEF curNode
<1>4. Distances(q) /\ IsTree(g, path.source, q, s) /\ AllTight(g, q.d, s) /\ SomeTight(g, q, s)
  BY <1>1, <1>2, <1>3, RelaxKeeps, Zenon
<1> HIDE DEF q
<1> QED
  BY <1>1, <1>2, <1>4, StillRelaxing, Zenon

LEMMA PopNodeKeeps == DagPathInv /\ PopNode => DagPathInv'
<1> SUFFICES ASSUME DagPathInv, PopNode PROVE DagPathInv'
  OBVIOUS
<1> DEFINE g == path.g
           N == DOMAIN g
           s == search.s
           f == Front(s)
           q == [shortest EXCEPT !.i = 1]
<1>1. /\ path.op = "relax" /\ s # <<>> /\ shortest.i > Len(g[curNode])
      /\ shortest' = q /\ path' = path /\ search' = [search EXCEPT !.s = f]
  BY Zenon DEF PopNode
<1>2. /\ IsGraph(g) /\ path.source \in N /\ search \in Searches(N) /\ s \in Seq(N)
      /\ Distinct(s) /\ Backward(g, s) /\ Distances(shortest) /\ IsTree(g, path.source, shortest, s)
      /\ AllTight(g, shortest.d, s) /\ SomeTight(g, shortest, s)
  BY <1>1, RelaxingIs, Zenon
<1>3. ~(shortest.i <= Len(g[Last(s)]))
  <2>1. Last(s) \in N
    BY <1>1, <1>2, FrontIs, Zenon
  <2>2. Len(g[Last(s)]) \in Nat
    BY <1>2, <2>1, EdgeIs, Zenon
  <2> QED
    BY <1>1, <1>2, <2>2 DEF Distances, curNode
<1>4. /\ f \in Seq(N) /\ Distinct(f) /\ Backward(g, f)
      /\ Distances(q) /\ IsTree(g, path.source, q, f) /\ AllTight(g, q.d, f) /\ SomeTight(g, q, f)
  BY <1>1, <1>2, <1>3, PopKeeps, Zenon
<1>5. /\ search = [calls |-> search.calls, visit |-> search.visit, in |-> search.in, s |-> search.s,
                   cycle |-> search.cycle, c_node |-> search.c_node]
      /\ search.calls \in Seq(Frames(N)) /\ search.visit \in SUBSET N /\ search.in \in SUBSET N
      /\ search.cycle \in Seq(N) /\ search.c_node \in Int
  BY <1>2, SearchIs
<1> HIDE DEF f, q, N
<1>6. search' = [calls |-> search.calls, visit |-> search.visit, in |-> search.in, s |-> f,
                 cycle |-> search.cycle, c_node |-> search.c_node]
  <2>1. search = [calls |-> search.calls, visit |-> search.visit, in |-> search.in, s |-> search.s,
                  cycle |-> search.cycle, c_node |-> search.c_node]
    BY <1>5, Zenon
  <2> QED
    BY <1>1, <2>1
<1>7. search' \in Searches(N) /\ search'.s = f
  BY <1>4, <1>5, <1>6, SearchMade
<1> QED
  BY <1>1, <1>4, <1>7, StillRelaxing, Zenon DEF N

LEMMA TotalCostKeeps == DagPathInv /\ TotalCost => DagPathInv'
<1> SUFFICES ASSUME DagPathInv, TotalCost PROVE DagPathInv'
  OBVIOUS
<1> DEFINE g == path.g
           N == DOMAIN g
           d == shortest.d
           total == IF d[path.dest] < FarAway THEN d[path.dest] ELSE 0
           at == IF d[path.dest] < FarAway THEN path.dest ELSE -1
<1>1. /\ path.op = "relax" /\ search.s = <<>> /\ search' = search
      /\ path' = [path EXCEPT !.op = "trace", !.total = total]
      /\ shortest' = [shortest EXCEPT !.at = at]
  BY Zenon DEF TotalCost
<1>2. /\ path = [op |-> path.op, g |-> g, source |-> path.source, dest |-> path.dest,
                 acyclic |-> path.acyclic, total |-> path.total, nodes |-> path.nodes]
      /\ path.acyclic \in BOOLEAN /\ IsTest(g, path.source, path.dest) /\ path.dest \in N
  BY <1>1, PathIs, Zenon DEF DagPathInv
<1>3. /\ Distances(shortest) /\ IsTree(g, path.source, shortest, <<>>) /\ AllTight(g, d, <<>>)
      /\ path.acyclic /\ path.nodes = <<>> /\ ~Cyclic(g)
  BY <1>1, Zenon DEF DagPathInv, WhileRelaxing
<1>4. total \in Nat /\ at \in N \cup {-1}
  <2>1. d[path.dest] \in Nat
    BY <1>2, <1>3, FarAwayIs DEF IsTree
  <2> QED
    BY <1>2, <2>1
<1>5. at = IF d[path.dest] < FarAway THEN path.dest ELSE -1
  OBVIOUS
<1>6. total = IF d[path.dest] < FarAway THEN d[path.dest] ELSE 0
  OBVIOUS
<1> HIDE DEF total, at, d, g
<1>7. path' = [op |-> "trace", g |-> g, source |-> path.source, dest |-> path.dest,
               acyclic |-> path.acyclic, total |-> total, nodes |-> path.nodes]
  <2> DEFINE u == [path EXCEPT !.op = "trace"]
  <2>1. u = [op |-> "trace", g |-> g, source |-> path.source, dest |-> path.dest,
             acyclic |-> path.acyclic, total |-> path.total, nodes |-> path.nodes]
    BY <1>2
  <2>2. path' = [u EXCEPT !.total = total]
    BY <1>1
  <2> HIDE DEF u
  <2> QED
    BY <2>1, <2>2
<1>8. shortest' = [d |-> d, p |-> shortest.p, i |-> shortest.i, at |-> at]
  BY <1>1, <1>3 DEF Distances, d
<1>9. /\ path'.op = "trace" /\ path'.g = g /\ path'.source = path.source /\ path'.dest = path.dest
      /\ path'.acyclic = path.acyclic /\ path'.total = total /\ path'.nodes = path.nodes
  BY <1>7
<1>10. (shortest').d = d /\ (shortest').p = shortest.p /\ (shortest').i = shortest.i /\ (shortest').at = at
  BY <1>8
<1>11. PathTypeOK'
  BY <1>2, <1>4, <1>7, <1>9 DEF PathTypeOK, Cases
<1>12. Distances(shortest')
  BY <1>3, <1>8, <1>10 DEF Distances
<1>13. IsTree(g, path.source, shortest', <<>>) /\ AllTight(g, (shortest').d, <<>>)
  BY <1>3, <1>10 DEF IsTree, d
<1>14. Traced(g, path.dest, shortest', path.nodes)
  BY <1>3, <1>4, <1>5, <1>10 DEF Traced
<1>15. WhileTracing'
  BY <1>3, <1>6, <1>9, <1>10, <1>12, <1>13, <1>14, Zenon DEF WhileTracing
<1>16. AtFirst' /\ WhileSearching' /\ WhileRelaxing' /\ PathFound'
  BY <1>9 DEF AtFirst, WhileSearching, WhileRelaxing, PathFound
<1> QED
  BY <1>11, <1>15, <1>16 DEF DagPathInv

LEMMA TraceBackKeeps == DagPathInv /\ TraceBack => DagPathInv'
<1> SUFFICES ASSUME DagPathInv, TraceBack PROVE DagPathInv'
  OBVIOUS
<1> DEFINE g == path.g
           N == DOMAIN g
           d == shortest.d
           next == shortest.p[shortest.at]
           more == <<shortest.at>> \o path.nodes
<1>1. /\ path.op = "trace" /\ shortest.at # -1 /\ search' = search
      /\ path' = [path EXCEPT !.nodes = more]
      /\ shortest' = [shortest EXCEPT !.at = next]
  BY Zenon DEF TraceBack
<1>2. /\ path = [op |-> path.op, g |-> g, source |-> path.source, dest |-> path.dest,
                 acyclic |-> path.acyclic, total |-> path.total, nodes |-> path.nodes]
      /\ path.acyclic \in BOOLEAN /\ path.total \in Nat /\ IsTest(g, path.source, path.dest)
      /\ IsGraph(g) /\ path.source \in N /\ path.dest \in N
  BY <1>1, PathIs, Zenon DEF DagPathInv
<1>3. /\ path.acyclic /\ ~Cyclic(g) /\ Distances(shortest)
      /\ IsTree(g, path.source, shortest, <<>>) /\ AllTight(g, d, <<>>)
      /\ path.total = IF d[path.dest] < FarAway THEN d[path.dest] ELSE 0
      /\ Traced(g, path.dest, shortest, path.nodes)
  BY <1>1, Zenon DEF DagPathInv, WhileTracing
<1> HIDE DEF g, d
<1>4. shortest' = [d |-> d, p |-> shortest.p, i |-> shortest.i, at |-> next]
  <2> HIDE DEF next
  <2> QED
    BY <1>1, <1>3 DEF Distances, d
<1>5. (shortest').d = d /\ (shortest').p = shortest.p /\ (shortest').i = shortest.i /\ (shortest').at = next
  <2> HIDE DEF next
  <2> QED
    BY <1>4
<1>6. Traced(g, path.dest, shortest', more)
  BY <1>1, <1>2, <1>3, <1>5, TraceKeeps, Zenon DEF d
<1> HIDE DEF more, next
<1>7. path' = [op |-> path.op, g |-> g, source |-> path.source, dest |-> path.dest,
               acyclic |-> path.acyclic, total |-> path.total, nodes |-> more]
  BY <1>1, <1>2
<1>8. /\ path'.op = "trace" /\ path'.g = g /\ path'.source = path.source /\ path'.dest = path.dest
      /\ path'.acyclic = path.acyclic /\ path'.total = path.total /\ path'.nodes = more
  BY <1>1, <1>7
<1>9. PathTypeOK'
  BY <1>1, <1>2, <1>7, <1>8 DEF PathTypeOK, Cases
<1>10. Distances(shortest')
  BY <1>3, <1>4, <1>5 DEF Distances
<1>11. IsTree(g, path.source, shortest', <<>>) /\ AllTight(g, (shortest').d, <<>>)
  BY <1>3, <1>5 DEF IsTree, d
<1>12. WhileTracing'
  BY <1>3, <1>5, <1>6, <1>8, <1>10, <1>11, Zenon DEF WhileTracing
<1>13. AtFirst' /\ WhileSearching' /\ WhileRelaxing' /\ PathFound'
  BY <1>8 DEF AtFirst, WhileSearching, WhileRelaxing, PathFound
<1> QED
  BY <1>9, <1>12, <1>13 DEF DagPathInv

LEMMA AnswerKeeps == DagPathInv /\ Answer => DagPathInv'
<1> SUFFICES ASSUME DagPathInv, Answer PROVE DagPathInv'
  OBVIOUS
<1> DEFINE g == path.g
           N == DOMAIN g
           d == shortest.d
           nodes == path.nodes
<1>1. path.op = "trace" /\ shortest.at = -1 /\ path' = [path EXCEPT !.op = "done"]
  BY Zenon DEF Answer
<1>2. /\ path = [op |-> path.op, g |-> g, source |-> path.source, dest |-> path.dest,
                 acyclic |-> path.acyclic, total |-> path.total, nodes |-> path.nodes]
      /\ path.acyclic \in BOOLEAN /\ path.total \in Nat /\ IsTest(g, path.source, path.dest)
      /\ IsGraph(g) /\ path.source \in N /\ path.dest \in N /\ Cardinality(N) \in Nat
  BY <1>1, PathIs, Zenon DEF DagPathInv
<1>3. /\ path.acyclic /\ ~Cyclic(g)
      /\ IsTree(g, path.source, shortest, <<>>) /\ AllTight(g, d, <<>>)
      /\ path.total = IF d[path.dest] < FarAway THEN d[path.dest] ELSE 0
      /\ Traced(g, path.dest, shortest, nodes)
  BY <1>1, Zenon DEF DagPathInv, WhileTracing
<1>4. Shortest(g, path.source, path.dest, nodes, path.total)
  BY <1>1, <1>2, <1>3, AnswerIs, Zenon
<1> HIDE DEF g, nodes
<1>5. path' = [op |-> "done", g |-> g, source |-> path.source, dest |-> path.dest,
               acyclic |-> path.acyclic, total |-> path.total, nodes |-> nodes]
  BY <1>1, <1>2 DEF nodes
<1>6. /\ path'.op = "done" /\ path'.g = g /\ path'.source = path.source /\ path'.dest = path.dest
      /\ path'.acyclic = path.acyclic /\ path'.total = path.total /\ path'.nodes = nodes
  BY <1>5
<1>7. PathTypeOK'
  BY <1>2, <1>5, <1>6 DEF PathTypeOK, Cases
<1>8. PathFound'
  BY <1>3, <1>4, <1>6, Zenon DEF PathFound, Shortest
<1>9. AtFirst' /\ WhileSearching' /\ WhileRelaxing' /\ WhileTracing'
  BY <1>6 DEF AtFirst, WhileSearching, WhileRelaxing, WhileTracing
<1> QED
  BY <1>7, <1>8, <1>9 DEF DagPathInv

\* The shortest path program answers with a path from the source to the destination that
\* costs what it says, which no other path is below, or with none where none costs less
\* than FarAway, or with a path into a cycle exactly where the graph has one: for every
\* graph with costs that are not negative.
THEOREM PathsAreFound == DagPathSpec => []PathFound
<1>1. DagPathInit => DagPathInv
  <2> SUFFICES ASSUME DagPathInit PROVE DagPathInv
    OBVIOUS
  <2>1. path.op = "none" /\ AtFirst
    BY DEF DagPathInit, AtFirst
  <2> QED
    BY <2>1 DEF DagPathInv, PathTypeOK, WhileSearching, WhileRelaxing, WhileTracing, PathFound
<1>2. DagPathInv /\ [DagPathNext]_dagPathVars => DagPathInv'
  <2> SUFFICES ASSUME DagPathInv, [DagPathNext]_dagPathVars PROVE DagPathInv'
    OBVIOUS
  <2>1. CASE UNCHANGED dagPathVars
    BY <2>1, Zenon DEF dagPathVars, DagPathInv, AtFirst, PathTypeOK, Cases, WhileSearching, WhileRelaxing,
                       WhileTracing, PathFound
  <2>2. CASE DagPathNext
    BY <2>2, MainKeeps, SearchStepKeeps, CycleFoundKeeps, NodesOrderedKeeps, RelaxStepKeeps, PopNodeKeeps,
       TotalCostKeeps, TraceBackKeeps, AnswerKeeps, Zenon DEF DagPathNext
  <2> QED
    BY <2>1, <2>2, Zenon
<1>3. DagPathInv => PathFound
  BY DEF DagPathInv
<1> QED
  BY <1>1, <1>2, <1>3, PTL DEF DagPathSpec
=============================================================================
