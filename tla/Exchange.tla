------------------------------- MODULE Exchange -------------------------------
(***************************************************************************)
(* The coin exchange (CSE4177): accounts, wallets and the pixels of the     *)
(* front page.  A request reads rows of the database, decides, and saves   *)
(* whole rows; nothing keeps other requests of the same owner from doing   *)
(* so in between, and a request can fail between two saves.                *)
(***************************************************************************)
EXTENDS Integers, FiniteSets

CONSTANTS
  Browsers, Users,
  Anonymous,      \* request.user of a browser that is not logged in
  StartMoney,     \* the KRW of a new wallet
  PerCoin,        \* the parts of a coin that amounts are counted in (10^8: eight decimals)
  Price,          \* the KRW of one unit of any coin
  PixelPrice,     \* the KRW of one pixel
  Amounts, Areas, \* parts of a coin and numbers of pixels that are asked for
  MaxTrades       \* requests to trade

Coins == {"BTC", "ETH", "BCH", "XRP", "LTC", "DASH", "XMR", "BTG", "EOS", "QTUM",
          "ETC", "ZEC"}

\* Neither form refuses a negative number (forms.py:8, and int() of the text, views.py:629).
ASSUME ExchangeAssumption ==
  /\ Anonymous \notin Users
  /\ PerCoin \in Nat \ {0}
  /\ StartMoney \in Nat /\ Price \in Nat /\ PixelPrice \in Nat /\ MaxTrades \in Nat
  /\ Amounts \subseteq Int /\ Areas \subseteq Int

VARIABLES
  accounts,   \* users of the auth tables
  wallets,    \* owner -> [KRW, coins], for the owners that have one
  pixels,     \* owner -> number of pixels, for the owners that have a row
  session,    \* who is logged in at a browser
  request,    \* what the request of a browser still has to save
  trades,     \* requests to trade so far
  allowance,  \* history: the KRW an owner may have gained by rounding and negative areas
  negative    \* history: the owners who have asked for a negative amount of a coin

exchangeVars ==
  <<accounts, wallets, pixels, session, request, trades, allowance, negative>>
historyVars == <<trades, allowance, negative>>

None == [at |-> "none"]
Put(f, x, v) == [y \in DOMAIN f \cup {x} |-> IF y = x THEN v ELSE f[y]]

ExchangeInit ==
  /\ accounts = {} /\ trades = 0
  /\ wallets = [o \in {} |-> {}] /\ pixels = [o \in {} |-> 0]
  /\ session = [b \in Browsers |-> Anonymous]
  /\ request = [b \in Browsers |-> None]
  /\ allowance = [o \in Users \cup {Anonymous} |-> 0] /\ negative = {}

----------------------------------------------------------------------------
\* user/views.py

\* login_validate; an unknown user or a wrong password logs out.
Login(b) ==
  /\ request[b] = None
  /\ \E u \in accounts \cup {Anonymous} : session' = [session EXCEPT ![b] = u]
  /\ UNCHANGED <<accounts, wallets, pixels, request, historyVars>>

\* join_page: the account, the login, and the row of pixels in two commits.
JoinUser(b) ==
  /\ request[b] = None
  /\ \E u \in Users \ accounts :
       /\ accounts' = accounts \cup {u}
       /\ session' = [session EXCEPT ![b] = u]
       /\ request' = [request EXCEPT ![b] = [at |-> "join", owner |-> u]]
  /\ UNCHANGED <<wallets, pixels, historyVars>>

JoinPixel(b) ==
  /\ request[b].at = "join"
  /\ pixels' = Put(pixels, request[b].owner, 0)
  /\ request' = [request EXCEPT ![b] = None]
  /\ UNCHANGED <<accounts, wallets, session, historyVars>>

----------------------------------------------------------------------------
\* market/views.py

\* create refuses a second wallet of an owner, who may be anonymous.
MakeNew(b) ==
  /\ request[b] = None /\ session[b] \notin DOMAIN wallets
  /\ wallets' = Put(wallets, session[b], [KRW |-> StartMoney, coins |-> [c \in Coins |-> 0]])
  /\ UNCHANGED <<accounts, pixels, session, request, historyVars>>

\* int(float(price) * float(amount)) of n parts: the fraction is dropped, and a product
\* that is whole may fall one short if the amount is not (0.29 * 100 gives 28).  Bound:
\* products a double holds to within a part, below 4 * 10^7 KRW.
Truncated(n) ==
  {k \in 0 .. Price * n :
     LET rest == Price * n - PerCoin * k
     IN 0 <= rest /\ (rest < PerCoin \/ (rest = PerCoin /\ n % PerCoin # 0))}
Costs(n) == IF n < 0 THEN {-k : k \in Truncated(-n)} ELSE Truncated(n)

\* The wallet read, and what a purchase or a sale of n parts for k KRW makes of it.
Bought(w, c, n, k) == [KRW |-> w.KRW - k, coins |-> [w.coins EXCEPT ![c] = @ + n]]
Sold(w, c, n, k) == [KRW |-> w.KRW + k, coins |-> [w.coins EXCEPT ![c] = @ - n]]

Market(b, c) ==
  /\ request[b] = None /\ trades < MaxTrades /\ session[b] \in DOMAIN wallets
  /\ trades' = trades + 1 /\ allowance' = [allowance EXCEPT ![session[b]] = @ + 1]
  /\ LET w == wallets[session[b]]
         Save(v) == request' = [request EXCEPT ![b] =
                      [at |-> "save", owner |-> session[b], wallet |-> v]]
     IN \E n \in Amounts :
          /\ negative' = IF n < 0 THEN negative \cup {session[b]} ELSE negative
          /\ \/ Price * n < PerCoin * w.KRW /\ \E k \in Costs(n) : Save(Bought(w, c, n, k))
             \/ n <= w.coins[c] /\ \E k \in Costs(n) : Save(Sold(w, c, n, k))
             \/ (Price * n >= PerCoin * w.KRW \/ n > w.coins[c]) /\ UNCHANGED request
  /\ UNCHANGED <<accounts, wallets, pixels, session>>

market_btc(b) == Market(b, "BTC")
market_eth(b) == Market(b, "ETH")
market_bch(b) == Market(b, "BCH")
market_xrp(b) == Market(b, "XRP")
market_ltc(b) == Market(b, "LTC")
market_dash(b) == Market(b, "DASH")
market_xmr(b) == Market(b, "XMR")
market_btg(b) == Market(b, "BTG")
market_eos(b) == Market(b, "EOS")
market_qtum(b) == Market(b, "QTUM")
market_etc(b) == Market(b, "ETC")
market_zec(b) == Market(b, "ZEC")

\* Mutant of SaveWallet: only the coins are saved as read, the money as it is now.
SaveWallet_part(b) ==
  /\ request[b].at = "save"
  /\ LET o == request[b].owner
         KRW == wallets[o].KRW
     IN wallets' = [wallets EXCEPT ![o] = [request[b].wallet EXCEPT !.KRW = KRW]]
  /\ request' = [request EXCEPT ![b] = None]
  /\ UNCHANGED <<accounts, pixels, session, historyVars>>

\* save() writes every column of the row, as it was read and changed.
SaveWallet(b) ==
  /\ request[b].at = "save"
  /\ wallets' = [wallets EXCEPT ![request[b].owner] = request[b].wallet]
  /\ request' = [request EXCEPT ![b] = None]
  /\ UNCHANGED <<accounts, pixels, session, historyVars>>

\* market_pixel reads both rows, saves the pixels, and then the wallet.
MarketPixel(b) ==
  /\ request[b] = None /\ trades < MaxTrades
  /\ session[b] \in DOMAIN wallets \cap DOMAIN pixels
  /\ trades' = trades + 1
  /\ LET w == wallets[session[b]]
     IN \E a \in Areas :
       /\ allowance' = [allowance EXCEPT ![session[b]] = IF a < 0 THEN @ - a * PixelPrice ELSE @]
       /\ request' = [request EXCEPT ![b] =
            IF a * PixelPrice < w.KRW
            THEN [at |-> "pixel", owner |-> session[b], area |-> a,
                  wallet |-> [w EXCEPT !.KRW = @ - a * PixelPrice]]
            ELSE None]
  /\ UNCHANGED <<accounts, wallets, pixels, session, negative>>

SavePixel(b) ==
  /\ request[b].at = "pixel"
  /\ pixels' = [pixels EXCEPT ![request[b].owner] = request[b].area]
  /\ request' = [request EXCEPT ![b] =
       [at |-> "save", owner |-> request[b].owner, wallet |-> request[b].wallet]]
  /\ UNCHANGED <<accounts, wallets, session, historyVars>>

\* A save raises an error, or the server stops.
RequestFails(b) ==
  /\ request[b] # None
  /\ request' = [request EXCEPT ![b] = None]
  /\ UNCHANGED <<accounts, wallets, pixels, session, historyVars>>

ExchangeNext == \E b \in Browsers :
  \/ Login(b) \/ JoinUser(b) \/ JoinPixel(b) \/ MakeNew(b) \/ SaveWallet(b)
  \/ market_btc(b) \/ market_eth(b) \/ market_bch(b) \/ market_xrp(b)
  \/ market_ltc(b) \/ market_dash(b) \/ market_xmr(b) \/ market_btg(b)
  \/ market_eos(b) \/ market_qtum(b) \/ market_etc(b) \/ market_zec(b)
  \/ MarketPixel(b) \/ SavePixel(b) \/ RequestFails(b)

ExchangeSpec == ExchangeInit /\ [][ExchangeNext]_exchangeVars

----------------------------------------------------------------------------
\* Properties

\* What a wallet is worth, counted in coins of one price, in parts of a KRW.
Units(coins) ==
  coins["BTC"] + coins["ETH"] + coins["BCH"] + coins["XRP"] + coins["LTC"] + coins["DASH"]
  + coins["XMR"] + coins["BTG"] + coins["EOS"] + coins["QTUM"] + coins["ETC"] + coins["ZEC"]
Worth(w) == PerCoin * w.KRW + Price * Units(w.coins)

\* However requests interleave, fail and are lost (views.py:73 saves what was read), what
\* is stored is the result of some trades one after the other.  At one price no owner has
\* more than the money of one new wallet, but for what the code gives away: up to one KRW
\* in each trade, whose cost views.py:76 and :85 truncate, and the price of pixels of
\* negative area (views.py:629).  And an owner who has not asked for a negative amount is
\* not overdrawn.  Pixels are not counted: a failure after views.py:635 leaves them unpaid.
NothingGained ==
  \A o \in DOMAIN wallets :
    /\ Worth(wallets[o]) <= PerCoin * (StartMoney + allowance[o])
    /\ o \notin negative =>
         wallets[o].KRW >= 0 /\ \A c \in Coins : wallets[o].coins[c] >= 0
=============================================================================
