----------------------------- MODULE WalletStore -----------------------------
(***************************************************************************)
(* The coin table of one wallet and what the store's mutations make of it  *)
(* (engine/state.rs).  InMemoryWalletStore runs each of them under its     *)
(* mutex, so each is one function of the table.                            *)
(*                                                                         *)
(* A coin record is abstracted to its two heights; 0 stands for None, the  *)
(* chain's first block has height 1.                                       *)
(***************************************************************************)
EXTENDS Naturals

CONSTANTS
  Coin,      \* coin ids
  NoCoin     \* what the table holds for a coin it does not know

CoinRecord == [created : Nat, spent : Nat]

ASSUME NoCoinAssumption == NoCoin \notin CoinRecord

CoinTable == [Coin -> CoinRecord \cup {NoCoin}]

Held(coins) == {c \in Coin : coins[c] # NoCoin}

CoinChange == {"Created", "Spent", "Updated", "Unchanged"}

(* classify_coin_change: what an incoming record changes.                   *)
Classify(prev, rec) ==
  CASE prev = NoCoin /\ rec.spent # 0 -> "Spent"
    [] prev = NoCoin /\ rec.spent = 0 -> "Created"
    [] prev # NoCoin /\ prev = rec -> "Unchanged"
    [] OTHER -> IF prev.spent = 0 /\ rec.spent # 0 THEN "Spent" ELSE "Updated"

(* Mutant: the rollback keeps the coins created at the fork's next height.  *)
CreatedAfter_OffByOne(coins, fork) == {c \in Held(coins) : coins[c].created > fork + 1}

(* rollback_to: the coins it forgets ...                                    *)
CreatedAfter(coins, fork) == {c \in Held(coins) : coins[c].created > fork}

(* ... and those of the rest whose spend it undoes.                         *)
SpentAfter(coins, fork) ==
  {c \in Held(coins) \ CreatedAfter(coins, fork) : coins[c].spent > fork}

(* rollback_to: the table it leaves behind.                                 *)
RolledBack(coins, fork) ==
  [c \in Coin |->
     IF c \in CreatedAfter(coins, fork) THEN NoCoin
     ELSE IF c \in SpentAfter(coins, fork) THEN [coins[c] EXCEPT !.spent = 0]
     ELSE coins[c]]

(* Mutant: only the forgotten coins are reported. *)
Affected_ForgottenOnly(coins, fork) == CreatedAfter(coins, fork)

(* rollback_to: the coins it reports as touched.                            *)
Affected(coins, fork) == CreatedAfter(coins, fork) \cup SpentAfter(coins, fork)
=============================================================================
