---------------------------- MODULE NetworkConfig ----------------------------
(***************************************************************************)
(* Which Stellar network a command works on.  Three commands make a        *)
(* passphrase out of their flags, each with code of its own: `fetch rpc`   *)
(* (cmd/firestellar/fetcher.go), `fetch captive-core` with the Config of   *)
(* captivecore/captivecore.go, and tool-compare-fetcher-blocks.  The SDK   *)
(* recomputes transaction hashes with the passphrase, so a wrong one makes *)
(* the transactions of a ledger unreadable.                                *)
(***************************************************************************)

CONSTANTS
  Public,       \* PublicNetworkPassphrase
  Test,         \* TestNetworkPassphrase
  Private,      \* the passphrase of a network of one's own
  Unset         \* a flag that is empty, a field that is nil

ASSUME PassphrasesAssumption ==
  Public # Test /\ Private \notin {Public, Test} /\ Unset \notin {Public, Test, Private}

Passphrases == {Public, Test, Private}

Names == {"mainnet", "testnet", "custom", "other"}

\* What the names stand for that need no further flag.
Named(name) ==
  CASE name = "mainnet" -> Public
    [] name = "testnet" -> Test
    [] OTHER -> Unset

----------------------------------------------------------------------------
(* fetch rpc.  named: --stellar-rpc-network was given, "mainnet" is its    *)
(* default; old: --is-mainnet, Unset when it was not given.                *)

RpcFlags ==
  {f \in [network: Names, named: BOOLEAN, override: Passphrases \union {Unset},
          old: BOOLEAN \union {Unset}] : ~f.named => f.network = "mainnet"}

\* Mutant: the deprecated flag wins over the new one.
RpcPassphraseOldFirst(f) ==
  IF f.override # Unset THEN f.override
  ELSE IF f.old # Unset THEN (IF f.old = TRUE THEN Public ELSE Test)
  ELSE Named(f.network)

\* The passphrase, Unset when the command refuses its flags.
RpcPassphrase(f) ==
  IF f.override # Unset THEN f.override
  ELSE IF f.old # Unset /\ ~f.named THEN (IF f.old = TRUE THEN Public ELSE Test)
  ELSE Named(f.network)

----------------------------------------------------------------------------
(* fetch captive-core.  named: --stellar-core-network was given, "testnet" *)
(* is its default; urls, conf: whether history archives and a config file  *)
(* are given.  A Config names, for each of its parts, the network it is    *)
(* of, or Private when it comes from the operator.                         *)

CaptiveFlags ==
  {f \in [network: Names, named: BOOLEAN, override: Passphrases \union {Unset},
          urls: BOOLEAN, conf: BOOLEAN] : ~f.named => f.network = "testnet"}

EmptyConfig == [passphrase |-> Unset, archives |-> Unset, toml |-> Unset]

\* Values already set are preserved.
Fill(c, p) ==
  [passphrase |-> IF c.passphrase = Unset THEN p ELSE c.passphrase,
   archives |-> IF c.archives = Unset THEN p ELSE c.archives,
   toml |-> IF c.toml = Unset THEN p ELSE c.toml]

ResolveNetwork(c, name) == IF Named(name) = Unset THEN c ELSE Fill(c, Named(name))

\* Explicit flags are applied after the defaults.
Overridden(f, c) ==
  [c EXCEPT !.passphrase = IF f.override # Unset THEN f.override ELSE @,
            !.archives = IF f.urls THEN Private ELSE @]

CaptiveConfig(f) == Overridden(f, ResolveNetwork(EmptyConfig, f.network))

\* The command's own check and validate; the binary and the logger are set.
CaptiveAccepts(f) ==
  /\ f.network # "other"
  /\ f.conf \/ CaptiveConfig(f).toml # Unset
  /\ CaptiveConfig(f).passphrase # Unset
  /\ CaptiveConfig(f).archives # Unset

CaptivePassphrase(f) == IF CaptiveAccepts(f) THEN CaptiveConfig(f).passphrase ELSE Unset

----------------------------------------------------------------------------

\* Mutant: the flag is not looked at.
ComparePassphraseMainnet(name) == Public

\* tool-compare-fetcher-blocks --network.
ComparePassphrase(name) == Named(name)
=============================================================================
