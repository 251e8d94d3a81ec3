------------------------------ MODULE MCWallet ------------------------------
(* The spend pipeline, the parked offer builds, the wallet's records, the   *)
(* registries and the opening of the durable stores in one instance.  They  *)
(* share no state: a behaviour is one of one part.  A part that leaves the  *)
(* wallet alone has one of more than a u64, of which SelectionSound is      *)
(* silent: it need not be evaluated over and over for the same coins.       *)
EXTENDS MCSpends, OfferBuilds, WalletRecords, Registries, DurableSchema

CONSTANTS client1, client2

ClientSymmetry == Permutations(Client)

VARIABLE part

(* What a peer may answer with.                                            *)
Seen(hinted, dids, nfts, cats, bad) ==
    [runs |-> TRUE, hinted |-> hinted, dids |-> dids, nfts |-> nfts, cats |-> cats, bad |-> bad]
s1 == Seen(<<[coin |-> "c1", hints |-> {"h1", "h2"}], [coin |-> "c2", hints |-> {"h1"}]>>,
           <<>>, <<[launcher |-> "n1", uri |-> 1]>>,
           <<[asset |-> "cat", amount |-> 2], [asset |-> "cat", amount |-> 1]>>, 0)
s2 == Seen(<<[coin |-> "c2", hints |-> {"h2"}]>>, <<"d1">>,
           <<[launcher |-> "n1", uri |-> 2]>>, <<>>, 1)
s3 == [runs |-> FALSE]
PeerAnswers == {<<>>, <<s1>>, <<s1, s2>>, <<s3, s2>>}

Init ==
    /\ part \in {"gate", "flow", "select", "records", "book", "tables", "schema", "offers"}
    /\ CASE part = "gate"   -> GatePartInit
         [] part = "select" -> SelectPartInit
         [] part = "flow"   -> FlowPartInit
         [] OTHER           -> FlowInit({y1, y2}, Me)
    /\ RecordsInit /\ BookInit /\ RegistryInit /\ SchemaInit /\ BuildsInit
    /\ part # "book" => network = "mainnet"

Next ==
    /\ UNCHANGED part
    /\ \/ /\ part \in {"gate", "flow", "select"}
          /\ \/ part = "gate" /\ GatePartNext
             \/ part = "flow" /\ FlowPartNext
             \/ part = "select" /\ SelectPartNext
          /\ UNCHANGED <<recordVars, bookVars, registryVars, schemaVars, buildVars>>
       \/ /\ part = "records" /\ RecordsNext
          /\ UNCHANGED <<pipelineVars, bookVars, registryVars, schemaVars, buildVars>>
       \/ /\ part = "book" /\ BookNext
          /\ UNCHANGED <<pipelineVars, recordVars, registryVars, schemaVars, buildVars>>
       \/ /\ part = "tables" /\ RegistryNext
          /\ UNCHANGED <<pipelineVars, recordVars, bookVars, schemaVars, buildVars>>
       \/ /\ part = "schema" /\ SchemaNext
          /\ UNCHANGED <<pipelineVars, recordVars, bookVars, registryVars, buildVars>>
       \/ /\ part = "offers" /\ BuildsNext
          /\ UNCHANGED <<pipelineVars, recordVars, bookVars, registryVars, schemaVars>>

(* The types of every part, the ledger's u64 totals among them.            *)
TypeOK ==
    /\ GateTypeOK /\ FlowTypeOK /\ RecordsTypeOK /\ RegistriesTypeOK /\ SchemaTypeOK
    /\ BuildsTypeOK
=============================================================================
