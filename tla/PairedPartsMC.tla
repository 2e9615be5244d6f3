---------------------------- MODULE PairedPartsMC ----------------------------
(* Six components whose calls, sessions or terminals come in interchangeable  *)
(* pairs, in one instance.  As in DaemonPartsMC they share no variable and no *)
(* step: part names the one a behaviour is about and the others rest in an    *)
(* initial state.  The pairs of all components have the same two names, so    *)
(* that few permutations stand for them all.                                  *)
EXTENDS HostSessions, ChannelBridge, AcpSession, Terminals, FileEdits,
        FeishuDelivery, TLC

CONSTANTS a, b, u, v

VARIABLE part

Parts == {"sessions", "bridge", "acp", "terminals", "edits", "feishu"}

(* The patches the calls of file_edit bring: every kind of hunk, more than    *)
(* one of them in a patch, chunks that must be sought, at the end of the file *)
(* and without old lines.                                                     *)
Chunk(context, old, new, eof) ==
  [context |-> context, old |-> old, new |-> new, eof |-> eof]
Update(p, to, chunks) == [kind |-> "update", path |-> p, to |-> to, chunks |-> chunks]
EditPatches == {
  << [kind |-> "delete", path |-> "g"], [kind |-> "add", path |-> "f", lines |-> <<"a">>] >>,
  << Update("f", "same", << Chunk(<<>>, <<"a">>, <<"b">>, FALSE),
                            Chunk(<<>>, <<"b", "">>, <<"a", "">>, FALSE) >>) >>,
  << Update("f", "g", << Chunk(<<"a">>, <<"b">>, <<>>, FALSE),
                         Chunk(<<>>, <<>>, <<"b">>, FALSE) >>) >>,
  << [kind |-> "replace", path |-> "g", expected |-> 2, old |-> <<"b">>, new |-> <<"a", "b">>],
     Update("f", "same", << Chunk(<<>>, <<"a", "b">>, <<"b">>, FALSE),
                            Chunk(<<>>, <<"b">>, <<>>, TRUE) >>) >>
}
EditContents == { <<"a", "b">>, <<"a ", "b", "a", "b">> }

(* Where a component has several initial states, one is enough to rest in;    *)
(* the files need not begin with every pair of contents.                      *)
RestsInOne ==
  /\ part # "bridge" => line.kind = "weixin"
  /\ part # "acp" => conn.proto = 1
  /\ part # "edits" => \A p \in Paths : files[p] = Missing
  /\ files["g"] = Missing \/ (files["f"] = <<"a", "b">> /\ files["g"] # files["f"])

PairsInit ==
  /\ part \in Parts
  /\ HostInit /\ BridgeInit /\ AcpInit /\ TermInit /\ EditInit /\ DeliveryInit
  /\ RestsInOne

PairsNext ==
  \/ /\ part = "sessions" /\ HostNext
     /\ UNCHANGED <<part, bridgeVars, acpVars, termVars, editVars,
                    deliveryVars>>
  \/ /\ part = "bridge" /\ BridgeNext
     /\ UNCHANGED <<part, hostVars, acpVars, termVars, editVars,
                    deliveryVars>>
  \/ /\ part = "acp" /\ AcpNext
     /\ UNCHANGED <<part, hostVars, bridgeVars, termVars, editVars,
                    deliveryVars>>
  \/ /\ part = "terminals" /\ TermNext
     /\ UNCHANGED <<part, hostVars, bridgeVars, acpVars, editVars,
                    deliveryVars>>
  \/ /\ part = "edits" /\ EditNext
     /\ UNCHANGED <<part, hostVars, bridgeVars, acpVars, termVars,
                    deliveryVars>>
  \/ /\ part = "feishu" /\ DeliveryNext
     /\ UNCHANGED <<part, hostVars, bridgeVars, acpVars, termVars, editVars>>

PairsSpec == PairsInit /\ [][PairsNext]_<<part, hostVars, bridgeVars, acpVars,
  termVars, editVars, deliveryVars>>

(* Calls, chats, terminals, edits and short messages are {a, b}; sessions of  *)
(* the host and the places of a batch are {u, v}: no definition tells the two *)
(* of a pair apart.                                                           *)
PairSymmetry == Permutations({a, b}) \union Permutations({u, v})
=============================================================================
