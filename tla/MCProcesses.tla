---------------------------- MODULE MCProcesses ----------------------------
(* Two processes, an old build and a new one that knows one package more.  *)
(* Mainnet's checkpoint 0 has a transaction with a fill of the new         *)
(* package, one a foreign package emitted, then events of the old one; a   *)
(* transaction with an event that does not deserialize and one of a type   *)
(* nobody decodes; and one without events.  1 has times at every boundary, *)
(* 2 more fills than a statement binds.  Testnet's checkpoint 1 has a      *)
(* number no JSON value holds.  Half = 16, dates exist up to 12, a         *)
(* statement binds 3 fills.                                                *)
EXTENDS Processes

CONSTANTS p1, p2, old, new, oldPkg, newPkg, testPkg, foreign

Fill == <<"order_info", "OrderFilled">>
Expired == <<"order_info", "OrderExpired">>
Ev(emitter, home, type, contents, time) ==
  [emitter |-> emitter, home |-> home, type |-> type, contents |-> contents,
   time |-> time]
Tx(d, events) == [digest |-> d, events |-> events]
File(net, seq, ms, txs) == [net |-> net, seq |-> seq, ms |-> ms, txs |-> txs]
F(time) == Ev(oldPkg, oldPkg, Fill, "ok", time)

MCLedger == [mainnet |->
  << File("mainnet", 0, 5,
       << Tx("a", << Ev(newPkg, newPkg, Fill, "ok", 5),
                     Ev(foreign, oldPkg, Fill, "ok", 5),
                     F(4), Ev(newPkg, oldPkg, Placed, "ok", 5),
                     Ev(oldPkg, oldPkg, Canceled, "ok", 6) >>),
          Tx("b", << Ev(oldPkg, oldPkg, Fill, "garbled", 5), F(5),
                     Ev(oldPkg, oldPkg, Expired, "ok", 5),
                     Ev(oldPkg, oldPkg, Modified, "ok", 5) >>),
          Tx("c", <<>>) >>),
     File("mainnet", 1, 31, << Tx("d", << F(12), F(13), F(16) >>) >>),
     File("mainnet", 2, 7, << Tx("e", << F(7), F(7), F(7), F(7) >>) >>) >>,
  testnet |->
  << File("testnet", 0, 6,
       << Tx("g", << Ev(testPkg, testPkg, Fill, "ok", 31) >>) >>),
     File("testnet", 1, 8,
       << Tx("h", << Ev(testPkg, testPkg, Fill, "ok", 8),
                     Ev(testPkg, testPkg, Placed, "unprintable", 8) >>) >>) >>]

MCProcs == {p1, p2}
MCBuilds == {old, new}

MCPackages == [b \in {old, new} |->
  [mainnet |-> IF b = old THEN {oldPkg} ELSE {oldPkg, newPkg},
   testnet |-> {testPkg}]]

MCRepresentable == (-12)..12
=============================================================================
