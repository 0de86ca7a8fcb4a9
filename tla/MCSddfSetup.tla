---------------------------- MODULE MCSddfSetup ----------------------------
(* Instances of SddfSetup for TLC; the bounds are given in the .cfg.       *)
EXTENDS SddfSetup

MCComponents == {"eth0", "serial0", "blk0", "rx_eth0", "tx_eth0", "cli0_copy",
                 "rx_serial0", "tx_serial0", "timer0", "echo", "late", "other"}

Link(s, v) == [to |-> s, virt |-> v]
Only(f, d) == [c \in MCComponents |-> IF c \in DOMAIN f THEN f[c] ELSE d]

(* What init spawns.                                                       *)
InitOrder == <<"eth0", "serial0", "blk0", "rx_eth0", "tx_eth0", "cli0_copy",
               "rx_serial0", "tx_serial0", "timer0", "echo">>
InitKind ==
  [eth0 |-> "net_driver", serial0 |-> "serial_driver", blk0 |-> "blk_driver",
   rx_eth0 |-> "net_virt_rx", tx_eth0 |-> "net_virt_tx",
   cli0_copy |-> "copier", rx_serial0 |-> "serial_virt",
   tx_serial0 |-> "serial_virt", timer0 |-> "timer"]
InitLinks ==
  [rx_eth0 |-> <<Link("eth0", "rx")>>, tx_eth0 |-> <<Link("eth0", "tx")>>,
   cli0_copy |-> <<Link("rx_eth0", Nothing)>>,
   rx_serial0 |-> <<Link("serial0", "rx")>>,
   tx_serial0 |-> <<Link("serial0", "tx")>>,
   late |-> <<Link("rx_serial0", Nothing)>>,
   echo |-> <<Link("cli0_copy", Nothing), Link("tx_eth0", Nothing),
              Link("rx_serial0", Nothing), Link("tx_serial0", Nothing),
              Link("timer0", Nothing)>>]

(* All of it, and a second client of the serial virtualisers afterwards;   *)
(* its halves, where a client may call at any time.                        *)
Whole == Append(InitOrder, "late")
Network == {"eth0", "rx_eth0", "tx_eth0", "cli0_copy", "timer0", "echo"}
Serial == {"serial0", "rx_serial0", "tx_serial0", "echo", "late"}

Booted(some, strict, bound) ==
  [order |-> SelectSeq(Whole, LAMBDA c : c \in some),
   kind |-> Only(InitKind, "client"),
   links |-> [c \in MCComponents |->
                SelectSeq(Only(InitLinks, <<>>)[c], LAMBDA l : l.to \in some)],
   unruly |-> {}, strangers |-> {"late"}, strict |-> strict,
   faults |-> bound]

(* One server, clients that keep to its script and one that calls as it    *)
(* pleases.                                                                *)
Pestered(kind, clients) ==
  [order |-> <<"eth0">> \o clients \o <<"other">>,
   kind |-> [c \in MCComponents |-> IF c = "eth0" THEN kind ELSE "client"],
   links |-> [c \in MCComponents |->
                IF c = "eth0" THEN <<>>
                ELSE <<Link("eth0",
                            IF kind \in Drivers THEN "rx" ELSE Nothing)>>],
   unruly |-> {"other"}, strangers |-> {clients[n] : n \in DOMAIN clients},
   strict |-> FALSE, faults |-> 0]

MCBooted ==
  {Booted(MCComponents, TRUE, 1), Booted(Network, FALSE, 0),
   Booted(Serial, FALSE, 0)}
MCPestered ==
  {Pestered(k, <<>>) :
     k \in {"net_virt_rx", "net_virt_tx", "copier", "serial_virt", "timer"}}
  \cup {Pestered(k, <<"late">>) : k \in Drivers \cup {"timer"}}
MCSystems == MCBooted \cup MCPestered

(* What SetupStartsDevicesLast assumes holds of each of them.              *)
ASSUME MCAssumption == \A y \in MCSystems : IsUncrowded(y)

(* What SetupNobodyPanics assumes besides holds of all that init spawns,   *)
(* and of its network half.                                                *)
ASSUME MCMatched ==
  /\ IsMatched(Booted(MCComponents \ {"late"}, TRUE, 1))
  /\ IsMatched(Booted(Network, FALSE, 0))

=============================================================================
