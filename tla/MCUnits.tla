------------------------------- MODULE MCUnits -------------------------------
(* Four parts that share no state, side by side: the rings of the Ethernet  *)
(* driver, the tick, the settings in the flash and the DHCP client.  A      *)
(* behaviour of a run follows one of them.                                  *)
EXTENDS MACRings, Tick, Parameters, DHCPClient

CONSTANTS c1, c2, c3, A, B

MCLeases == {NoLease, 1}

VARIABLE unit

unitVars == <<ringVars, tickVars, parameterVars, dhcpVars, unit>>

UnitsInit ==
  /\ MACInit /\ TickInit /\ ParametersInit /\ DHCPInit
  /\ unit \in {"rings", "tick", "settings", "dhcp"}
  /\ unit = "rings" \/ ~linkUp

Rings(step) == unit = "rings" /\ step /\ UNCHANGED <<tickVars, parameterVars, dhcpVars, unit>>
TickStep ==
  unit = "tick" /\ TickNext /\ UNCHANGED <<ringVars, parameterVars, dhcpVars, unit>>
ParametersStep ==
  unit = "settings" /\ ParametersNext /\ UNCHANGED <<ringVars, tickVars, dhcpVars, unit>>
Client(step) == unit = "dhcp" /\ step /\ UNCHANGED <<ringVars, tickVars, parameterVars, unit>>

UnitsNext == Rings(RingsNext) \/ TickStep \/ ParametersStep \/ Client(DHCPNext)

\* The fairness of FairRingsSpec and of FairDHCPSpec.
UnitsSpec ==
  /\ UnitsInit /\ [][UnitsNext]_unitVars
  /\ WF_unitVars(Rings(MACGetHeader)) /\ WF_unitVars(Rings(MACDiscardRxResume))
  /\ WF_unitVars(Rings(MACFlushResume)) /\ WF_unitVars(Rings(DMATransmit))
  /\ WF_unitVars(Client(QuietTask)) /\ WF_unitVars(Client(SecondPasses))

\* The variables of the four modules keep their types.
UnitsTypeOK == RingsTypeOK /\ TickTypeOK /\ ParametersTypeOK /\ DHCPTypeOK
=============================================================================
