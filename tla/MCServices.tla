----------------------------- MODULE MCServices -----------------------------
(***************************************************************************)
(* The services around the machines, for TLC.  They share no state, so     *)
(* that a behaviour is one of a single service, its subject, while the     *)
(* others stay as they begin.                                              *)
(***************************************************************************)
EXTENDS DataChannel, Accounts, MachineFleet, Devices

VARIABLE subject

services == <<subject, channelVars, accountsVars, fleetVars, devicesVars>>

MCShapes == {<<2>>, <<5, 1>>, <<6, 2, 0>>, <<4, 2, 0, 6>>}
MCFiles == {<<"by-id", "a">>, <<"by-id", "b">>, <<"by-path", "a">>,
            <<"tmp", "a">>, <<"tmp", "b">>}

Init ==
  /\ subject \in {"channel", "accounts", "fleet", "devices"}
  /\ ChannelInit /\ AccountsInit /\ FleetInit /\ DevicesInit
  /\ subject # "fleet" => served = {} /\ \A m \in Machines : resolvers[m] = "no"
  /\ subject # "devices" => exists = Directories

OfChannel(A) ==
  subject = "channel" /\ A /\ UNCHANGED <<subject, accountsVars, fleetVars, devicesVars>>
OfAccounts(A) ==
  subject = "accounts" /\ A /\ UNCHANGED <<subject, channelVars, fleetVars, devicesVars>>
OfFleet(A) ==
  subject = "fleet" /\ A /\ UNCHANGED <<subject, channelVars, accountsVars, devicesVars>>
OfDevices(A) ==
  subject = "devices" /\ A /\ UNCHANGED <<subject, channelVars, accountsVars, fleetVars>>

Next ==
  \/ OfChannel(ChannelNext) \/ OfAccounts(AccountsNext)
  \/ OfFleet(FleetNext) \/ OfDevices(DevicesNext)

\* ChannelFairness, for the behaviours of the channel
Fairness ==
  /\ WF_services(OfChannel(ConnectSignalling)) /\ WF_services(OfChannel(AcknowledgeInit))
  /\ WF_services(OfChannel(RetrySignalling)) /\ WF_services(OfChannel(ConnectClient))
  /\ \A s \in Sessions : WF_services(OfChannel(AskForChannel(s)))

Spec == Init /\ [][Next]_services /\ Fairness

\* A client that asks for a channel is connected again and again, although its
\* bridge, that of another client or the signalling connection fails.
ClientsGetConnected == (subject = "channel") => ClientsConnect
=============================================================================
