------------------------------ MODULE LegacyUsb ------------------------------
(***************************************************************************)
(* The USB device and the connector switch of the first-generation         *)
(* firmware (rp2354_usb_msc.c, peripheral_safety.c, rp2354_connector.c) as *)
(* operators on their state.  Of the reports of the FIDO interface only    *)
(* that there may be too many is kept.                                     *)
(***************************************************************************)
EXTENDS Naturals

UsbOff == [up |-> FALSE, fido |-> FALSE, attached |-> FALSE, blocks |-> FALSE,
           eject |-> FALSE, failed |-> FALSE]

\* fv_rp2354_usb_msc_attach; blocksReady: the plaintext device is present
CanAttachMsc(u, blocksReady) == ~u.up /\ ~u.attached /\ blocksReady
AttachMsc(u) == [UsbOff EXCEPT !.up = TRUE, !.attached = TRUE, !.blocks = TRUE]
\* tusb_init failed
AttachMscFailed(u) == [u EXCEPT !.blocks = FALSE, !.eject = FALSE, !.failed = FALSE,
                                !.fido = FALSE]

\* fv_rp2354_usb_fido_attach
CanAttachFido(u) == ~u.up /\ ~u.attached /\ ~u.blocks
AttachFido(u) == [u EXCEPT !.fido = TRUE, !.up = TRUE]

\* fv_rp2354_usb_msc_detach; an eject that was requested stays requested
UsbDetach(u) == [UsbOff EXCEPT !.eject = u.eject]

BackendReady(u, blocksReady) == u.attached /\ u.blocks /\ blocksReady

\* test_unit_ready, read10, write10, SYNCHRONIZE CACHE: what a request that
\* was not carried out leaves behind
RequestRefused(u) == [u EXCEPT !.failed = @ \/ u.attached]
RequestFailed(u) == [u EXCEPT !.failed = TRUE]
\* start_stop with load_eject: the last request that is served
Ejected(u) == [u EXCEPT !.attached = FALSE, !.eject = TRUE]
\* tud_umount_cb, tud_suspend_cb
Unmounted(u) == [u EXCEPT !.eject = @ \/ u.fido]
\* report_overflow, seen by the next fv_rp2354_usb_task_at
Overflowed(u) == [UsbDetach(u) EXCEPT !.failed = TRUE]

NoRoute == [faulted |-> FALSE, routed |-> FALSE, state |-> "none", route |-> "none"]

\* connector_trip
Trip(k) == [NoRoute EXCEPT !.faulted = TRUE]

\* fv_connector_safety_poll: the cables seen by the two pairs of presence
\* pins; "unreadable" is a pair that disagrees
PollTrips(k, cable) ==
  \/ cable \in {"both", "unreadable"}
  \/ k.routed /\ cable # k.route
ConnectorPoll(k, cable) ==
  CASE k.faulted -> k
    [] ~k.faulted /\ PollTrips(k, cable) -> Trip(k)
    [] OTHER -> [k EXCEPT !.state = cable]

\* fv_connector_safety_route, fv_connector_safety_disable
CanRoute(k) == ~k.faulted /\ ~k.routed /\ k.state \in {"A", "C"}
Route(k) == [k EXCEPT !.routed = TRUE, !.route = k.state]
Disable(k) == [k EXCEPT !.routed = FALSE, !.route = "none"]
=============================================================================
