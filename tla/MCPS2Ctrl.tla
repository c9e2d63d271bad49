------------------------------ MODULE MCPS2Ctrl ------------------------------
(* The firmware and the controllers of the run. *)
EXTENDS PS2Ctrl

Pointer(revision, rsdt, xsdt) ==
    [signature |-> TRUE, sum |-> TRUE, revision |-> revision, rsdt |-> rsdt, xsdt |-> xsdt]

Nothing == [Pointer(0, NULL, NULL) EXCEPT !.signature = FALSE, !.sum = FALSE]

Damaged == [Pointer(0, "old", NULL) EXCEPT !.sum = FALSE]

Table(signature, sum) ==
    [signature |-> signature, sum |-> sum, entries |-> <<>>, fadt |-> NoFADT, s5 |-> [at |-> "nowhere", type |-> 0]]

Root(signature, entries) == [Table(signature, TRUE) EXCEPT !.entries = entries]

FADT(fields) == [Table("FACP", TRUE) EXCEPT !.fadt = fields]

ADSDT(place, type, sum) == [Table("DSDT", sum) EXCEPT !.s5 = [at |-> place, type |-> type]]

\* Beside the tables in use, an outdated chain of tables that is whole in itself.
Tables(fields, s5, rootSum, sum) ==
    [a \in {NULL, "rsdt", "xsdt", "fadt", "dsdt", "other", "old", "oldFADT", "oldDSDT", "high"} |->
        CASE a = "rsdt" -> [Root("RSDT", <<"other", "fadt">>) EXCEPT !.sum = rootSum]
          [] a = "xsdt" -> Root("XSDT", <<"high", "other", "fadt">>)
          [] a = "fadt" -> FADT(fields)
          [] a = "dsdt" -> ADSDT(s5, 5, sum)
          [] a = "other" -> Table("APIC", TRUE)
          [] a = "old" -> Root("RSDT", <<"oldFADT">>)
          [] a = "oldFADT" -> FADT([fields EXCEPT !.dsdt = "oldDSDT", !.xdsdt = NULL])
          [] a = "oldDSDT" -> ADSDT("proper", 7, TRUE)
          [] OTHER -> Table("none", FALSE)]

Areas ==
    {<<Nothing, Nothing>>, <<Damaged, Nothing, Pointer(0, "rsdt", NULL)>>,
     <<[Damaged EXCEPT !.rsdt = NULL], Pointer(0, "rsdt", NULL)>>,
     <<Pointer(0, "rsdt", NULL)>>, <<Nothing, Damaged, Pointer(2, "rsdt", "xsdt")>>,
     <<Pointer(2, "rsdt", "high")>>, <<Pointer(2, NULL, "high")>>}

\* The right DSDT is behind the extended address or the short one; the version and the
\* controller's flag vary behind the short one.
FADTs ==
    {f \in [major : {1, 2}, dsdt : {"dsdt", "oldDSDT"}, xdsdt : {NULL, "dsdt", "high"},
            smi : BOOLEAN, pm1b : BOOLEAN, has8042 : BOOLEAN] :
        /\ f.dsdt = "dsdt" \/ f.xdsdt = "dsdt"
        /\ f.xdsdt # NULL => f.major = 2 /\ f.has8042}

\* Firmware whose description leads to the right DSDT, which is whole and has an \_S5_.
Conforms(area, fields, s5, rootSum, sum, on) ==
    /\ \E pointer \in Range(area) : pointer.sum /\ pointer.rsdt # NULL
    /\ rootSum /\ sum /\ s5 = "proper"
    /\ on \/ fields.smi

AFirmware(area, fields, s5, rootSum, sum, on) ==
    [area |-> area, tables |-> Tables(fields, s5, rootSum, sum), on |-> on,
     sleep |-> IF s5 = "proper" THEN 5 ELSE NotRead,
     conforming |-> Conforms(area, fields, s5, rootSum, sum, on)]

MCFirmwares ==
    {AFirmware(area, fields, s5, TRUE, TRUE, on) :
        area \in Areas, fields \in FADTs, s5 \in {"proper", "last", "nowhere", "odd"}, on \in BOOLEAN}
    \cup {AFirmware(area, fields, "proper", ~sum, sum, FALSE) :
        area \in Areas, fields \in FADTs, sum \in BOOLEAN}

Usual ==
    [dual |-> TRUE, config |-> {INT1, SYSTEM, TRANSLATION}, pending |-> FALSE, resets |-> TRUE,
     test |-> TRUE, test1 |-> TRUE, test2 |-> TRUE, quick |-> TRUE, maxKeys |-> 0]

\* Quick controllers of every kind, and slow ones or ones with keys pressed.
MCControllers ==
    {c \in [dual : BOOLEAN, config : {{INT1, SYSTEM, TRANSLATION}, {}, {INT2, CLOCK1, CLOCK2}},
            pending : BOOLEAN, resets : BOOLEAN, test : BOOLEAN, test1 : BOOLEAN, test2 : BOOLEAN,
            quick : BOOLEAN, maxKeys : {0, 2}] :
        ~c.quick \/ c.maxKeys > 0 => c.test /\ c.test1 /\ c.test2}

NoACPI == AFirmware(<<Nothing>>, [NoFADT EXCEPT !.dsdt = "dsdt"], "odd", FALSE, FALSE, TRUE)

\* Every firmware with the usual controller, and every controller without ACPI.
MCComputers ==
    {<<f, Usual>> : f \in MCFirmwares} \cup {<<NoACPI, c>> : c \in MCControllers}
=============================================================================
