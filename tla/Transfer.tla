---------------------------- MODULE Transfer ----------------------------
(***************************************************************************)
(* Import and export from the window: the warning, the password, the file  *)
(* choosers and the file itself.  The lock timer and other programs work   *)
(* while a chooser is on the screen, so that the vault which is open when  *)
(* it is answered need not be the one that was open when it was asked for. *)
(***************************************************************************)
EXTENDS TransferFormats

CONSTANTS
    VaultContents,  \* the accounts that a vault may have when it is opened
    Later,          \* bound: those of the vaults that are opened after an export
    Cut,            \* bound: those in the middle of which an export may fail
    NoFile,
    MaxImported     \* bound: no import that would make more accounts

ASSUME TransferAssumption ==
    /\ VaultContents \subseteq Seq(Record)
    /\ Later \subseteq VaultContents /\ Cut \subseteq VaultContents /\ MaxImported \in Nat

VARIABLES
    vaultOpen,      \* a vault is open: there is an account manager
    vaultAccounts,  \* its accounts
    dialog,         \* what is on the screen: "none", "warning", "password",
                    \* "save" or "import"
    exchange        \* the exchange file: its format, the accounts it was to have,
                    \* how many of them are done and its text

transferVars == <<vaultOpen, vaultAccounts, dialog, exchange>>

\* The file of the first n accounts of s and a piece of the next one.
FileOf(format, s, n, piece) ==
    [format |-> format, from |-> s, done |-> n,
     text |-> Written(format, SubSeq(s, 1, n)) \o piece]
Imported == Read(exchange.format, exchange.text)

TransferInit ==
    /\ vaultOpen = FALSE /\ vaultAccounts = <<>>
    /\ dialog = "none" /\ exchange = NoFile

OpenVault ==
    /\ ~vaultOpen
    /\ vaultOpen' = TRUE
    /\ vaultAccounts' \in (IF exchange = NoFile THEN VaultContents ELSE Later)
    /\ UNCHANGED <<dialog, exchange>>

\* Closing or locking it, also under a dialog.
CloseVault ==
    /\ vaultOpen
    /\ vaultOpen' = FALSE /\ vaultAccounts' = <<>>
    /\ UNCHANGED <<dialog, exchange>>

Turn(from, to) == dialog = from /\ dialog' = to /\ UNCHANGED <<vaultOpen, vaultAccounts, exchange>>

StartExport == vaultOpen /\ Turn("none", "warning")
Warned == Turn("warning", "password")
\* The password of the user who is logged in now.
Authenticate == vaultOpen /\ Turn("password", "save")
StartImport == vaultOpen /\ Turn("none", "import")
\* Cancelled, or refused with a message.
Dismiss == dialog # "none" /\ Turn(dialog, "none")

\* The vault is asked for its accounts again; closed, it has no manager.
Export(format) ==
    /\ dialog = "save" /\ vaultOpen
    /\ dialog' = "none"
    /\ exchange' = FileOf(format, vaultAccounts, Len(vaultAccounts), <<>>)
    /\ UNCHANGED <<vaultOpen, vaultAccounts>>
\* The disk is full in the middle of an account: the file stays as far as it
\* was written.
ExportFails(format) ==
    /\ dialog = "save" /\ vaultOpen /\ vaultAccounts \in Cut
    /\ dialog' = "none"
    /\ \E n \in 0..(Len(vaultAccounts) - 1) :
        \E piece \in Torn(format, vaultAccounts[n + 1]) :
            exchange' = FileOf(format, vaultAccounts, n, piece)
    /\ UNCHANGED <<vaultOpen, vaultAccounts>>

\* Every account that is read is added; none is EMPTY_FILE.
Import ==
    /\ dialog = "import" /\ vaultOpen /\ exchange # NoFile
    /\ Imported # <<>> /\ Len(vaultAccounts) + Len(Imported) <= MaxImported
    /\ dialog' = "none"
    /\ vaultAccounts' = vaultAccounts \o Imported
    /\ UNCHANGED <<vaultOpen, exchange>>

TransferNext ==
    \/ OpenVault \/ CloseVault
    \/ StartExport \/ Warned \/ Authenticate \/ StartImport \/ Dismiss
    \/ \E format \in Formats : Export(format) \/ ExportFails(format)
    \/ Import

TransferSpec == TransferInit /\ [][TransferNext]_transferVars
-----------------------------------------------------------------------------
(* Properties *)

Done == SubSeq(exchange.from, 1, exchange.done)
Whole == exchange.done = Len(exchange.from)

\* An account that a format can carry comes back from the file as it was, in
\* the company of whatever other accounts and through all the escapes, also when
\* the file is cut off after it; when every account is one, the import begins
\* with the accounts that were written, and is the export if all were.
CarriedSurvive ==
    exchange # NoFile =>
        /\ \A i \in DOMAIN Done :
            Carries(exchange.format, Done[i]) => Contains(Imported, Done[i])
        /\ (\A i \in DOMAIN Done : Carries(exchange.format, Done[i]))
            => IsPrefix(Done, Imported) /\ (Whole => Imported = exchange.from)

\* Quotation marks, entities and braces may damage a text, but they neither
\* lose an account nor make one of a part of another, and of an account in the
\* middle of which the file was cut off at most one is made.  (The separator in
\* a text loses its account in 1PIF, as Counted says; in CSV line breaks, about
\* which nothing is said here, split one in several.)
OneRecordPerAccount ==
    exchange # NoFile
        /\ (exchange.format = "csv" => \A i \in DOMAIN exchange.from : \A f \in DOMAIN Empty :
                ~Has(exchange.from[i][f], "newline"))
    => LET counted == Len(AtPositions(Done,
                {i \in DOMAIN Done : Counted(exchange.format, Done[i])}))
       IN Len(Imported) = counted \/ (~Whole /\ Len(Imported) = counted + 1)
=============================================================================
