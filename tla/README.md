# Verification of gwmilter

gwmilter is a milter: the MTA (Postfix) calls it through libmilter at every step of
an SMTP transaction, and at end of message it encrypts the mail for its recipients.
The recipients are split by configuration section; the first section with usable
recipients alters the mail the MTA holds, and every further section becomes a signed
copy that gwmilter re-injects over SMTP. The configuration is reloaded on SIGHUP.

This directory holds TLA+ models of that program, TLC configurations that check them
on small instances, and theorems checked by TLAPS. Paths below are relative to the
repository root.

## Inventory

| Part | State | Operations | Interacts with |
|------|-------|------------|----------------|
| callbacks, connection, message (`src/milter/milter_callbacks.cpp`, `milter_connection.*`, `milter_message.*`) | per connection: `msg_`; per message: `config_`, `contexts_` (recipients, good recipients, handler, encrypted body per section), `recipients_all_`, `body_`, `signature_header_` | connect, helo, envfrom, envrcpt, data, header, eoh, body, eom, abort, close, unknown | libmilter (callbacks in; replies, `smfi_replacebody`, `smfi_chgheader`, `smfi_delrcpt` out), handlers, SMTP client, the published configuration |
| body handlers (`src/handlers/`) | header list, header positions, buffered body, `preprocessed_` | add_header, write, encrypt, get_headers, has/import_public_key | GPGME / PDF libraries |
| SMTP client (`src/smtp/`) | work items (envelope, headers, body, read position), running transfers | set_*, read_callback, add, perform | libcurl, the re-injection server |
| email dump (`src/utils/dump_email.cpp`) | the file and whether to erase it | constructor, destructor | file system |
| configuration (`src/cfg2/config*.hpp/.cpp`, `section_registry.*`, `deserializer.hpp`, `ini_reader.cpp`) | an immutable `Config` | parse, deserialize, validate, find_match | file |
| configuration manager (`src/cfg2/config_manager.cpp`) | `current_config_` | getConfig, reload | signal thread |
| signal manager (`src/signal_manager.cpp`) | `running_`, the thread, the signal mask | signalLoop, destructor | kernel, libmilter (`smfi_stop`), manager, callbacks, logging |
| logging setup (`src/logger/`) | default logger | init_spdlog | every thread |
| main (`src/main.cpp`, `src/milter/milter.cpp`) | the process itself: working directory, user and groups, signal mask | options, daemon, drop privileges, run, teardown | all |
| the gateway as a whole (the milter, `smtp_client.cpp`, the MTA of `integrations/postfix`) | mails under way, copies, attempts | submit, re-inject, retry | senders, MTA, service manager |
| utilities (`src/utils/`) | - | string helpers, uid_generator | - |

What is hard here, and what makes each part correct:

- **Message lifetime.** A `milter_message` is created by the first callback that needs
  one and dropped by `on_eom`, `on_abort` and `on_close`; not by a refused DATA, and not
  when an exception leaves `on_eom`. Whatever it brings into the next transaction must
  not reach a mail.
- **Distribution of recipients.** Each keyed recipient gets exactly one copy, encrypted
  by its own section; nobody else gets any; no text leaves in clear unless the mail's
  own signature verified; nothing is re-injected before all encryption succeeded.
- **Reload during a transaction.** A transaction uses the configuration it captured.
- **Partial failure** of encryption, of libmilter calls, of some of the re-injected copies,
  and a lost last answer of a transfer.
- **Signals.** The signal thread reads a file that may change at any moment, publishes to
  callback threads, and must react to coalesced SIGHUPs, to SIGTERM and to teardown.
- **The same MTA on both sides.** Copies enter the MTA that waits for the answer about the mail they
  were made from, pass the milter again, and are retried, given up or lost on their own.
- **Configuration files** name sections in any order, case and number; what is accepted must be what
  the message handling relies on.
- **Start.** Threads do not survive a fork, paths a change of directory, permissions a change of user.
- **The dump.** Files are written before and removed after the processing of mails that fail, crash and
  finish independently of each other.
- **Text handling** (folding of the signature header, chunked upload, header positions),
  pure functions with boundary cases.

`PROJECT.json` lists every hazard at the line where it bites and the properties that
cover it; one without a property has a note that says why.

## Modules

### MilterConnection

One libmilter connection. libmilter calls the callbacks of a connection one at a time,
so each callback up to end of message is one action, with the name of the callback.
`xxfi_envrcpt` is split by its outcomes (`RcptUnmatched`, `RcptKeyFound`, `RcptDiscarded`,
`RcptRetrieved`, `RcptRefused`, `RcptThrows`). `xxfi_eom` runs long, and failures strike between
its steps while the signal thread publishes, so it is cut where it can stop: the dump, the
signature, one action per section of the loop, and one per transfer of `client_multi::perform`.
It returns through `EomReturn` (which drops the message, as `milter_connection::on_eom` does) or
through `EomEscape` (an exception that skips `msg_.reset()`).

`txn` numbers the transactions and stands for their text: `body_`, `written` (what a handler's
buffer was given) and the body of a copy are the sets of transactions whose chunks they hold, so a
mix of two transactions is visible. `written` accumulates, as the handlers' buffers do. A signature
header is absent, bad, or verifies for one transaction's body.
`has_public_key` and `import_public_key` answer differently at every call: keys come and go in the
keyring at any time. Encryption, signing and curl calls may throw wherever they are called.
`owed` and `mails` are history: which recipient was accepted with a key of which section, and which
copies have left. `find_match` takes the first section, in file order, that matches.

A configuration is what `Config::validate` and the sections' `validate` let through
(`PolicyAssumption`). `DumpMayFail` says whether `create_directories("dump")` can fail in the
deployment.

The order of callbacks is libmilter's: RCPT after MAIL, DATA after an accepted RCPT, headers before
end of headers before body, EOM last; `xxfi_abort` ends a transaction outside the filter, and may or
may not be called after the filter refused DATA or the message (after a refusal the next MAIL may
arrive on the same connection with the message still there); `xxfi_close` comes between any two callbacks.

### MCMilterConnection

Values for TLC: `MCSettings` has two configurations that disagree about sections, their order,
protocols, policies and recipients; `MCSmallSettings` is a smaller pair.

### SignalReload

The signal thread (`thread`), the main thread (`main`), the operator who edits the file and sends
signals, and the three places that hold a configuration: `current_config_`, the callbacks' `g_config`,
and the logger. A configuration is the version of the file it came from. `reload` is cut in
two (`ReloadExists`, `ReloadLoad`) since the file may change between, and publication in two
(`Publish`, `Relog`). `pending` is a set: POSIX keeps one pending signal of each kind and does not say
which one `sigwait` returns. libmilter's own signal thread is external:
`LibmilterTakesSignal` lets it take a pending signal as a request to stop. The configuration file is
valid, invalid, missing, or at a path that cannot be examined.

### SmtpDelivery, SmtpClient, MCSmtpClient

`SmtpDelivery` is what `on_eom` may rely on: copies are delivered one by one; then it is answered with a
number at least as large as the number of copies that did not arrive, or gets an exception.

`SmtpClient` is `client_multi` with the work items of one message. `add` and the destructor
are actions; `perform`'s loop is cut at its calls into libcurl: `curl_multi_perform` runs one handle's
`read_callback`, ends a transfer, or throws; `curl_multi_info_read` takes one finished transfer and
counts it when it failed; the loop ends when nothing runs. A message is its headers, then its body, as numbers of octets
with a position (`pos`); `read_callback` copies out of headers or body, never across. External are libcurl, which
chooses the handle and the room in its buffer, and the server, which accepts a message only after its end
and whose answer may be lost: a copy can be `accepted` while its transfer counts as failed.
`CURLOPT_TIMEOUT` is `Expire`.

### BodyHeaders, MCBodyHeaders

One mail's headers in one section: `headers_` and `header_pos_` of the handler (`on_header`, `add_header`),
what `preprocess` copies into the encrypted part (`write`, `inner`), `get_headers` of each of the four handlers, and then
one of the two ways out: `replace_headers`, header by header, with `strip_headers` after it, or
`set_message` for a copy. The milter's own `X-GWMilter-Signature`, spelled exactly so, is taken out by `on_header` and no handler
sees it (`Unsigned`); in another spelling it is a header like others. The mail at the MTA (`mail`) is external: `smfi_chgheader` finds a header by name without
regard to case and by its position among those left at that moment, as Postfix does; an empty value
deletes, a position behind the last adds. Values only tell what the mail had from what a handler sets.

### HeaderFold, MCHeaderFold

The text of a signature from `sign` to `verify_signature`: `sign` joins the lines of the armour, `pack_header_value`
folds the result, the MTA (external) turns CRLF into LF, `unpack_header_value` joins the lines again. Each round of the
loop of `pack_header_value` is an action (`FoldLine`), with the code's `pos` and `line_len`. The code calls it with one name and one limit;
the model has any that leave room for the name.

### MailPolicy, MilterPolicy, MCMilterPolicy

`MailPolicy` is what gwmilter promises about one mail, in a page: a recipient is promised to one section or to
none, sections are served one after the other, each for all its recipients, the last one by the answer that lets the
mail continue; it may be deferred at any point and refused for good only while nobody was served. `MilterPolicy` maps
MilterConnection to it: the callbacks up to the RCPT answers are its envelope, those from DATA to the answer its
content; `owed` is what was promised and the copies that left are what was served.

### ConfigLoad, MCConfigLoad

One load of a file: `parseIniFile` (`LoadFile`, one `ReadSection` after the other in loading order, `EndOfFile`), then `deserialize<Config>` child by child (`StaticSection`,
`DynamicSection`, `UnknownChild`), then the checks across sections (`Finish`). A file is a sequence of blocks of keys under a
header, in any order and spelling. SimpleIni is external: it compares names without regard to case, joins blocks of one
section, keeps the spelling that came first and the value that came last. Regular expressions and numbers are constants:
which texts they are, and in which recipients a pattern is found. What a loaded configuration has is what
MilterConnection assumes of one (`PolicyAssumption`, sections told apart by name).

### Gateway, MCGateway

Senders, the MTA, the milter and the copies together. A transaction is an attempt at a mail or the copy made
from it for a section; both pass the MTA's limited server processes and the milter. The envelope is one step here, taken against the
configuration of that moment (`Envelope`); the end of message is cut where other connections, a timeout, a reload or a crash can come in:
`EomPass`, `EomRefuse`, `EomThrow`, `EomReplace`, `EomReinject`, one step per transfer, `SendingEnds`. Libcurl and the MTA may
disagree about a copy (`TransferBreaks` leaves it with the MTA), and the MTA may give the milter up while its thread goes on
(`MtaGivesUp`). `perform()` throwing is the break of every transfer of that mail: they all end as failed and on_eom answers the same. A
header and a body are reduced to the sections that encrypted them, in order. A crashed milter is started again at once, with any
configuration. The senders and the MTA are external; the milter's share is `MilterNext`.

### Startup, MCStartup

The process around the milter: `main()` step by step in the order of `Order`, each step with its failure, and the reloads that run
later in that process. State is what the steps do to the process: working directory, user, group, supplementary groups, signal mask and thread,
spdlog's registry and default logger, and what the invoker was told. Paths are relative or absolute, and a file is readable by everybody or by root
only. SignalReload has the interleavings of one reload; here it is a step.

### EmailDump, MCEmailDump

The files of `dump_email`, for several mails at a time in one directory that may be absent, readonly or closed, that others may change,
and on a disk that may fill. The constructor, the handlers of `on_eom` that dump, and the destructor are actions; an error of `remove`
in the destructor ends the process (`DestroyTerminates`). `outcome` says how processing ended: `verify` and `resend` are exceptions that
handlers of their own take.

### The modules named ...Proofs

The theorems about MilterConnection and its refinement of MailPolicy (`MilterConnectionProofs`), SmtpClient,
Gateway, Startup, EmailDump, BodyHeaders and HeaderFold. `ConfigProofs` has those of both parts of the configuration: it extends ConfigLoad
and takes SignalReload as an instance (`SR`), so that what SignalReload assumes of its constants is a hypothesis there (`Bounds`).

## Runs

| Run | Question | Result |
|-----|----------|--------|
| `milter_connection` | 2 transactions, 4 recipients, 3 sections (two of them matching one recipient), 2 configurations published at any moment, dumps succeed; and do the callbacks implement MailPolicy? | all properties hold |
| `dump_failure` | the same connection when the dump may fail: may a mail that continues lose a recipient? | no |
| `dump_leak` | the same: may a copy hold another transaction's text? | it may: a finding |
| `signal_reload` | 2 edits and 3 signals against reload, publication and teardown | all properties hold |
| `smtp_client` | two copies uploaded at once, with lost and late answers, timeouts and exceptions | all properties hold |
| `body_headers` | every mail without a repeated Content-* header, through each handler and both ways out | all properties hold |
| `header_fold` | every signature of none to several lines, with names and limits of several sizes | all properties hold |
| `config_load` | every file of up to three blocks out of 20, and some of four | all properties hold |
| `gateway` | a mail for three recipients and two sections, tried twice, with a crash and a reload | all properties hold |
| `gateway_slots` | two mails hold both server processes their copies need: is every attempt answered? | it is |
| `startup` | every command line, user, permission and configuration, every step failing, two reloads | all properties hold |
| `email_dump` | two mails, a crash, two changes of the directory or the disk | all properties hold |

The type invariants and some other invariants are theorems for every value of the constants (below) and are not checked again by
a run; the type invariants of BodyHeaders, HeaderFold and ConfigLoad, whose runs show how their data grow, are.

Ten more configurations ask about a sentence of the documentation, of a comment or of a log message, and TLC refutes each of
them. They are not in `PROJECT.json`; run them as `tlc -config <cfg> <module>`:

| Configuration, module | What the repository says | What the code does |
|-----------------------|--------------------------|--------------------|
| `MilterConnectionRetrieve.cfg`, `MCMilterConnection` | `config.ini`, `retrieve`: "Reject the recipient if the key is not found." | a failed import is answered with SMFIS_CONTINUE and the recipient gets nothing |
| `SignalReloadUnreachable.cfg`, `SignalReload` | "Configuration reload failed; keeping current configuration" | when `exists()` throws, the process ends |
| `BodyHeadersDeleted.cfg`, `MCBodyHeaders` | a header marked as deleted is deleted | of a Content-* header that comes twice in two spellings, one may stay |
| `BodyHeadersStrip.cfg`, `MCBodyHeaders` | `config.ini`, `strip_headers` | only the first of several is removed |
| `BodyHeadersStripCopy.cfg`, `MCBodyHeaders` | the same | re-injected copies keep it |
| `ConfigLoadPdf.cfg`, `MCConfigLoad` | `config.ini`: two PDF settings are "[mandatory]" | a section without them loads |
| `StartupRelative.cfg`, `MCStartup` | `README.md`: `./gwmilter -c config.ini` | `daemon(0, 0)` changes to `/`; a reload reports the file as not found |
| `StartupGroup.cfg`, `MCStartup` | `config.ini`: "drop privileges to the specified user and group", read as a promise about the user alone | with `user` and no `group`, `setgid` is never called: the user is served in root's primary group |
| `EmailDumpExceptions.cfg`, `MCEmailDump` | `config.ini`: dumped on "exceptions during processing" | those of `verify_signature` and of `perform()` are not |
| `EmailDumpSilent.cfg`, `MCEmailDump` | "Email dumped into {}" | stream errors are not looked at; the message comes without a file |

Properties of MilterConnection:

- `OwnCopiesOnly`: a copy holds this transaction's text only and goes only to recipients
  accepted, with a key of the section that encrypted it.
- `OneCopyEach`: when an unsigned message continues, each keyed recipient has exactly one copy
  and nobody else has any.
- `ClearOnlyIfSigned`: a text no section encrypted leaves only when its signature verified,
  and alone.
- `SnapshotMatch`: recipients are held under the first matching section of the captured
  configuration.
- `EomAnswered`: the end-of-message callback is answered.
- `ImplementsPolicy`: the callbacks implement MailPolicy.
- `NoneLost`: with failing dumps, a mail that continues leaves out no keyed recipient.

Proved and not in a run: `StaleMessageEmpty` (a message that outlives its transaction holds nothing that can reach a
mail), `EncryptBeforeSend` (nothing is re-injected before the last section was encrypted), `PolicyGuarantee`.

With failing dumps `OwnCopiesOnly`, `OneCopyEach` and `StaleMessageEmpty` do not hold and are not claimed: a
message that outlives its transaction has recipients and text of its own (see the findings).
`ClearOnlyIfSigned`, `EncryptBeforeSend`, `SnapshotMatch` and `NoneLost` hold all the same.

Properties of SignalReload: `HangupServed` (a SIGHUP, also one that arrives during a reload, gets the final valid file published, unless the
process is going down), `StopServed`, `TeardownEnds`. Proved: `ConfigOrder` (only what was valid is stored, published or logged
with, and no stage is ahead of the one before), `NoRollback` (an action property).

Properties of SmtpClient: `AcceptedWhole` (a server accepts whole messages only, also when `add` or `perform` throws in
the middle of another transfer), `DeliveryImplemented` (it implements `SmtpDelivery`), `PerformEnds`. Proved: `UploadInOrder` (what a
handle has been given is the beginning of its message, once and in order).

Properties of BodyHeaders: `OthersKept` (headers that are neither Content-* nor stripped nor the milter's signature go out unchanged and in order),
`OwnContentOnly` (of the Content-* headers only the handler's own, each once), `ReplacedAsCopied` (changing the MTA's mail
by name and position gives what a copy made from the same list has, but for a signature, which stays in the MTA's mail), `InnerKeepsContent` (the encrypted part keeps every
Content-* header with its value). For mails that repeat a Content-* header the second and third fail;
`BodyHeadersDeleted.cfg` shows it on the weaker `DeletedAreGone`: that is the hazard of positions counted by exact spelling, and no
property of the run covers it.

Properties of HeaderFold: `LinesFull` (no line exceeds the limit, counted as a receiver counts, and all but the last reach it),
`NoBlankLine` (no folded line is white space only), `RoundTrip` (what is verified is what was signed),
`PackBounded` (the loop, which makes its text longer, still comes to its end).

Properties of ConfigLoad: `UsableSections` (a policy exactly where a section has keys, `retrieve` for PGP only, patterns that are
compiled), `NamesDistinct`, `FirstInFile` (`find_match` takes the section that opens first in the file among all that match),
`CopiesCanLeave` (when one mail can need two sections there is a signing key and a server), `SectionsAsGiven` (of what SimpleIni finds in
the file, a loaded configuration has each section and no other, and in each, of whatever kind, every field holds the converted value the file gives last, or its default;
no field's text was passed over because it does not convert, and no key stood before the first section). It speaks of sections and keys: a line that is neither,
SimpleIni drops without a word, as `HandlesMalformedFileGracefully` in `src/cfg2/ini_reader_tests.cpp` expects, and a key that no field names is left alone.

Properties of Gateway: `EncryptedOnce` (a mail leaves encrypted exactly once, by the section its recipients had when their attempt was
accepted, whatever is published meanwhile), `OncePerAttempt` (an attempt with all its copies serves a recipient at most once: duplicates
come from new attempts alone, as the comment in `on_eom` expects), `AcceptedIsServed`, `AttemptAnswered`. Proved: `RefusedIsUnserved`.

Properties of Startup: `ServesPrepared` (whoever calls a callback finds a configuration, and signals have a thread of the process that
serves), `ServesUnprivileged` (what a milter started as root serves with: the configured user without supplementary groups, the configured group, and
for each that is not configured what the process was started with, so that a user without a group is served in root's primary group),
`SuccessIsEarned` (the invoker is told success of a loaded and published configuration only, and in the foreground only
after a signal), `LogFollows` (after any reloads the default logger is that of the published configuration).

Properties of EmailDump: `DiedIsOnDisk` (whatever was under way in a crash is on disk as long as the file system works),
`CrashFileMeansCrash` (a crash- file belongs to a mail that was not finished, on any file system), `OnlyOwnRemoved` (an action
property). Proved: `FailedIsKept`.

### Bounds

Two transactions show everything a message can carry over: state passes from one transaction to the
next only. Three sections give the empty-section skip, the replaced mail and a re-injected copy in
every order, and two work items in one message need three sections with keys; four recipients give
a section with two recipients, an overlap, and one recipient that matches nothing under one
configuration. Two edits and three signals give an edit before and after a load, a SIGHUP during a
reload and a SIGTERM behind it. The abstractions themselves have no further bound.

Two transfers are enough to interleave and to have one fail beside one under way; headers of one and of two
octets, an empty body and one of three, with room for one and for three, give reads that end before, at and behind each border.
Mails have up to three headers over nine spelled names and two values: two spellings of one name, a signature in the milter's own spelling and in another,
repeated names, and something before, between and after them. Signatures of 0 to 16 characters
with limits of 5 to 8 give one to seven lines and every remainder in the last.

ConfigLoad: three blocks give a section before, between and behind the general one, and joined by a third; the four-block files begin with a usable
general section so that three encryption sections can overlap. Gateway: two recipients in one section and one in another need one copy; two attempts give a retry next to what
is left of the first; three server processes let a copy in beside its mail, and two are all held in `gateway_slots`. The
second configuration swaps the sections, drops a recipient and has other policies. The copies of a mail do not make copies, so a path has at most one section. Startup: a second
reload meets the loggers of the first. EmailDump: with two mails one can be done, fail or crash while the other is anywhere; two changes
close and open the directory again.

`CHECK_DEADLOCK FALSE` stands in the configurations of Gateway and EmailDump: attempts and mails are bounded there, and when all are over
nothing is left to do. Everywhere else a state without a step is an error.

### Fairness

`WF_vars(InEom /\ xxfi_eom)`: the libmilter thread in `on_eom` is scheduled. That includes the end of a
transfer, which the code gets from `CURLOPT_TIMEOUT` when `smtp_server_timeout` is set; with the default
-1 it is left to the SMTP server. Nothing is assumed of the MTA or of the operator. In SmtpClient the client and libcurl's
transfers are scheduled (`WF_vars(Client \/ Drive)`), and time passes (`Expire`); a server that never answers is left free, and
`PerformEnds` is claimed with a positive time limit only. In SignalReload both
threads are weakly fair, which includes that `smfi_main` returns after `smfi_stop`. A thread takes signals
in any order, and yet `StopServed` holds, because each SIGHUP served is one fewer of finitely many.
With an endless supply of SIGHUPs it would rest on the kernel's choice.

In Gateway the MTA takes a waiting transaction when it has a process for it, the milter's threads and libcurl run, and `CURLOPT_TIMEOUT` ends a transfer
(`WF_vars` of `Envelope`, of `MilterNext` and of `TransferExpires`, each over all transactions). Nothing is assumed of the MTA's own timeouts, senders or crashes: `AttemptAnswered` rests on
the timeout of the transfers, and without `smtp_server_timeout` it does not hold.

## Proofs

TLAPS checks, for every value of the constants that meets the named assumptions:

- `MilterConnectionProofs!TypeCorrect`: `Spec => []TypeOK`.
- `OwnCopies`, `StaleEmpty`: `~DumpMayFail => (Spec => []P)` for `P` = `OwnCopiesOnly`, `StaleMessageEmpty`.
  The hypothesis is needed: with it dropped TLC violates them, which is the `dump_leak` finding.
- `MilterConnectionProofs!Snapshot`, `NoClearText`, `EncryptFirst`: `Spec => []P` for `P` = `SnapshotMatch`,
  `ClearOnlyIfSigned`, `EncryptBeforeSend`, with no hypothesis on dumps.
- `ConfigProofs!ReloadTypeCorrect`, `ReloadOrder`, `ReloadNeverBack`: `TypeOK`, `ConfigOrder`, `NoRollback` of SignalReload.
- `SmtpClientProofs!TypeCorrect`, `InOrder`, `Whole`: `TypeOK`, `UploadInOrder`, `AcceptedWhole`, for any number of
  copies, any sizes, rooms and time limit.
- `SmtpClientProofs!Implements`: `Spec => DeliveryImplemented`, the refinement of `SmtpDelivery`.
- `MilterConnectionProofs!NobodyLost`: `Spec => []NoneLost`, with no hypothesis on dumps either.
- `MilterConnectionProofs!PolicyImplemented`: `~DumpMayFail => (Spec => ImplementsPolicy)`, the refinement of MailPolicy; with it
  `GuaranteeKept` and `OneCopy` (`OneCopyEach`).
- `GatewayProofs!TypeCorrect`, `OnceEncrypted`, `ServedOncePerAttempt`, `AllServedWhenAccepted`, `NobodyServedWhenRefused`: all
  safety properties of Gateway, for any mails, recipients, sections and configurations and any number of processes, attempts, crashes and reloads.
- `StartupProofs!TypeCorrect`, `Prepared`, `PrivilegesDropped`, `SuccessEarned`, `LoggingFollows`: all properties of Startup, for any set of
  configurations and any number of reloads.
- `EmailDumpProofs!TypeCorrect`, `CrashFilesBelieved`, `RemovesItsOwn`, `DiedOnDisk`, `FailedKept`: all properties of EmailDump, for any
  mails and any number of faults and crashes.
- `ConfigProofs!TypeCorrect`, `Usable`, `Distinct`, `FirstMatches`, `CopiesSignable`, `AsGiven`: all properties of ConfigLoad, for
  any file, lists, numbers, patterns and recipients.
- `HeaderFoldProofs!TypeCorrect`, `Full`, `NoneBlank`, `Unchanged`, `Bounded`: all properties of HeaderFold, for a signature, a name, a limit
  and lines of the armour of any length.
- `BodyHeadersProofs!TypeCorrect`, `Others`, `InnerContent`: `TypeOK`, `OthersKept` and `InnerKeepsContent` of BodyHeaders, for any mail, any names and
  any `strip_headers`. `OwnContentInCopies`: in every copy `OwnContentOnly` holds as well. In the MTA's own mail it needs two hypotheses, and `OwnContent`
  states them: the mail does not repeat a Content-* header (`NoContentTwice`, asked of what the handler is given), and `strip_headers` names none
  (`NoContentStripped`). Without the first TLC refutes it (`BodyHeadersDeleted.cfg`); without the second the handler's own header is stripped
  again. `Agree` (`ReplacedAsCopied`) needs the first alone.

None of these is inductive alone. For the first two the strengthening `IInv` says, beside `TypeOK`,
in which phases a message exists (`Lifetime`), that every recipient is held where the captured
configuration puts it (`SnapshotMatch`), that a recorded key was promised (`Promises`: `recipients` with a key are
in `owed` and good recipients are among the keyed ones), that the text in `body_` and the handlers is this
transaction's or none (`Texts`), that DATA continued only with a good recipient (`SomeGood`), where the
section loop stands (`Loop`), and that no copy has left before the loop is done (`NoCopyYet`). The
argument for `OwnCopiesOnly`: a copy is made from `good_recipients` of one section and its handler's text; `Promises` gives
the first part and `Texts` the second; the MTA's mail loses all recipients outside the first section
by `update_milter_recipients`, and `SomeGood` with `Loop` says that there is a first section whenever the
loop ends. Each action preserves each part in a step of its own.

The second invariant, `LoopInv`, follows the loop over `contexts_` and says nothing of whose text is sent: only
sections in `contexts_` have good recipients; DATA continues only with one; every section with good
recipients that the loop has passed is served, by the MTA's own mail (`replaced_by`) or by a work item; no copy leaves
before the loop is over, and none in clear. The argument for `NoClearText`: when the loop ends, a
section with good recipients exists and was passed (`AllServed`), so the MTA's mail was replaced
(`SomeReplaced`) before it can be released.

For SignalReload the
strengthening adds that a valid file counts as valid and that the callbacks have what the manager has
outside the two stores of a reload.

For SmtpClient, `Ended` says that a transfer's end is signalled at the end of its text only, and
`Transfers` that every copy added is under way, failed or accepted, that `running_handles_` is not 0 while one is under way,
and that `failed_count` is the number of failed copies whose end has been taken. When nothing is under way and nothing is left
to take, the copies that did not arrive are among the failed ones, so the count is large enough.

The refinement of MailPolicy adds to `IInv` and `LoopInv` what history says of the copies (`PolicyInv`): `contexts_` has no section twice, the loop serves only sections it has passed, each copy
that left is the one of its work item, a section has one copy at most, and once the mail was altered its recipients are those of that one
section. Together, when the mail continues, every section with recipients is the altered mail or an accepted copy, which is the policy's last step.

For Gateway the invariant has one conjunct per kind of transaction. `FieldsOK` holds of each: what it owes is by the sections of its own configuration, and
libcurl counts it as sent only if the MTA accepted it. `OriginalOK` ties an attempt to its stage: clear before its end of
message, encrypted by one of its sections and with a copy for each other while it sends, every section served when it was accepted. `CopyOK` ties a copy to its attempt: it
exists only for a section that is owed and is not the one of the attempt's own mail, and has exactly the recipients owed to that section. `Numbered` says that attempts are numbered without gaps, so that a new attempt's name is
free. `DeliveredOK` says of what the MTA took that it is an attempt's own mail or its copy, by that section. `OncePerAttempt` follows because sections of one attempt share
no recipient, `AcceptedIsServed` because an attempt is accepted only when all its copies count as sent.

For Startup the invariant follows `main()`: each step establishes a fact and no later step takes it back. The registry holds the logger made last and no other, so
that no reload asks spdlog for a name that is taken. For EmailDump `DumpInv` says that a crash- file's mail is unfinished and
its `dump_email` will remove it, and `KeptInv` that, before the first fault, unfinished and failed mails have their files.

`NoneLost` holds where `OneCopyEach` does not, so its proof cannot use `Texts` or `Promises`. `LostInv` (`KeptOwed`) says instead that whoever
is owed by a section is among the good recipients of that section, also in a message left behind by an earlier transaction; then `LoopInv`
and `PolicyInv`, which ask nothing of dumps, say that every such section is the altered mail or a copy that was accepted.

For ConfigLoad `LoadInv` follows the load. The nodes read so far are those of the first sections of the file, in its order and without two of one name (`TreeOK`,
`ReadInOrder`); the children passed have become the general section or a section of the configuration, in that order (`ChildrenPassed`,
`SectionsInOrder`), each of them by its own checks and from its own node (`SectionsMade`), and none was dropped (`Counted`). `FirstInFile` is the long one:
joined blocks, the order of the nodes and the order of the sections have to agree on what comes first.

For HeaderFold `FoldInv` says that the text without its folds is the signature (`Content`), that the next line begins at `pos` and may be
`line_len` long (`AtLine`), that every line so far is full and followed by a tab (`LinesSoFar`), and that a round takes more characters than it makes
(`Progress`). What the recursive functions `Without` and `Armour` give for every text is proved by the least counterexample: the set of lengths for which a fact
fails has a least element (`WFMin` of the library), and it cannot be one. The library's induction theorems themselves are out of reach.

For BodyHeaders `HeadInv` ties three lists to each other: the mail as it came without signatures (`Given`), `headers_`, and the mail at the MTA. Up to the length of `Given`,
each item of `headers_` has the name of the header at its place and, unless it is modified, its value, and a modified one is a Content-* header
(`Handed`); what follows was added by the handler, and whatever has the same name before it is deleted (`Added`). While `replace_headers` runs, the MTA's mail, signatures left out, is what
`set_message` would write of the items passed, followed by the rest of `Given` (`Replacing`). That what is changed in the whole mail is changed alike in the mail without
signatures is `ChangeTaken`. Each step then concerns one place: as no Content-* header
comes twice, the name at position 1 (`FirstOfName`) is the header the item was made of, and no other. `OthersKept` does not need that: whichever
Content-* header is changed, the others keep their order (`ChangeKeeps`). What is taken out of a list (`Those`) is a recursive function, and the lemmas on it are proved by
the least counterexample too.

Only model-checked: `PerformEnds`, `EomAnswered`, `AttemptAnswered`,
`HangupServed`, `StopServed`, `TeardownEnds` (liveness under fairness is beyond TLAPS here).

## Plan

1. `MilterConnection` with the real list of re-injections of `Gateway`: a proof that one connection's envelope and end of message implement
   Gateway's steps.

## Not modelled

- The content of headers and bodies, MIME structure, PDF layout and cryptography: libraries do that, and the
  properties only ask who gets which text. `BodyHeaders` and `HeaderFold` cover what gwmilter itself does to headers.
- `xxfi_helo` and `xxfi_unknown`: they log and continue. A connection without a context answers tempfail
  to them as to all others (`NoContext`).
- Paths beyond being relative or absolute, the levels and sinks of spdlog, and the race of `set_default_logger` with threads that log: it
  is inside spdlog, which is not part of the repository. A milter in the background that has dropped its privileges cannot make `/dump`; with
  `dump_email_on_panic` that is EmailDump's case of a directory that is absent and cannot be made, where every mail is deferred.
- That `smfi_delrcpt` may fail: libmilter fails it for a bad context or a lost connection to the MTA only.
- What the expired-key list of a handler means for delivery: the crypto library decides.
- `src/cfg2/demo.cpp`, the unit and end-to-end tests, `integrations/` (key server, key generator, containers).
- `uid_generator` and the string helpers.
