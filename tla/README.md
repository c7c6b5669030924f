# A TLA+ verification of the ATSD ODBC driver

This directory holds a formal model of the driver in `src/driver`: TLA+ modules
translated from the C++ code, configurations that check them with TLC, and
theorems that the TLA+ proof system (TLAPS) checks for every value of the
constants. Line numbers below are those of `src/driver`.

## 1. The system

An application talks to the *driver manager*, which loads the driver and calls
its ODBC functions. The driver turns statements into HTTP requests to an ATSD
server and decodes the reply, a stream of binary rows.

| part | code | state | operations |
|---|---|---|---|
| result set | `result_set.*`, `read_helpers.cpp` | columns, read-ahead cache (`current_block_buffer`), block (`current_block`), iterator, row count | `init`, `fetch`, `readNextBlock`, `readNextBlockCache` |
| statement | `statement.*`, statement calls of `odbc.cpp` | query, request, response stream `in`, current row, bindings, attributes | prepare, `sendRequest`, `fetchRow`, `reset` |
| HTTP session | Poco, used in `statement.cpp` | one socket, one response stream | send request, receive response, reset |
| handles | `handles.cpp` | environments, connections, statements | allocate, free, close, unbind |
| connection | `connection.*`, `config.cpp` | url, user, password, timeouts, session | `init`, `loadConfiguration`, `setDefaults`, disconnect |
| attributes | `attr.cpp` | fields of the handles | set (array size, no-scan, catalog, timeout), get |
| data retrieval | `odbc.cpp`, `utils.h` | bound columns, output buffers | get data, bind, describe |
| diagnostics | `diagnostics.cpp`, `utils.h` | the last error of each handle | `doWith` resets and fills it, `SQLGetDiagRec` reads it |
| type parser, type table | `type_parser.cpp`, `environment.cpp` | none over time | parse, look up |
| query preparation | `escaping/`, `prepareQuery` | a lexer's position and flags, a stack of state machines, the text written so far | lexing, rewriting escape sequences, splitting the names of columns |
| catalog functions | `odbc.cpp` | none of their own | requests with a query of the driver's |
| info, log, setup dialog | `info.cpp`, `log/`, `win/` | none that the rest depends on | constants, output, user interface |

How they interact, and where it gets hard:

* All statements of a connection share one `HTTPClientSession`. Closing a
  statement resets the session, which closes the socket under every other
  statement; a new request frees the response stream that another statement
  (or an earlier reply of the same one) still points to.
* `sendRequest` tries again after an I/O error, although the server may have
  executed the request. Other exceptions end the call.
* A result set reads ahead into a cache and hands rows out of blocks whose size
  the application may change between two fetches. Any step may throw, and what
  was done up to there stays.
* Objects outlive the calls that fail on them: cache, columns, stream pointer,
  query and bindings are kept from one call to the next, and each call relies on
  what the earlier ones left.
* A query is rewritten twice by loops over one lexer: a recursive descent that
  looks ahead and gives up at any depth, and nested state machines that count
  parentheses apart from each other and hand tokens from one to the next.
* A connection takes each setting from five places in a fixed order, partly as
  text and partly as narrowed numbers, and must be found again from the shorter
  string it reports.

The driver takes no locks. The model takes the calls on one connection to come
one after another, which the driver manager's default serialisation gives.

What makes each part correct:

* result set: rows come out in the order of the reply, each once, none skipped;
  the end is announced after the last row only; calls return;
* statements: a statement reads no reply but its own; no freed stream is used; a
  request is executed a bounded number of times, succeeds only when answered, and
  the call returns; a statement that was reset can be used like a new one. The
  first two hold for an application that closes its statements (`tidy`);
* data retrieval: buffers show the row fetched last and no other, truncation is
  told, no buffer is written that the application took back;
* output buffers: nothing is written or read too far, success means whole;
* connection: every setting comes from the place that goes first, and the string
  that is reported leads back;
* handles and diagnostics: nothing deleted is used;
* type parser: no pointer leaves the tree, and only ill-formed types are undefined;
* query preparation: no token is lost, repeated or moved, escape sequences keep
  their meaning, names of tables and aliases stay as they are, the call returns.

## 2. The modules

| module | what it is |
|---|---|
| `Cursor` | abstract specification: a forward-only cursor over the rows of a reply |
| `ResultSet` | the result set and the calls that fill, read and drop it |
| `HttpSession` | the Poco session as the driver uses it (external) |
| `Statements` | the statements of one connection; composes with `HttpSession` |
| `FillOutput` | pure: what the `fillOutput*` functions write and report |
| `OutputBuffers` | an application that asks for a value, enlarges its buffer and asks again; uses `FillOutput` |
| `DataRetrieval` | bound columns, SQLGetData, the describing calls and both ways to close; uses `FillOutput` |
| `TypeParser` | the parser of column types, token by token, and `assignTypeInfo` |
| `Connections` | how a connection finds its server, and the SSL set-up all connections share |
| `Lexer` | pure: the lexer of queries |
| `Escapes` | pure: the recursive rewriting of escape sequences; uses `Lexer` |
| `Meanings` | pure: abstract specification of `Escapes`, rules for what a query with escape sequences means |
| `Columns` | the nested state machines that split the names of columns |
| `Handles` | environments, connections and statements as objects, their diagnostic records and attributes |
| `Queries` | `prepareQuery`; composes `Escapes` and `Columns` over one text, with `Meanings` for what it must say |
| `MCResultSet`, `MCStatements`, `MCDataRetrieval`, `MCConnections`, `MCQueries`, `MCHandles` | instances for TLC |
| `ResultSetProofs`, `StatementsProofs`, `ConnectionsProofs`, `ColumnsProofs`, `EscapesProofs`, `QueriesProofs`, `HandlesProofs` | theorems of the module of that name |
| `ValuesProofs` | theorems of `TypeParser`, `OutputBuffers` and `DataRetrieval` |

Operators whose comment begins with `Mutant:` or `Variant with a defect` are
defects that the properties must notice. They stand next to the operator they
change, and no specification uses them.

### ResultSet

A row is the pair of the reply it came with and its position there. The
variables are the members of `ResultSet` (`buffer`, `block`, `iterator`, `rows`,
`columns`, `mutator`), the stream behind it (`reply`, `size`, `avail`, `tail`,
`pos`) and the call in progress. The loops of `readNextBlock` and
`readNextBlockCache` run one iteration per step, because each iteration may
throw and leave what was done: `StartBlock`, `TakeRow`, `UpdateRowFails`,
`StartCache`, `ReadRow`, `ReadTornRow`, `CacheFilled`, `CacheEmpty`,
`BlockFull`. A reply may be cut anywhere: before or within its header
(`ExecuteNoHeader`, `ExecuteTornHeader`), between rows (`avail < size`, `tail =
"end"`) or within a row (`tail = "torn"`). `stale` is a ghost variable: the
block was cleared and the iterator not set since. To use such an iterator is
undefined behaviour in C++ and a nondeterministic choice in `FetchUndefined`.

The driver manager lets a request through only when no cursor is open, and a
fetch only when one is; it takes a cursor for open when `SQLNumResultCols` is
not zero after a successful call. `ClosesAfterError` says whether the
application closes the cursor after an error before it goes on.

### Statements and HttpSession

A statement is a record: the pointer `in`, the request whose response it was set
to (`origin`), rows in the cache, rows still owed to the application, whether a
query is set, what the driver manager believes (`prepared`, `cursor`), and the
last return code. Calls are single actions except `sendRequest`, which goes
through `peek`, `send` and `receive`, because its exchanges fail one by one.
`runs` counts how often the server executed the request.

Streams are where the allocator puts them: `in` is an address, and
`ReceiveResponse` may choose that of a stream that was freed before. A statement
whose `in` is not `live` points to freed memory; `PeekDangling` and
`FetchDangling` are its uses, with the outcomes a build may produce. One whose
`in` is `live` by such a coincidence reads the rows of whoever owns the stream
(`FetchReads`), and its peek closes the socket under them. `ReceiveThrows` is a
reply that `ResultSet::init` throws on when `in` points to it already.

External facts the model relies on: `HTTPClientSession` frees the old response
stream when the next request is sent and closes the socket when an exchange
fails; `NetException` derives from `IOException`, a timeout does not.

The application is held back by the driver manager only. `tidy` remembers whether
it has so far closed every statement after each request before it used the
connection again; properties that need this start with `tidy =>`.

### FillOutput and OutputBuffers

`FillString` is `fillOutputStringImpl`: sizes in characters, lengths in bytes or
characters (`inBytes`), every length reduced to the width of the LENGTH type of
the call by `Wrap` (16 bits for SQLGetDiagRec and SQLDescribeCol, 64 for
SQLGetData; `Limit` is half the range). It returns what was copied, where the
terminating NUL stands, what was reported and the return code.
`OutputBuffers` wraps an application around it: read with any buffer, enlarge
the buffer to the reported length, read again.

### DataRetrieval

One statement that sends two requests. A request ends in one of five ways
(`ExecuteNoColumns`, `ExecuteTable`, `ExecuteRefused`, `ExecuteTornHeader`,
`ExecuteThrows`), and `ResultSet::init` clears nothing: after one that threw
`columns` has the columns of the new reply and `ahead` rows that were decoded, with
the cells they have, before those of the next reply. What becomes of the rows in
cache and block row by row is the subject of `ResultSet`; here they are one queue,
of which the part that was in the block is lost when `readNextBlock` throws. After
such an exception the block is gone and its iterator was not set (`stale`), and the
next fetch is undefined behaviour (`FetchUndefined`), as is the read of a cell that
a row does not have (`ReadsBeyond`, `GetData`). The properties speak of the time
before that.

The content of a buffer is its origin: result, row and return code of the copy. The
conversion of a cell to a C type is reduced to its outcome (`Convert`). The
bindings, the driver's map, and `wanted`, what the application has bound and not
taken back, are kept apart because the driver has several ways to take bindings
back. `current` is `current_row`, which outlives fetches that throw and
`Statement::reset`.

### TypeParser

The text of a type is its tokens. The tree is a function from paths to elements,
so that the parser's raw pointers are paths and "points to an element" can be
said. The tree and `open_elements_` change token by token; `Underflow` is `top()`
of an empty stack. `assignTypeInfo` is one action. The references
(`TreeIsReference`, `InfoIsReference`) are read off the positions of the tokens
without a stack.

### Connections

The fields of `Connection` go through `ParseString`, `loadConfiguration`,
`FromUrl` and `Defaults`, in the order of `Connection::init`, and stop at the
first bad port, bad timeout, malformed URL or bad user, keeping what was set up to
there; SSLInit may throw as well, which leaves the flag of `call_once` unset.
`SetCurrentCatalog` and `SetConnectionTimeout` are the two connection attributes
that touch these fields, before or after the connect. A string is the sequence of its settings;
the loop over it is a recursive function from the number of settings read to the
fields. `Wanted` says independently of it, by looking for the last setting of a
key (`Last`), which place must win for session, path, timeouts and database. No
document has this order: it is that of the code, and the property is that no
failure, earlier connect, repetition or narrowing disturbs it. `connectionString`
writes the settings, `nextKeyValuePair` reads them back, and as nothing is escaped
a text ends at its first semicolon (`Cut`), whose rest swallows the next key.
`ssl` is what the first SSLInit of the process has set up. `FreshHandles` says
whether the driver manager hands the driver a newly allocated connection for each
connect (unixODBC does).

### Handles

`objects` are the C++ objects there are, `of` their references (a statement to its
connection, a connection to its environment), `record` the `diagnostic_record` of
each. Every call has one of three outcomes: it succeeds or is refused with a bare
SQL_ERROR (`Returns`), or it ends with an exception (`Throws`); `doWith` empties and
fills the record accordingly. Calls that bypass `doWith` change nothing and are no
actions. `known` and `connected` are the driver manager's: it passes handles it
knows, frees statements before connections and connections before environments,
and when a connection is closed it forgets the statements, which the driver's
SQLDisconnect does not delete. Those objects stay in `objects`, and `dangling` names
the ones whose connection is gone. `undefined` says that something deleted was used.

### Lexer, Escapes, Columns, Queries

A query is a sequence of pieces: a name with its quotes, a number, a string
literal, and every other character. `Lexer` groups them into tokens as
`Lexer::LookAhead`, `Peek` and `Consume` do, with tokens read ahead and the
`emit_spaces_` flag, which changes what is read next but not what was read
already. `Escapes` has one operator for each `process...` function; each takes the
whole outermost sequence as well, because the code returns that wherever it gives
up. The three loops that call each other (the sequence, the parentheses, the copy
behind a function that is only renamed) are `SequenceTurn`, `ParenthesesTurn` and
`CopyTurn`, one turn each; what a turn calls, its own next turn included, it gets as
`loops`, a record of functions from lexers. `Levels` builds these functions from the
bottom: level 0 has none, level n calls level n - 1. `Rewritten` takes one level more
than the sequence has pieces, which is enough, because every turn that is not the last
has read a piece (`RewritingEnds`). Of the functions and units in the tables of `function_declare.h` and
`escape_sequences.cpp` the model has one for each way the code treats them
(renamed, with a unit as argument, rearranged, with a fixed argument added, with
and without parentheses).

`Meanings` says what the driver promises without any of this: no blanks, no lexer, no
loops. A phrase is a text of some kind (`"sequence"`, `"group"`, `"argument"`, ...) with
the text that says the same, and each rule says when a phrase follows from shorter
ones. A `Derivation` is a set of phrases each of which follows from others of it, and
`Promised(text, means)` that there is one with this query in it. `QueryRule` is where
the conditions stand under which the promise holds (`Readable`, `Unknown`).

`Columns` is `StateMachine::run`, one turn of the loop per step, with the stack of
machines that nested SELECTs start (`machines`). Its output is a sequence of
places in the token list, so that "lost", "twice" and "moved" can be said. What should
be split is said of the tokens alone: `Open` counts the parentheses a place is in,
`Owns` finds the SELECT of a place, `IsRead` says which tokens a machine looks at, and
`DeclaresAlias` and `UsesAlias` what an alias is. A token carries what the code asks of
its text (`TokenOf`); `Upper`, `ColumnNames` and `Dotted` stand for `to_upper` and the
two regular expressions.

`Queries` runs one after the other on each text: `PrepareUnscanned` (SQL_NOSCAN),
`Escape`, then the machines. A text with a closing brace too many is sent as it came
and read by no machine (`EscapeStray`).

## 3. The runs

| run | question | result |
|---|---|---|
| `ResultSetCareful` | Does an application that closes after errors get every row in order, the end only after the last, does every call return, and is this the abstract cursor? | holds |
| `ResultSetManaged` | And one held back by the driver manager only: never a row twice, never backwards, iterator valid? | holds |
| `Statements` | In any order of calls, with addresses used again: has a tidy application no freed stream, no reply of another request, no dirty socket, and every row at SQL_NO_DATA? For any application: bounded tries, success only with an answer, requests that return? | holds |
| `Buffers` | Does no call write or read too far, is success whole, is a cut the longest prefix, does the second call succeed? | holds |
| `Retrieval` | Whatever request or fetch throws: do bound buffers and SQLGetData show the row that was fetched last, is truncation told, are buffers taken back and cells that are not there left alone, does no buffer go back to an earlier row? | holds |
| `Types` | Do the parser's pointers stay in the tree, and is tree and column of a well-formed type what its tokens say? | holds |
| `Connections` | Do session, path, timeouts and catalog come from string, attribute, data source, URL and defaults in this order, and does the completed string lead back if it has no semicolon? | holds |
| `Queries` | Do escape sequences keep their meaning, is the query that is sent whole and in order, are tables and aliases left alone, does SQLPrepare return? | holds |
| `StatementsPrepare` | Can a statement be prepared after it was reset? | violated |
| `QueriesTests` | Does the driver make of dates what its unit tests expect? | violated |
| `RetrievalClose` | Does SQL_CLOSE do nothing without a cursor? | violated |
| `ConnectionsStrict` | Are certificates checked where `sslmode=require` asks for it? | violated |

Bounds. `CacheSize` 1 or 2 stands for 1000: with replies of up to 5 rows every
border is crossed (an exactly full cache, one row more, several refills).
`ArraySizes` are smaller than, equal to and larger than the cache, and 0, which
the code accepts. Three replies are enough for one to leave something behind and
two to meet it. `RetryCount` is 1 (3 in the code): a first try, a retry, and
giving up. Two statements show every interference through the session, as a
session has one socket and one stream; with two addresses the next stream may be
where the freed one was or elsewhere. `runs` is counted up to `MaxRuns`, one
more than any property speaks of.

`Buffers` uses two bytes per character and a length of up to 9, with strings of
up to 24 characters, so that lengths wrap and do so more than once; every buffer
size is tried. `Retrieval` has two results: one for a binding to be left behind
and one, narrower or wider, to meet it. Cells are NULL, short, too long for the
small buffer, digits, or text where a number is asked for. `ExecuteThrows` tries every
number of rows decoded and every number of them lost with the block. Seven tokens are
enough for two levels of parentheses with two elements, for `Nullable(...)`
around a sized type, and for closing more than was opened.

`Connections` tries every string of at most two settings under 49 configurations
(four URLs, three ports, four combinations of server, SSL mode, database and timeout,
and one section with a malformed URL), with an attribute set before or after; a user
and a catalog have semicolons; no rule of the code
relates three settings of a string to each other. There are two connects on one
connection object, the first of which may fail; `ConnectionsStrict` has two
connections.

`Queries` has 6 605 texts, each with and without SQL_ATTR_NOSCAN. Escape sequences: each kind alone, each kind around
each, unknown ones around and beside known ones, with blanks between all tokens,
unclosed and with a stray brace (sent unread). `QueriesTests` has the one query of a test. `MCQueries` builds each of these queries together with
the derivation of its meaning, and TLC checks that it is one (`PromiseAssumption`), so
that the run compares what the code makes of a text with what `Meanings` promises. Columns: every sequence of up to three words, and
of four words of a smaller set, behind SELECT; and every combination of a select
list, a source and a tail, where sources nest subqueries twice and tails hold
UNION-like SELECTs, subqueries in conditions and broken quotes. The longer ones come
with blanks between all words and with blanks only where two names would run
together, so that a name stands right behind a parenthesis; some give a column an
alias that reads like another column, and use it in the same SELECT, in a subquery,
behind a JOIN and in a later SELECT.

`Handles` is not among the runs: its properties are theorems. `Handles.cfg` is there to
try them with `MCHandles` by hand (less than a minute): one environment, two
connections and two statements, so that each statement may be on either connection,
outlive it, and have its address, or that of its connection, used again.

Deadlock is checked except where the system really stops: undefined behaviour
ends the process, a type is parsed once, connects are bounded, and a query is
prepared once.

Fairness. `WF_vars(Loop)` in `ResultSet`: a call that runs is sequential code and
goes on. `WF_vars(SendRequestSteps)` in `Statements`: every exchange with the
server ends with an answer or an exception; Poco's timeouts see to that.
`WF_queryVars(UnquoteColumns)` in `Queries`: the loop over the tokens is sequential
code inside one call and goes on. No application call is assumed to be made.

## 4. What the checks found

Each of these has a run that shows it and is listed with the line it contradicts:

1. `statement.cpp:154` with `odbc.cpp:82`: `reset` keeps the query, and SQLPrepare
   refuses a statement whose query is not empty (`StatementsPrepare`).
2. `handles.cpp:126`: the case SQL_CLOSE falls through to SQL_UNBIND and clears
   the bindings, with or without a cursor (`RetrievalClose`).
3. `connection.cpp:92`: the certificate check is fixed for the process by the first
   https connection (`ConnectionsStrict`).
4. `escape_sequences.cpp:320`: `{d ...}` becomes the bare literal, where
   `ut/escape_sequences_ut.cpp:207` expects `toDate(...)` (`QueriesTests`). The tests
   of CONVERT (lines 4-36), TIMESTAMPADD (113-143) and timestamps (209-215) are of the
   same earlier dialect: they expect `toInt64`, `addDays` and `toDateTime`, where the
   tables of the code have no CONVERT, `dateadd` and the literal. `Meanings` has the
   names of the code.

Known from the same models, where a property has the condition that excludes them:

* `result_set.cpp:113`: `init` clears neither cache nor columns. A request that
  fails while its first rows are read leaves them to the next one of an
  application that does not close the cursor in between: `FetchedIsPrefix` needs
  `ClosesAfterError`, and `DeliveredInOrder` is what is left without it.
* `result_set.cpp:212`: any EOF between rows passes for the end of the data; a
  reply cut at a row boundary ends in SQL_NO_DATA. `NoDataOnlyAtEnd` therefore
  speaks of the last row that *arrived*. `throwIncompleteResult` (line 250)
  exists for this and nobody calls it.
* `result_set.cpp:137`: a header that is torn leaves `columns_info` with the new
  length, so that a request answered without a result set then opens a cursor on
  columns without rows; rows of a narrower reply that threw are handed out under the
  columns of the next one, where SQLGetData and bound columns read behind their
  cells. `PositionedOnFetched` needs a close after a call that threw (`~failed`);
  the others need `~undefined`.
* `statement.cpp:101`: after a failed request, or a request of another statement,
  `in` points to a stream that the session has freed; the next request peeks into
  it, a fetch reads it, and where another reply was put at the same address it is the
  other statement's rows that are read. `StreamsAlive`, `StreamOwner` and
  `RowsAccounted` hold for tidy applications only.
* `statement.cpp:157` with `info.cpp:301`: SQLGetInfo answers 0, no limit, to
  SQL_MAX_CONCURRENT_ACTIVITIES; closing a statement, or SQL_CLOSE without a cursor,
  cuts off the others. `EndMeansAll` speaks of tidy applications.
* `attr.cpp:237`: with the array size 0 every fetch says SQL_NO_DATA and the rows in
  the cache are never handed out. `ResultSetCareful` has no such size.
* `odbc.cpp:424`: a fetch whose column cannot be converted has consumed its row.
* `utils.h:176`: a text of 64K and more wraps a 16-bit length, and SQL_SUCCESS may
  come with an unterminated prefix. `SuccessIsWhole` requires `Representable`.
* `odbc.cpp:487`: binding a column with a null indicator unbinds it;
  `WithoutColumn` follows the code.
* `type_parser.cpp:60`: a type that closes more than it opens pops an empty stack,
  and `Nullable` without parentheses makes `assignTypeInfo` read an element that
  is not there. `BalancedIsDefined` says that nothing else does.
* `connection.cpp:191`: where a driver manager reuses the driver's handle after
  SQLDisconnect (`FreshHandles = FALSE`), the fields of the old connection win over
  the new data source.
* `connection.cpp:57`: the completed connection string has neither `sslmode` nor
  the path of the URL, and no user for a connection that has none, which then may
  be found in the data source. `CompletedStringReconnects` speaks of server,
  protocol and a user that was there.
* `connection.cpp:57-69` escapes nothing, and `nextKeyValuePair` (`utils.h:43-72`)
  ends a value at the first semicolon: one in the catalog or the user cuts the value
  and makes the next key an unknown one. `SaysAll` excludes it.
* `connection.cpp:163`: a port beyond 16 bits comes back modulo 65536, and 65536 is
  taken for not given. `PortsFit` leaves such numbers out of `TargetIsAsked`.
* `connection.cpp:299-303`: without port and protocol the driver speaks http to 8088.
  The repository's `README.md` says that it communicates by SSL (line 22) and that the
  default port is 8443 (line 41).
* `connection.cpp:57` leaves the timeout out as well: a data source whose timeout
  is not a number, overridden in the string, cannot be reconnected.
* `attr.cpp:94`: the value of SQL_ATTR_CONNECTION_TIMEOUT is read and logged, but
  what is set is the field `timeout`; the call never changes what a connection
  waits. TIMEOUT=0 in a string counts as not given.
* `connection.cpp:76`: the catalog never reaches the server; only
  SQLGetConnectAttr, SQLGetInfo and the completed string use it. An empty DATABASE=
  discards a catalog set before connecting.
* `config.cpp:23-38` reads none of the keys `uid`, `proto`, `privatekeyfile`,
  `certificatefile` and `calocation` that `odbc.ini` lists (lines 17-25); `NoSection` has
  only what is read, the key of the user being `username`.
* `odbc.cpp:523`, `odbc.cpp:881` and `odbc.cpp:1003-1297`: SQLMoreResults, SQLCancel
  and the functions that only return SQL_ERROR leave the diagnostic record alone, and
  so does SQLAllocHandle that of the parent (`handles.cpp:34-45`): after them
  SQLGetDiagRec tells an older error.
* `odbc.cpp:540`: SQLGetDiagRec itself does not go through `doWith`; in a UNICODE
  build an exception of the conversion of a message would leave the driver.
* `odbc.cpp:530`: SQLDisconnect keeps the statements of the connection. Where the
  driver manager only forgets their handles the objects are never deleted;
  `NothingDangles` says that they are not used either.
* `attr.cpp:145`: SQL_ATTR_METADATA_ID of a connection is accepted and ignored, and
  that of an environment reaches statements allocated later only.
* `lexer.cpp:227`: a vertical tab outside quotes is an empty token that is never
  passed, and SQLPrepare does not return; `Passable` excludes it. An open double
  quote at the end of a text is swallowed.
* `lexer.cpp:227`: characters no case knows run to the next white space and
  swallow parentheses: `value*(b + c) FROM t` closes one more than it opened, and
  everything behind is left out of the query that is sent. `Parenthesised` excludes
  such runs. A backquoted argument leaves its escape sequence unrewritten, although
  tests in `ut/escape_sequences_ut.cpp` expect otherwise.
* `escape_sequences.cpp:467`: a closing brace too many ends the rewriting; the query
  goes out as it came, with no column split.
* `state_machine.cpp:146`: in parentheses that hold two SELECTs the token behind the
  closing one is lost. `SubqueriesAlone` excludes it from `QueryIsWhole`;
  `LostBehindParenthesis` says that nothing else is ever lost.
* `state_machine.cpp:155`: when the machine of a subquery returns, the token right
  behind its parenthesis is consumed with `read_from_state` false: it is copied, but
  changes no state. In `SELECT X,(SELECT X)FROM "entity.x"` the machine never sees FROM
  and splits the name of the table; with a blank before FROM it does not. `IsRead`
  leaves such a token out of what `TablesOfColumnsAreNotSplit` speaks of.
* `state_machine.cpp:79`: a table behind a select list of nothing but `*` is split
  like a column; aliases are stored as written and looked up in upper case, so
  that lower-case ones are split where they are used; so is the alias of what is
  not a column, or of a column that is not split itself. `TablesOfColumnsAreNotSplit` and `AliasesAreNotSplit` name what is
  left.
* `escape_sequences.cpp:365`: an unknown sequence within a known one makes the
  whole outermost text appear again in the middle of the output.
  `EscapesKeepMeaning` speaks of known sequences in each other and of unknown ones
  around known ones. A blank behind a group of parentheses leaves the sequence as
  it was; `{fn ABS(day)}` takes a column for a unit; `{}` disappears; LOCATE with
  two arguments is copied.

## 5. The proofs

All theorems hold for every value of the constants that satisfies the named
assumptions in the modules (`ResultSetAssumption`, `StatementsAssumption`,
`OutputBuffersAssumption`, `DataRetrievalAssumption`, `TypeParserAssumption`,
`ConnectionsAssumption`, `HttpSessionAssumption`, `ColumnsAssumption`, `LexerAssumption`,
`EscapesAssumption`, `QueriesAssumption`, `TextsAssumption`) or, for `Handles`, that
objects have different addresses (`Distinct`); nothing else is assumed unless the
statement of a theorem says so. `LexerAssumption` says that a piece is either a literal,
a number, a character no case knows or a keyword; `EscapesAssumption` and
`QueriesAssumption` that what the rewriting writes are pieces and that every piece has a
name. `TextsAssumption` is that no query has a vertical tab inside an escape sequence,
for which the code does not return and the model has no value. TLC evaluates all of
them.

| module | theorem | argument |
|---|---|---|
| `ResultSetProofs` | `TypeCorrect`, `IteratorAlwaysValid`, `PlacesInOrder`, `RowsDeliveredInOrder` | `OrderInv`: handed out < block < cache < stream. The order of the rows handed out is not inductive by itself: a step takes a row from one place and puts it into the next, so every place needs its bound. |
| `ResultSetProofs` | `PipelineHasNoGap`, `FetchIsComplete`, `NoDataIsEarned` | `PipelineInv`: what was handed out, block, cache and position in the stream add up without a gap while a reply is read, and nothing is kept otherwise. Needs `ClosesAfterError`. |
| | `ResultSetIsCursor` | refinement of `Cursor`, step by step, from `PipelineInv` and the fact that blocks are not empty while rows are left (0 is not an array size). |
| `StatementsProofs` | `StatementsTyped`, `RetriesAreBounded`, `SuccessesAreAnswered` | `StatementsInv`, which holds for every application: tries and runs advance together (`ProgressInv`), and a response is awaited only after the server has run the request. |
| | `StreamsHaveOneOwner`, `RowsAreAccounted`, `EndMeansAllRows`, `StreamsStayAlive`, `WireStaysClean` | `TidyInv`, for as long as the application is `tidy`: a statement that is not closed sent the last request and points nowhere while that request runs, a closed one points nowhere (`ClosedInv`); whoever points somewhere points to the stream of the session, and the rows there are those it is owed (`OwnerInv`); no response is unread when a request is about to be sent (`WireInv`). Addresses are used again, so none of this follows from their being different. |
| `ValuesProofs` (`OutputBuffers`) | `NeverOverrun`, `NeverOverread`, `SuccessMeansWhole`, `CutWell`, `SecondCallSucceeds` | each call establishes all of it from arbitrary sizes (`StringAnswered`, `FillStringFacts`), wrapped lengths included; only the second call needs memory: the buffer was made from the length the first one reported. |
| `ValuesProofs` (`DataRetrieval`) | `WritesAreWanted`, `PositionIsFetched`, `FetchIsWhole`, `CutsAreTold`, `BuffersOnlyAdvance` | Of the queue of rows that failures leave behind: it is ordered (`QueueInv`), what buffers hold comes before all of it (`BuffersInv`), and while no request or fetch has failed it is the rest of the result opened last (`PlaceInv`). So a fetch that fills a buffer moves it forward, and one that succeeds has reached every binding; bindings are among the wanted ones (`BoundInv`). |
| `ValuesProofs` (`TypeParser`) | `PointersStayInTree` | `ParserInv`: paths in the tree, the place behind the last element of each is free (`NextIsFree`), and the stack is a way down. Without `NextIsFree` a new element could take the place of one the stack points to. |
| | `BalancedTypesAreDefined` | `StackInv`: the stack has one element more than parentheses are open, so it is empty only behind one too many. `MeaningInv`: an element that is Nullable has elements unless the text lacks a parenthesis, and the descent of `assignTypeInfo` ends, because paths are no longer than the text. |
| | `TreesAreReference`, `ColumnsAreReference` | `TreeInv`: a well-formed text gives each of its tokens one path (`PathOfIsRight`), and the tree built so far holds exactly the names and numbers read, each at the path of its token, while the stack leads to the path of the next. The column follows the way down through the Nullables, token by token (`WayIsReached`). |
| `ConnectionsProofs` | `ConnectionsTyped`, `SessionsAreThere` | `OpenedInv`: a session is there whenever the driver manager takes the connection for connected, and it is the one the fields describe. |
| | `CompletedStringsReconnect` | `WrittenIsRead`: settings without semicolons come back from `nextKeyValuePair` as they were written. `Settled`: fields that `Defaults` has completed then go through parsing, loading and defaults unchanged, field by field. Says nothing of fields with a semicolon, which do not come back. |
| | `TargetsAreAsked` | `AimedInv`: before a connect the fields are those of a fresh connection with its catalog, after it they are what the string resolves to; and that is `Wanted`, by induction along the settings of the string, from the last one that counts. Needs `FreshHandles`, and ports that fit 16 bits (`PortsFit`, in the property). |
| `HandlesProofs` | `HandlesTyped`, `CallsUseWhatIsThere` | `KnownInv`: a handle the driver manager passes is an object, a known connection refers to a known environment, a known statement to a connection that is still open. What is deleted is therefore referred to by forgotten statements only. |
| `ColumnsProofs` | `TokensStayInOrder`, `OnlyBehindParentheses` | `OrderIInv`: a machine that reads has appended nothing from the current token on. `LostIInv`: a machine that is about to return stands at the parenthesis it has appended or at a token that was lost behind one. |
| | `QueriesAreWhole`, `TablesKeepTheirNames`, `AliasesKeepTheirNames` | `WholeInv`, of well-formed queries. Some list of places says which SELECT each machine began with (`Nested`); they nest strictly in the parentheses, so the level of the innermost machine is the number opened since its SELECT (`Counts`), and none ends too early. For the names that is not enough: a later split depends on what the machine has learned, so every name read is remembered by the machine of its SELECT (`Remembers`), unless that SELECT is closed. What stands in the output split is neither a table nor an alias (`SplitsAllowed`), and the same is known of the token that is read next (`CurrentAllowed`). The theorems say nothing of SELECT * and of a FROM right behind a subquery (`AnnouncesTable`), nor of aliases used in lower or mixed case (`UsesAlias`): there the code does split. |
| `EscapesProofs` | `RewritingEnds` | the lexer never goes back (`Sound`: the tokens read ahead are tokens of the text, one behind the other, from some place on), and a turn reads a token before it calls a loop. So the loops of level n are good (`Good`: a text comes back, with a lexer that has not gone back) from n places before the end on, by induction on the level (`LevelsAreGood`), for each function and each chain of arguments (`Chained`). The open quote that the lexer drops at the end is why "something was read" is said of the lexer and not of the token. |
| `QueriesProofs` | `PromisesAreKept` | a lemma for each rule of `Meanings` says that the code, wherever it stands before the phrase with enough levels left, writes what the phrase means up to blanks and stops behind it (`IsInside`, `IsGroup`, `IsCopy`, `IsArgument`, `IsFunction`, `IsSequence`). `Yields` leaves open whether a token is read ahead with or without blanks, because that depends on what stood before. Then, over the length of the phrases of a derivation, `DerivedHolds`; unknown sequences are followed to the point where the code gives up (`UnknownStays`); and `Meant` puts the sequences of a query behind each other. |
| | `EscapesAreMeant` | with that, `EscapesKeepMeaning` of every query for which `Meanings` derives what it means (`ClaimsArePromised`; `PromiseAssumption` of the run). |
| | `TokensAreKnown`, `RewrittenQueriesAreRead` | what the lexer makes of any text is a sequence of `Token`, by induction along the places of the text. `Escape` therefore leads to an initial state of `Columns`, and the invariants of `ColumnsProofs` carry over: `QueryIInv` has them once the text is rewritten. A query with a stray brace is sent as it came and no machine reads it; the theorem is about the others. |

The provers have no induction over numbers (the library's theorems take an operator
as parameter). `LeastNumber` replaces it: a set of numbers that is not empty has a
least one, from the library's theorem about minimal elements (`WFMin`) over the
finite intervals 1..n. The recursive function of the settings of a string, the
descent of `assignTypeInfo` and the last setting of a key are all reached from a
least counterexample.

Recursive functions (`Levels`, `ReplaceFrom`, `TokensFrom`, `Words`) are unfolded the
same way: a lemma (`LevelsRecursion`, `ReplaceRecursion`, ...) shows from a least
counterexample that a function with the defining equation exists up to every bound, and
the theorems use the equation alone.

Only model-checked: `CallsReturn`, `RequestsReturn` and `PrepareReturns` (liveness
under fairness is out of the prover's reach). Every invariant and every action property
of the passing runs is the subject of a theorem. `EscapesAreMeant` has its hypothesis
because the claims of the queries are a constant: that they are promises is what
`PromiseAssumption` checks of the claims of the run, and what `PromisesAreKept` says of
a text needs no constant.

## 6. What is not modelled

* The answers of `SQLGetInfo` (`info.cpp`), SQLGetFunctions and the attributes that are
  only stored or answered with a constant (`attr.cpp`), and the type table
  (`environment.cpp`): tables of constants. In `Handles` the calls succeed, are
  refused or throw.
* `log/`, `win/setup.cpp` and `win/dllmain.cpp`: output, registry and user interface.
* `string_view.h`, `string_ref.h`, `unicode_t.h`, `iostream_debug_helpers.h`,
  `platform.h`: representations of text.
* `contrib/gtest` (31 605 of the repository's 38 733 lines) and `ut/nano.cpp` are
  vendored or test code. The models cover nearly half of the lines of the
  driver, and nearly all of those outside the tables just named that keep state.
* The texts of the queries of SQLTables, SQLColumns and SQLGetTypeInfo, and of
  messages. SQLGetDiagRec only reads the record; the text it copies goes
  through `FillOutput`. The choice of SQLSTATE is left out.
* Characters: those of a type, a connection string and a query are tokens,
  settings and pieces. Braces within string literals, an unclosed single quote and
  the leading blank of " DayOfYear" are left out of queries; negative timeouts,
  passwords, key files and table filters of connections follow rules that are
  modelled for other settings.
* Conversions of fields (`getInt`, `getDate` and so on) are calls that may fail.

## 7. Order of the project

The modules were written from the core outwards: result set, statements on their
session, data retrieval with output buffers, connections, type parser, query
preparation, handles; each with its theorems after TLC agreed. What could follow:

1. A composition of `Statements` and `DataRetrieval`: bindings of several statements
   over one session. The two share only the result set, which each models from its
   side.
2. Rules of `Meanings` for what the driver does beside its promises: unknown
   sequences within known ones, and calls with a blank before their parenthesis, which
   section 4 describes and no property excludes.
