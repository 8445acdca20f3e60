---------------------------- MODULE CacheErrors ----------------------------
(***************************************************************************)
(* The errors of internal/data/errors.go and internal/cache/cache.go.      *)
(* A data.Error is known to its callers by its type alone: errors.Is goes  *)
(* through Error.Is, which compares types and ignores messages, so every   *)
(* error of one type "is" every other error of that type.                  *)
(***************************************************************************)

\* data.ErrorType
ErrorTypeUnknown        == "ERR_UNKNOWN"
ErrorTypeNotFound       == "ERR_NOT_FOUND"
ErrorTypeNotCached      == "ERR_NOT_CACHED"
ErrorTypeNotCachedRetry == "ERR_NOT_CACHED_RETRY"

\* The type of an error that is no data.Error (it has no Type method).
Foreign == "foreign"

NewError(message, errorType) == [errorType |-> errorType, message |-> message]

NewNotCachedError(message)      == NewError(message, ErrorTypeNotCached)
NewNotCachedRetryError(message) == NewError(message, ErrorTypeNotCachedRetry)

\* Error.Is, reached through errors.Is(err, target): target is a data.Error.
Is(err, target) ==
    err.errorType # Foreign /\ err.errorType = target.errorType

\* The nil error.
NoError == NewError("nil", Foreign)

ErrNotCached      == NewNotCachedError("")
ErrNotCachedRetry == NewNotCachedRetryError("")

\* internal/sql: ErrEmployeeNotFound and ErrEmployeeSearchNotFound
ErrNotFound == NewError("not found", ErrorTypeNotFound)

\* Errors of the libraries: a statement that fails, a wait before a retry.
ErrStatement  == NewError("statement failed", Foreign)
ErrRetryAfter == NewError("retry after", Foreign)

\* logic.ErrMutationDisabled
ErrMutationDisabled == NewError("mutation disabled", ErrorTypeUnknown)

ErrEmployeeNotCached       == NewNotCachedError("employee not cached")
ErrEmployeeNotFoundCached  == NewNotCachedError("employee not found; cached")
ErrEmployeeReadSet         == NewNotCachedRetryError("read set")
ErrEmployeeReadAlreadySet  == NewNotCachedRetryError("read already set")
ErrEmployeeSearchNotCached == NewNotCachedError("employee search not cached")
ErrEmployeesSearchSet      == NewNotCachedRetryError("search set")
ErrEmployeesSearchAlreadySet ==
    NewNotCachedRetryError("search already set")
ErrSleepNotCached          == NewNotCachedError("sleep not cached")
ErrSleepReadSet            == NewNotCachedRetryError("sleep read set")
ErrSleepReadAlreadySet     == NewNotCachedRetryError("sleep read already set")

\* What the reads of the in-memory cache return besides a value.
CacheErrorSet ==
    { ErrEmployeeNotCached, ErrEmployeeNotFoundCached, ErrEmployeeReadSet,
      ErrEmployeeReadAlreadySet, ErrEmployeeSearchNotCached,
      ErrEmployeesSearchSet, ErrEmployeesSearchAlreadySet,
      ErrSleepNotCached, ErrSleepReadSet, ErrSleepReadAlreadySet }
=============================================================================
