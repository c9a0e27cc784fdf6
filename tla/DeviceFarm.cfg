SPECIFICATION Spec
CONSTANTS
    Uploads = {apk, test, spec}
    Ids = {serial, name}
    Arns = {arn1, arn2}
INVARIANTS
    TypeOK
    JobHasUploads
    NothingLeft
    FilterIsExact
CHECK_DEADLOCK FALSE
