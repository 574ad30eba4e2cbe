CONSTANTS
    Raw <- Raws
    Var <- Vars
    Env <- Environment
    Mask <- Masks
    Model = {"gpt-4", "qwen"}
    Prefixes <- Stems
    Header <- Headers
    Spellings <- AnyCase
    Visible <- Ascii
SPECIFICATION Spec
INVARIANTS
    OnlyHoldersRoute
    KeysWork
    ListMatchesPermission
    UserIsHolder
