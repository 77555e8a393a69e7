CONSTANTS
    QMax <- MCQMax
SPECIFICATION Spec
INVARIANTS
    TypeOK
    ActiveParamsUsable
    MsgBodiesOwned
