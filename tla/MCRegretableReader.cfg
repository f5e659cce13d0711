CONSTANTS
  StreamLen <- MCStreamLen
  BufSize <- MCBufSize
  MaxRead <- MCMaxRead
SPECIFICATION Spec
INVARIANT TypeOK
INVARIANT BufferIsTail
PROPERTY ImplementsRewindableStream
