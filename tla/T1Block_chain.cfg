\* T1Block: ChainHonoursIfs (expected to be violated).
\* A 64-byte response (4 units) against the default block size 2 gives
\* num_iblocks = 2; the reader may only shrink the IFS (to 16 bytes), so a
\* request between the two blocks makes the second carry 1 unit of the 2 left.
CONSTANTS
  ReaderPcbs <- MCReaderPcbs
  UndefPcbs <- MCUndefPcbs
  IfsValues = {1}
  DefaultIFS = 2
  Responses = {1, 4}
  MaxReads = 4
  MaxResponses = 2
  MaxWtx = 2
SPECIFICATION Spec
PROPERTY ChainHonoursIfs
\* prot_t1 stops for good when the host never answers (read_usb_uart_apdu
\* blocks); once the reader is silent its loop only times out.
CHECK_DEADLOCK FALSE
